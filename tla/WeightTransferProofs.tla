------------------------ MODULE WeightTransferProofs ------------------------
(***************************************************************************)
(* Proofs about WeightTransfer: the weights that the inference worker has  *)
(* loaded are the trainer's, in order and byte by byte.                    *)
(***************************************************************************)
EXTENDS WeightTransfer, SequenceTheorems, WellFoundedInduction, TLAPS

-----------------------------------------------------------------------------
(* The chunks *)

\* A set of natural numbers that is not empty has a smallest element.
LEMMA Smallest ==
  ASSUME NEW Bad \in SUBSET Nat, Bad # {}
  PROVE  \E m \in Bad : \A n \in Bad : m <= n
<1>1. PICK m \in Bad : \A n \in Bad : <<n, m>> \notin OpToRel(<, Nat)
  BY NatLessThanWellFounded, WFMin
<1>2. \A n \in Bad : ~(n < m)
  BY <1>1 DEF OpToRel
<1> QED BY <1>2

\* The partial concatenations of a sequence of sequences, the first n of them.
Concats(f, seqs, n) ==
  f = [i \in 1..n |-> IF i = 1 THEN seqs[i] ELSE f[i - 1] \o seqs[i]]

\* They exist.
LEMMA ConcatsExist ==
  ASSUME NEW seqs, NEW n \in Nat
  PROVE  \E f : Concats(f, seqs, n)
<1> DEFINE Bad == {k \in Nat : ~ \E f : Concats(f, seqs, k)}
<1>1. SUFFICES ASSUME Bad # {} PROVE FALSE
  OBVIOUS
<1>2. PICK m \in Bad : \A k \in Bad : m <= k
  <2>1. Bad \in SUBSET Nat
    OBVIOUS
  <2> HIDE DEF Bad
  <2> QED BY <1>1, <2>1, Smallest
<1>3. m # 0
  <2>1. Concats([i \in 1..0 |-> 0], seqs, 0)
    BY DEF Concats
  <2> QED BY <1>2, <2>1
<1>4. m - 1 \in Nat /\ m - 1 \notin Bad
  BY <1>2, <1>3
<1>5. PICK f : Concats(f, seqs, m - 1)
  BY <1>4
<1> DEFINE g == [i \in 1..m |-> IF i = m THEN IF i = 1 THEN seqs[i] ELSE f[i - 1] \o seqs[i]
                                ELSE f[i]]
<1>6. \A i \in 1..m : g[i] = IF i = 1 THEN seqs[i] ELSE g[i - 1] \o seqs[i]
  <2>1. \A i \in 1..(m - 1) : f[i] = IF i = 1 THEN seqs[i] ELSE f[i - 1] \o seqs[i]
    BY <1>5, <1>4 DEF Concats
  <2>2. \A i \in 1..m : i = m \/ i \in 1..(m - 1)
    BY <1>4
  <2>3. \A i \in 1..m : i # 1 => i - 1 \in 1..m /\ i - 1 # m /\ g[i - 1] = f[i - 1]
    BY <1>4
  <2> QED BY <2>1, <2>2, <2>3
<1>7. Concats(g, seqs, m)
  <2> HIDE DEF g
  <2>1. g = [i \in 1..m |-> g[i]]
    BY DEF g
  <2> QED BY <2>1, <1>6 DEF Concats
<1> QED BY <1>2, <1>7

\* FlattenSeq is the last of them.
LEMMA FlattenIsConcats ==
  ASSUME NEW seqs, Len(seqs) \in Nat \ {0}
  PROVE  \E f : Concats(f, seqs, Len(seqs)) /\ FlattenSeq(seqs) = f[Len(seqs)]
<1>1. \E f : Concats(f, seqs, Len(seqs))
  BY ConcatsExist
<1>2. FlattenSeq(seqs) = (CHOOSE f : Concats(f, seqs, Len(seqs)))[Len(seqs)]
  BY DEF FlattenSeq, Concats
<1> QED BY <1>1, <1>2

\* Rounding a quotient up.
LEMMA CeilingDivision ==
  ASSUME NEW s \in Nat \ {0}, NEW b \in Nat \ {0}
  PROVE  LET q == (s + b - 1) \div b IN q \in Nat \ {0} /\ (q - 1) * b < s /\ s <= q * b
<1> DEFINE q == (s + b - 1) \div b
<1>1. s + b - 1 \in Int /\ s + b - 1 >= 0
  OBVIOUS
<1>2. q \in Int /\ q * b <= s + b - 1 /\ s + b - 1 < (q + 1) * b
  BY <1>1
<1>3. (q + 1) * b = q * b + b /\ (q - 1) * b = q * b - b
  BY <1>2
<1>4. q >= 1
  <2> HIDE DEF q
  <2>1. ~(q <= 0)
    <3>1. q <= 0 => q * b <= 0
      BY <1>2
    <3> QED BY <3>1, <1>2, <1>3
  <2> QED BY <2>1, <1>2
<1> HIDE DEF q
<1>5. q \in Nat \ {0} /\ (q - 1) * b < s /\ s <= q * b
  BY <1>2, <1>3, <1>4
<1> QED BY <1>5 DEF q

\* Multiples are ordered as their factors.
LEMMA Multiples ==
  ASSUME NEW b \in Nat \ {0}, NEW j \in Int, NEW k \in Int, j <= k
  PROVE  j * b \in Int /\ k * b \in Int /\ j * b <= k * b /\ (j + 1) * b = j * b + b
OBVIOUS

ChunkRecords == [w : Nat, chunkOffset : Nat, size : Nat]

\* The weights of which chunk c and those before it complete the last, and
\* how far into the next they reach.
Ends(c) == c.chunkOffset + c.size = sizes[c.w]
WholeAt(k) == IF k = 0 THEN 0 ELSE IF Ends(Chunks[k]) THEN Chunks[k].w ELSE Chunks[k].w - 1
PartAt(k) ==
  IF k = 0 THEN 0 ELSE IF Ends(Chunks[k]) THEN 0 ELSE Chunks[k].chunkOffset + Chunks[k].size

\* A part of a weight, the whole weight if it fits into a bucket; and the
\* part or the weight that comes next.
Piece(c) ==
  /\ c.size \in 1..EngineBucket /\ c.chunkOffset + c.size <= sizes[c.w]
  /\ sizes[c.w] <= EngineBucket => c.chunkOffset = 0 /\ c.size = sizes[c.w]
Follows(c, d) ==
  IF Ends(c) THEN d.w = c.w + 1 /\ d.chunkOffset = 0
  ELSE d.w = c.w /\ d.chunkOffset = c.chunkOffset + c.size

\* A sequence of chunks that splits weights m..n.
Splits(s, m, n) ==
  /\ s \in Seq(ChunkRecords) /\ Len(s) >= 1
  /\ \A k \in 1..Len(s) : s[k].w \in m..n /\ Piece(s[k])
  /\ s[1].w = m /\ s[1].chunkOffset = 0
  /\ \A k \in 1..(Len(s) - 1) : Follows(s[k], s[k + 1])
  /\ s[Len(s)].w = n /\ Ends(s[Len(s)])

\* split_weight_chunks splits a weight.
LEMMA ChunksOfSplits ==
  ASSUME sizes \in Seq(Nat \ {0}), NEW w \in Weights
  PROVE  Splits(ChunksOf(w), w, w)
<1> DEFINE b == EngineBucket
           q == (sizes[w] + b - 1) \div b
           first(k) == (k - 1) * b
           size(k) == IF sizes[w] - first(k) < b THEN sizes[w] - first(k) ELSE b
           s == ChunksOf(w)
<1>1. b \in Nat \ {0} /\ w \in Nat /\ sizes[w] \in Nat \ {0}
  BY TransferAssumption DEF Weights
<1>2. q \in Nat \ {0} /\ (q - 1) * b < sizes[w] /\ sizes[w] <= q * b
  BY <1>1, CeilingDivision
<1>3. s = [k \in 1..q |-> [w |-> w, chunkOffset |-> first(k), size |-> size(k)]]
  BY DEF ChunksOf
<1> HIDE DEF q, s, b
<1>4. ASSUME NEW k \in 1..q
      PROVE  /\ first(k) \in Nat /\ first(k) < sizes[w] /\ size(k) \in 1..b
             /\ first(k) + size(k) <= sizes[w]
             /\ k = q => first(k) + size(k) = sizes[w]
             /\ k < q => first(k) + size(k) = first(k + 1) /\ first(k + 1) < sizes[w]
  <2>1. first(k) \in Int /\ 0 * b <= first(k) /\ first(k) <= (q - 1) * b
    BY <1>1, <1>2, Multiples
  <2>2. 0 * b = 0
    BY <1>1
  <2>3. first(k) \in Nat /\ first(k) < sizes[w]
    BY <2>1, <2>2, <1>1, <1>2, Multiples
  <2>4. k = q => sizes[w] <= first(k) + b
    BY <1>1, <1>2, Multiples
  <2>5. k < q => first(k + 1) = first(k) + b /\ first(k + 1) <= (q - 1) * b /\ first(k + 1) \in Int
    <3>1. (k - 1) * b + b = ((k - 1) + 1) * b
      BY <1>1, Multiples
    <3>2. k < q => k * b <= (q - 1) * b /\ k * b \in Int
      BY <1>1, <1>2, Multiples
    <3>3. (k - 1) + 1 = k /\ (k + 1) - 1 = k
      OBVIOUS
    <3> QED BY <3>1, <3>2, <3>3
  <2>6. k < q => first(k + 1) < sizes[w]
    <3>1. (q - 1) * b \in Int
      BY <1>1, <1>2, Multiples
    <3> QED BY <2>5, <3>1, <1>1, <1>2
  <2> HIDE DEF first
  <2>7. size(k) \in 1..b /\ first(k) + size(k) <= sizes[w]
    BY <2>3, <1>1
  <2>8. k = q => first(k) + size(k) = sizes[w]
    <3>1. k = q => sizes[w] - first(k) < b \/ sizes[w] - first(k) = b
      BY <2>3, <2>4, <1>1
    <3>2. first(k) + (sizes[w] - first(k)) = sizes[w]
      BY <2>3, <1>1
    <3> QED BY <3>1, <3>2
  <2>9. k < q => first(k) + size(k) = first(k + 1)
    BY <2>3, <2>5, <2>6, <1>1
  <2> QED BY <2>3, <2>6, <2>7, <2>8, <2>9
<1> HIDE DEF size
<1>5. Len(s) = q /\ s \in Seq(ChunkRecords)
  <2>1. \A k \in 1..q : [w |-> w, chunkOffset |-> first(k), size |-> size(k)] \in ChunkRecords
    BY <1>1, <1>4 DEF ChunkRecords
  <2> HIDE DEF first
  <2>2. s \in Seq(ChunkRecords)
    BY <1>2, <1>3, <2>1, IsASeq
  <2> QED BY <2>2, <1>2, <1>3
<1>6. \A k \in 1..q : s[k].w = w /\ s[k].chunkOffset = first(k) /\ s[k].size = size(k)
  <2> HIDE DEF first
  <2> QED BY <1>3
<1>7. first(1) = 0
  BY <1>1
<1>8. sizes[w] <= b => q = 1
  <2>1. ASSUME q >= 2 PROVE sizes[w] > b
    <3>1. 1 * b <= (q - 1) * b /\ 1 * b = b /\ (q - 1) * b \in Int
      BY <1>1, <1>2, <2>1, Multiples
    <3>2. \A x, y, z \in Int : z <= x /\ x < y => y > z
      OBVIOUS
    <3> DEFINE x == (q - 1) * b
    <3>3. x \in Int /\ b <= x /\ x < sizes[w]
      BY <3>1, <1>2
    <3> HIDE DEF x
    <3> QED BY <3>2, <3>3, <1>1
  <2> QED BY <2>1, <1>1, <1>2
<1> HIDE DEF first
<1>9. \A k \in 1..Len(s) : s[k].w \in w..w /\ Piece(s[k])
  BY <1>1, <1>4, <1>5, <1>6, <1>7, <1>8 DEF b, Piece
<1>10. \A k \in 1..(Len(s) - 1) : Follows(s[k], s[k + 1])
  <2>1. ASSUME NEW k \in 1..(q - 1) PROVE Follows(s[k], s[k + 1])
    <3>1. k \in 1..q /\ k + 1 \in 1..q /\ k < q
      BY <1>2
    <3>2. /\ first(k) + size(k) = first(k + 1) /\ first(k + 1) < sizes[w]
          /\ first(k + 1) \in Nat
      BY <3>1, <1>4
    <3>3. /\ s[k].w = w /\ s[k].chunkOffset = first(k) /\ s[k].size = size(k)
          /\ s[k + 1].w = w /\ s[k + 1].chunkOffset = first(k + 1)
      BY <3>1, <1>6
    <3>4. first(k) + size(k) # sizes[w]
      BY <3>2, <1>1
    <3> QED BY <3>2, <3>3, <3>4 DEF Ends, Follows
  <2> QED BY <2>1, <1>5
<1>11. s[1].w = w /\ s[1].chunkOffset = 0 /\ s[Len(s)].w = w /\ Ends(s[Len(s)])
  <2>1. 1 \in 1..q /\ q \in 1..q
    BY <1>2
  <2>2. first(q) + size(q) = sizes[w] /\ s[q].w = w /\ s[q].chunkOffset = first(q) /\ s[q].size = size(q)
    BY <1>4, <1>6, <2>1
  <2>3. s[1].w = w /\ s[1].chunkOffset = 0
    BY <1>6, <1>7, <2>1
  <2> QED BY <1>5, <2>2, <2>3 DEF Ends
<1>12. Splits(s, w, w)
  BY <1>2, <1>5, <1>9, <1>10, <1>11 DEF Splits
<1> QED BY <1>12 DEF s

\* The chunks of consecutive weights, one sequence after the other.
LEMMA SplitsJoin ==
  ASSUME NEW l \in Nat, NEW m \in Nat, NEW n \in Nat, l <= m, m < n,
         NEW s, NEW t, Splits(s, l, m), Splits(t, m + 1, n)
  PROVE  Splits(s \o t, l, n)
<1> DEFINE u == s \o t
<1>1. /\ s \in Seq(ChunkRecords) /\ Len(s) \in Nat /\ Len(s) >= 1
      /\ t \in Seq(ChunkRecords) /\ Len(t) \in Nat /\ Len(t) >= 1
  BY LenProperties DEF Splits
<1>2. /\ u \in Seq(ChunkRecords) /\ Len(u) = Len(s) + Len(t)
      /\ \A i \in 1..(Len(s) + Len(t)) : u[i] = IF i <= Len(s) THEN s[i] ELSE t[i - Len(s)]
  BY <1>1, ConcatProperties
<1> HIDE DEF u
<1>3. /\ \A k \in 1..Len(s) : u[k] = s[k]
      /\ \A k \in 1..Len(t) : u[Len(s) + k] = t[k]
  <2>1. ASSUME NEW k \in 1..Len(s) PROVE u[k] = s[k]
    <3>1. k \in 1..(Len(s) + Len(t)) /\ k <= Len(s)
      BY <1>1
    <3> QED BY <1>2, <3>1
  <2>2. ASSUME NEW k \in 1..Len(t) PROVE u[Len(s) + k] = t[k]
    <3>1. /\ Len(s) + k \in 1..(Len(s) + Len(t)) /\ ~(Len(s) + k <= Len(s))
          /\ (Len(s) + k) - Len(s) = k
      BY <1>1
    <3> QED BY <1>2, <3>1
  <2> QED BY <2>1, <2>2
<1>4. \A k \in 1..Len(u) : k \in 1..Len(s) \/ (k - Len(s) \in 1..Len(t) /\ k = Len(s) + (k - Len(s)))
  BY <1>1, <1>2
<1>5. ASSUME NEW k \in 1..Len(u) PROVE u[k].w \in l..n /\ Piece(u[k])
  <2>1. CASE k \in 1..Len(s)
    <3>1. u[k] = s[k] /\ s[k].w \in l..m /\ Piece(s[k])
      BY <1>3, <2>1 DEF Splits
    <3> QED BY <3>1
  <2>2. CASE k - Len(s) \in 1..Len(t) /\ k = Len(s) + (k - Len(s))
    <3>1. u[k] = t[k - Len(s)]
      BY <1>3, <2>2
    <3>2. t[k - Len(s)].w \in (m + 1)..n /\ Piece(t[k - Len(s)])
      BY <2>2 DEF Splits
    <3> QED BY <3>1, <3>2
  <2> QED BY <1>4, <2>1, <2>2
<1>6. u[1].w = l /\ u[1].chunkOffset = 0 /\ u[Len(u)].w = n /\ Ends(u[Len(u)])
  <2>1. u[1] = s[1] /\ u[Len(u)] = t[Len(t)]
    BY <1>1, <1>2, <1>3
  <2> QED BY <2>1 DEF Splits
<1>7. ASSUME NEW k \in 1..(Len(u) - 1) PROVE Follows(u[k], u[k + 1])
  <2>1. CASE k < Len(s)
    <3>1. k \in 1..(Len(s) - 1) /\ k \in 1..Len(s) /\ k + 1 \in 1..Len(s)
      BY <1>1, <2>1
    <3>2. u[k] = s[k] /\ u[k + 1] = s[k + 1]
      BY <1>3, <3>1
    <3> QED BY <3>1, <3>2 DEF Splits
  <2>2. CASE k = Len(s)
    <3>1. u[k] = s[Len(s)] /\ u[k + 1] = t[1]
      BY <1>1, <1>3, <2>2
    <3>2. /\ Ends(s[Len(s)]) /\ s[Len(s)].w = m
          /\ t[1].w = m + 1 /\ t[1].chunkOffset = 0
      BY DEF Splits
    <3> QED BY <3>1, <3>2 DEF Follows
  <2>3. CASE k > Len(s)
    <3>1. k - Len(s) \in 1..(Len(t) - 1) /\ (k - Len(s)) + 1 \in 1..Len(t)
      BY <1>1, <1>2, <2>3
    <3>2. u[k] = t[k - Len(s)] /\ u[k + 1] = t[(k - Len(s)) + 1]
      <4>1. k = Len(s) + (k - Len(s)) /\ k + 1 = Len(s) + ((k - Len(s)) + 1)
        BY <1>1
      <4>2. k - Len(s) \in 1..Len(t)
        BY <1>1, <3>1
      <4> QED BY <1>3, <3>1, <4>1, <4>2
    <3> QED BY <3>1, <3>2 DEF Splits
  <2> QED BY <1>1, <1>2, <2>1, <2>2, <2>3
<1>8. Len(u) >= 1
  BY <1>1, <1>2
<1>9. Splits(u, l, n)
  BY <1>2, <1>5, <1>6, <1>7, <1>8 DEF Splits
<1> QED BY <1>9 DEF u

\* The chunks of a model split its weights.
LEMMA ChunksSplit ==
  ASSUME sizes \in Seq(Nat \ {0}), sizes # <<>>
  PROVE  Splits(Chunks, 1, Len(sizes))
<1> DEFINE seqs == [w \in Weights |-> ChunksOf(w)]
           n == Len(sizes)
<1>1. n \in Nat \ {0} /\ Weights = 1..n
  BY EmptySeq, LenProperties DEF Weights
<1>2. Len(seqs) = n /\ \A w \in 1..n : seqs[w] = ChunksOf(w) /\ Splits(seqs[w], w, w)
  <2>1. seqs = [w \in 1..n |-> ChunksOf(w)]
    BY <1>1
  <2>2. \A w \in 1..n : Splits(ChunksOf(w), w, w)
    BY <1>1, ChunksOfSplits
  <2> HIDE DEF n
  <2> QED BY <1>1, <2>1, <2>2
<1> HIDE DEF seqs, n
<1>3. PICK f : Concats(f, seqs, n) /\ FlattenSeq(seqs) = f[n]
  BY <1>1, <1>2, FlattenIsConcats
<1>4. \A i \in 1..n : f[i] = IF i = 1 THEN seqs[i] ELSE f[i - 1] \o seqs[i]
  BY <1>3 DEF Concats
<1> DEFINE Bad == {k \in Nat : k \in 1..n /\ ~Splits(f[k], 1, k)}
<1>5. Bad = {}
  <2>1. SUFFICES ASSUME Bad # {} PROVE FALSE
    OBVIOUS
  <2>2. PICK k \in Bad : \A j \in Bad : k <= j
    <3>1. Bad \in SUBSET Nat
      OBVIOUS
    <3> HIDE DEF Bad
    <3> QED BY <2>1, <3>1, Smallest
  <2>3. k # 1
    <3>1. f[1] = seqs[1] /\ Splits(seqs[1], 1, 1)
      BY <1>1, <1>2, <1>4
    <3> QED BY <2>2, <3>1
  <2>4. k - 1 \in Nat /\ k - 1 \in 1..n /\ Splits(f[k - 1], 1, k - 1)
    BY <1>1, <2>2, <2>3
  <2>5. f[k] = f[k - 1] \o seqs[k] /\ Splits(seqs[k], (k - 1) + 1, k)
    <3>1. k \in 1..n /\ k \in Nat /\ (k - 1) + 1 = k
      BY <2>2
    <3>2. f[k] = f[k - 1] \o seqs[k]
      BY <1>4, <2>3, <3>1
    <3>3. Splits(seqs[k], k, k)
      BY <1>2, <3>1
    <3> QED BY <3>1, <3>2, <3>3
  <2>6. 1 <= k - 1 /\ k - 1 < k /\ 1 \in Nat /\ k \in Nat
    BY <2>2, <2>4
  <2>7. Splits(f[k], 1, k)
    BY <2>4, <2>5, <2>6, SplitsJoin
  <2> QED BY <2>2, <2>7
<1>6. Splits(f[n], 1, n)
  BY <1>1, <1>5
<1>7. Chunks = f[n]
  BY <1>3 DEF Chunks, seqs
<1> QED BY <1>6, <1>7 DEF n

\* How far the weights reach after each chunk.
LEMMA ChunkFacts ==
  ASSUME sizes \in Seq(Nat \ {0})
  PROVE  /\ Chunks \in Seq(ChunkRecords) /\ Len(Chunks) \in Nat
         /\ WholeAt(Len(Chunks)) = Len(sizes) /\ WholeAt(0) = 0 /\ PartAt(0) = 0
         /\ \A k \in 0..Len(Chunks) : WholeAt(k) \in 0..Len(sizes) /\ PartAt(k) \in Nat
         /\ \A k \in 1..Len(Chunks) :
              /\ Chunks[k].w \in Weights /\ Chunks[k].w = WholeAt(k - 1) + 1
              /\ Chunks[k].chunkOffset = PartAt(k - 1) /\ Piece(Chunks[k])
<1>1. Len(sizes) \in Nat /\ Weights = 1..Len(sizes)
  BY LenProperties DEF Weights
<1>2. WholeAt(0) = 0 /\ PartAt(0) = 0
  BY DEF WholeAt, PartAt
<1>3. CASE sizes = <<>>
  <2>1. Len(sizes) = 0 /\ Weights = {}
    BY <1>1, <1>3
  <2>2. Chunks = <<>>
    <3>1. [w \in {} |-> ChunksOf(w)] = <<>>
      OBVIOUS
    <3>2. Len(<<>>) = 0
      OBVIOUS
    <3> QED BY <2>1, <3>1, <3>2 DEF Chunks, FlattenSeq
  <2> QED BY <1>2, <2>1, <2>2
<1>4. CASE sizes # <<>>
  <2>1. Splits(Chunks, 1, Len(sizes))
    BY <1>4, ChunksSplit
  <2>2. Chunks \in Seq(ChunkRecords) /\ Len(Chunks) \in Nat /\ Len(Chunks) >= 1
    BY <2>1, LenProperties DEF Splits
  <2>3. \A k \in 1..Len(Chunks) :
          /\ Chunks[k].w \in 1..Len(sizes) /\ Chunks[k].w \in Nat
          /\ Chunks[k].chunkOffset \in Nat /\ Chunks[k].size \in Nat
    <3>1. \A k \in 1..Len(Chunks) : Chunks[k] \in ChunkRecords
      BY <2>2, ElementOfSeq
    <3> QED BY <2>1, <3>1 DEF Splits, ChunkRecords
  <2>4. WholeAt(Len(Chunks)) = Len(sizes)
    <3>1. Len(Chunks) # 0 /\ Chunks[Len(Chunks)].w = Len(sizes) /\ Ends(Chunks[Len(Chunks)])
      BY <2>1, <2>2 DEF Splits
    <3> QED BY <3>1 DEF WholeAt
  <2>5. \A k \in 0..Len(Chunks) : WholeAt(k) \in 0..Len(sizes) /\ PartAt(k) \in Nat
    BY <1>1, <2>3 DEF WholeAt, PartAt
  <2>6. ASSUME NEW k \in 1..Len(Chunks)
        PROVE  Chunks[k].w = WholeAt(k - 1) + 1 /\ Chunks[k].chunkOffset = PartAt(k - 1)
    <3>1. CASE k = 1
      BY <1>2, <2>1, <3>1 DEF Splits
    <3>2. CASE k # 1
      <4>1. k - 1 \in 1..(Len(Chunks) - 1) /\ (k - 1) + 1 = k /\ k - 1 # 0 /\ k - 1 \in 1..Len(Chunks)
        BY <2>2, <3>2
      <4>2. Follows(Chunks[k - 1], Chunks[k])
        BY <2>1, <4>1 DEF Splits
      <4>3. \A x \in Nat : (x - 1) + 1 = x
        OBVIOUS
      <4> QED BY <2>3, <4>1, <4>2, <4>3 DEF WholeAt, PartAt, Follows
    <3> QED BY <3>1, <3>2
  <2>7. \A k \in 1..Len(Chunks) : Piece(Chunks[k])
    BY <2>1 DEF Splits
  <2> QED BY <1>1, <1>2, <2>2, <2>3, <2>4, <2>5, <2>6, <2>7
<1> QED BY <1>3, <1>4

-----------------------------------------------------------------------------
(* The inductive invariant *)

MetaOf(m) == IF m = NoOp THEN <<>> ELSE m.meta
Entries == IF message = NoOp THEN <<>> ELSE message.entries

\* How many chunks have gone beyond the sender's bucket, the broadcast, the
\* bucket that has arrived; and how many have been yielded.
BeyondBucket == nextChunk - 1 - Len(bucketMeta)
BeyondOp == BeyondBucket - Len(MetaOf(op))
BeyondArrived == BeyondOp - Len(MetaOf(arrived))
BeyondMetadata == BeyondArrived - Len(MetaOf(metadata))
Yielded == BeyondMetadata + (index - 1)

\* The buffers, each with its size.
MemoryOK ==
  /\ DOMAIN mem = Buffers
  /\ \A b \in EngineBuffers : DOMAIN mem[b] = 0..(EngineBucket - 1)
  /\ \A w \in Weights : DOMAIN mem[MergeBuffer(w)] = 0..(sizes[w] - 1)
  /\ DOMAIN mem[IpcBuffer] = 0..(ipcBucket - 1)

\* What has been loaded, whole weights.
LoadedWeights == {[w |-> w, bytes |-> Content(w)] : w \in Weights}

TransferTypeOK ==
  /\ sizes \in Seq(Nat \ {0}) /\ ipcBucket \in Nat \ {0}
  /\ MemoryOK
  /\ sndPc \in {"fill", "full", "last", "finish", "done"}
  /\ nextChunk \in 1..(Len(Chunks) + 1) /\ fill \in {0, 1}
  /\ bucketMeta \in Seq(MetaEntries) /\ offset \in 0..EngineBucket
  /\ op \in Broadcasts \cup {NoOp}
  /\ rcvPc \in {"first", "await", "post", "yield", "flush", "done"}
  /\ recvBuf \in {0, 1} /\ posted \in {NoOp, recvBuf}
  /\ metadata \in Arrivals \cup {NoOp} /\ index \in 1..(Len(MetaOf(metadata)) + 1)
  /\ arrived \in Arrivals \cup {NoOp}
  /\ weight \in PlacedWeights \cup {NoOp}
  /\ ipcMeta \in Seq(PlacedWeights) /\ ipcOffset \in 0..ipcBucket
  /\ stream \in Seq([from : Places, size : Nat, to : Places])
  /\ message \in Messages \cup {NoOp}
  /\ loaded \in Seq(LoadedWeights)
  /\ received \in BOOLEAN

\* Nothing comes after a bucket marked last; the receiver takes part in a
\* broadcast only into the buffer that it is not reading.
ControlInv ==
  /\ sndPc \in {"last", "finish", "done"} => nextChunk = Len(Chunks) + 1
  /\ sndPc \in {"finish", "done"} => bucketMeta = <<>>
  /\ op # NoOp => op.buffer = <<"send", 1 - fill>>
  /\ op # NoOp /\ op.isLast => sndPc = "finish"
  /\ arrived # NoOp => posted = NoOp
  /\ arrived # NoOp /\ arrived.isLast => sndPc \in {"finish", "done"} /\ op = NoOp
  /\ metadata # NoOp /\ metadata.isLast =>
       sndPc \in {"finish", "done"} /\ op = NoOp /\ arrived = NoOp
  /\ metadata = NoOp => rcvPc \in {"first", "await"}
  /\ rcvPc \in {"first", "post"} => posted = NoOp /\ arrived = NoOp
  /\ rcvPc \in {"first", "await"} => index = Len(MetaOf(metadata)) + 1
  /\ rcvPc \in {"flush", "done"} => metadata.isLast /\ index = Len(metadata.meta) + 1
  /\ weight # NoOp => rcvPc = "yield"
  /\ message # NoOp => stream = <<>> /\ ipcMeta = <<>>
  /\ rcvPc = "done" => ipcMeta = <<>>

\* Each chunk is in one place, and the places hold consecutive chunks.
Run(meta, beyond) == \A k \in DOMAIN meta : meta[k].chunk = Chunks[beyond + k]
RunsInv ==
  /\ BeyondMetadata >= 0
  /\ Run(bucketMeta, BeyondBucket) /\ Run(MetaOf(op), BeyondOp)
  /\ Run(MetaOf(arrived), BeyondArrived) /\ Run(MetaOf(metadata), BeyondMetadata)

\* A bucket and its metadata agree.
Holds(b, e) ==
  \A i \in 0..(e.chunk.size - 1) : mem[b][e.offset + i] = <<e.chunk.w, e.chunk.chunkOffset + i>>
AllHold(b, meta) == \A k \in DOMAIN meta : Holds(b, meta[k])
EngineInv ==
  /\ AllHold(<<"send", fill>>, bucketMeta)
  /\ \A k \in DOMAIN bucketMeta : bucketMeta[k].offset + bucketMeta[k].chunk.size <= offset
  /\ AllHold(<<"send", 1 - fill>>, MetaOf(op))
  /\ AllHold(<<"recv", recvBuf>>, MetaOf(arrived))
  /\ AllHold(<<"recv", 1 - recvBuf>>, MetaOf(metadata))

\* The weights that have been completed have been loaded, are in the message,
\* in the bucket of the ipc stage or in its hands, in this order.
OrderInv ==
  /\ \A k \in DOMAIN loaded : loaded[k].w = k
  /\ \A k \in DOMAIN Entries : Entries[k].w = Len(loaded) + k
  /\ \A k \in DOMAIN ipcMeta : ipcMeta[k].w = Len(loaded) + Len(Entries) + k
  /\ weight # NoOp => weight.w = Len(loaded) + Len(Entries) + Len(ipcMeta) + 1
  /\ WholeAt(Yielded) = Len(loaded) + Len(Entries) + Len(ipcMeta) + (IF weight = NoOp THEN 0 ELSE 1)
  /\ message # NoOp /\ message.isLast =>
       rcvPc = "done" /\ Len(loaded) + Len(Entries) = Len(sizes)
  /\ received => rcvPc = "done" /\ message = NoOp /\ Len(loaded) = Len(sizes)

\* Byte i of the tensor of a merged weight is right once the first n copies have run.
Covers(copy, w, i) ==
  copy.to[1] = MergeBuffer(w) /\ copy.to[2] <= i /\ i < copy.to[2] + copy.size
MergeByte(w, i, n) ==
  mem[MergeBuffer(w)][i] = <<w, i>> \/ \E j \in 1..n : Covers(stream[j], w, i)

\* Weight w is at a place: in the bucket that is being read, or, once the
\* first n copies have run, in the tensor in which it is merged.
IsAt(place, w) == \A i \in 0..(sizes[w] - 1) : mem[place[1]][place[2] + i] = <<w, i>>
ComesTo(place, w, n) ==
  \/ place[1] = <<"recv", 1 - recvBuf>> /\ IsAt(place, w)
  \/ place = <<MergeBuffer(w), 0>> /\ \A i \in 0..(sizes[w] - 1) : MergeByte(w, i, n)

\* A copy that merges a chunk, and the copy that packs an entry of the bucket.
Merges(copy) ==
  \E w \in Weights :
    /\ copy.to[1] = MergeBuffer(w) /\ copy.to[2] + copy.size <= sizes[w]
    /\ copy.from[1] = <<"recv", 1 - recvBuf>>
    /\ \A i \in 0..(copy.size - 1) :
         mem[copy.from[1]][copy.from[2] + i] = <<w, copy.to[2] + i>>
PacksEntry(copy, e) == copy.to = e.at /\ copy.size = sizes[e.w]
Packs(j) ==
  \E k \in DOMAIN ipcMeta :
    PacksEntry(stream[j], ipcMeta[k]) /\ ComesTo(stream[j].from, ipcMeta[k].w, j - 1)

StreamInv == \A j \in DOMAIN stream : Merges(stream[j]) \/ Packs(j)

\* What has been yielded of a weight that does not fit into a bucket.
MergeInv ==
  \A w \in Weights : \A i \in 0..(sizes[w] - 1) :
    sizes[w] > EngineBucket
    /\ (w <= WholeAt(Yielded) \/ (w = WholeAt(Yielded) + 1 /\ i < PartAt(Yielded)))
    => MergeByte(w, i, Len(stream))

IpcInv ==
  /\ weight # NoOp => ComesTo(weight.at, weight.w, Len(stream))
  /\ \A k \in DOMAIN ipcMeta :
       /\ ipcMeta[k].at[1] = IpcBuffer /\ ipcMeta[k].at[2] + sizes[ipcMeta[k].w] <= ipcOffset
       /\ \/ IsAt(ipcMeta[k].at, ipcMeta[k].w)
          \/ \E j \in DOMAIN stream : PacksEntry(stream[j], ipcMeta[k])
  /\ \A k, l \in DOMAIN ipcMeta :
       k < l => ipcMeta[k].at[2] + sizes[ipcMeta[k].w] <= ipcMeta[l].at[2]

MessageInv ==
  \A k \in DOMAIN Entries :
    /\ Entries[k].at[1] \in {<<"recv", 1 - recvBuf>>, IpcBuffer, MergeBuffer(Entries[k].w)}
    /\ IsAt(Entries[k].at, Entries[k].w)

TransferInv ==
  /\ TransferTypeOK /\ ControlInv /\ RunsInv /\ EngineInv /\ OrderInv
  /\ StreamInv /\ MergeInv /\ IpcInv /\ MessageInv

-----------------------------------------------------------------------------
(* What the steps have in common *)

\* The buffers are different from each other.
LEMMA BufferNames ==
  /\ \A i \in {0, 1} : <<"send", i>> \in EngineBuffers /\ <<"recv", i>> \in EngineBuffers
  /\ EngineBuffers \subseteq Buffers /\ IpcBuffer \in Buffers
  /\ \A w \in Weights : MergeBuffer(w) \in Buffers
  /\ \A i, j : <<"send", i>> # <<"recv", j>>
  /\ \A i, j : <<"send", i>> = <<"send", j>> => i = j
  /\ \A i, j : <<"recv", i>> = <<"recv", j>> => i = j
  /\ \A v, w : MergeBuffer(v) = MergeBuffer(w) => v = w
  /\ \A w, i : MergeBuffer(w) # <<"send", i>> /\ MergeBuffer(w) # <<"recv", i>>
  /\ \A w : MergeBuffer(w) # IpcBuffer
  /\ \A i : IpcBuffer # <<"send", i>> /\ IpcBuffer # <<"recv", i>>
<1>1. \A i \in {0, 1} : <<"send", i>> \in EngineBuffers /\ <<"recv", i>> \in EngineBuffers
  BY DEF EngineBuffers
<1>2. EngineBuffers \subseteq Buffers /\ IpcBuffer \in Buffers
  BY DEF Buffers
<1>3. \A w \in Weights : MergeBuffer(w) \in Buffers
  BY DEF Buffers
<1>4. \A i, j, x, y : <<x, i>> = <<y, j>> => x = y /\ i = j
  OBVIOUS
<1> QED BY <1>1, <1>2, <1>3, <1>4 DEF MergeBuffer, IpcBuffer

\* A copy changes the bytes that it writes.
LEMMA MemoryWritten ==
  ASSUME DOMAIN mem = Buffers, NEW place, NEW bytes, place[1] \in Buffers,
         mem' = Written(place, bytes)
  PROVE  /\ DOMAIN mem' = Buffers /\ \A b \in Buffers : DOMAIN mem'[b] = DOMAIN mem[b]
         /\ \A b \in Buffers : b # place[1] => mem'[b] = mem[b]
         /\ \A i \in DOMAIN mem[place[1]] :
              mem'[place[1]][i] = IF i - place[2] \in DOMAIN bytes THEN bytes[i - place[2]]
                                  ELSE mem[place[1]][i]
<1> DEFINE new == [i \in DOMAIN mem[place[1]] |->
                     IF i - place[2] \in DOMAIN bytes THEN bytes[i - place[2]] ELSE mem[place[1]][i]]
<1>1. mem' = [mem EXCEPT ![place[1]] = new]
  BY DEF Written
<1>2. DOMAIN new = DOMAIN mem[place[1]]
  OBVIOUS
<1>3. mem'[place[1]] = new
  BY <1>1
<1> HIDE DEF new
<1>4. DOMAIN mem' = Buffers /\ \A b \in Buffers : b # place[1] => mem'[b] = mem[b]
  BY <1>1
<1>5. \A b \in Buffers : DOMAIN mem'[b] = DOMAIN mem[b]
  BY <1>2, <1>3, <1>4
<1> QED BY <1>3, <1>4, <1>5 DEF new

\* The model does not change under way.
LEMMA SameModel ==
  ASSUME sizes' = sizes
  PROVE  /\ Chunks' = Chunks /\ Weights' = Weights /\ Buffers' = Buffers
         /\ \A c : Ends(c)' <=> Ends(c)
         /\ \A k : WholeAt(k)' = WholeAt(k) /\ PartAt(k)' = PartAt(k)
         /\ \A w : Content(w)' = Content(w)
         /\ LoadedWeights' = LoadedWeights
<1>1. Chunks' = Chunks /\ Weights' = Weights /\ Buffers' = Buffers
  BY DEF Chunks, ChunksOf, Weights, Buffers
<1>2. \A c : Ends(c)' <=> Ends(c)
  BY DEF Ends
<1>3. \A k : WholeAt(k)' = WholeAt(k) /\ PartAt(k)' = PartAt(k)
  BY <1>1 DEF WholeAt, PartAt, Ends
<1>4. \A w : Content(w)' = Content(w)
  BY DEF Content
<1> QED BY <1>1, <1>2, <1>3, <1>4 DEF LoadedWeights

\* The buffers keep their sizes.
LEMMA MemoryKept ==
  ASSUME MemoryOK, sizes' = sizes, ipcBucket' = ipcBucket,
         DOMAIN mem' = Buffers, \A b \in Buffers : DOMAIN mem'[b] = DOMAIN mem[b]
  PROVE  MemoryOK'
<1>1. EngineBuffers \subseteq Buffers /\ IpcBuffer \in Buffers /\ \A w \in Weights : MergeBuffer(w) \in Buffers
  BY BufferNames
<1>2. Weights' = Weights /\ Buffers' = Buffers
  BY SameModel
<1> QED BY <1>1, <1>2 DEF MemoryOK, EngineBuffers, IpcBuffer, MergeBuffer

\* The metadata of nothing are empty, and those of a record are its own.
LEMMA MetaFacts ==
  ASSUME TransferTypeOK
  PROVE  /\ MetaOf(op) \in Seq(MetaEntries) /\ MetaOf(arrived) \in Seq(MetaEntries)
         /\ MetaOf(metadata) \in Seq(MetaEntries) /\ MetaOf(NoOp) = <<>>
         /\ Entries \in Seq(PlacedWeights)
         /\ \A m \in Broadcasts \cup Arrivals : MetaOf(m) = m.meta /\ m # NoOp
<1>1. <<>> \in Seq(MetaEntries) /\ <<>> \in Seq(PlacedWeights)
  BY EmptySeq
<1>2. \A m \in Broadcasts \cup Arrivals : MetaOf(m) = m.meta /\ m # NoOp /\ m.meta \in Seq(MetaEntries)
  BY TransferAssumption DEF MetaOf, Broadcasts, Arrivals
<1>3. MetaOf(NoOp) = <<>>
  BY DEF MetaOf
<1>4. Entries \in Seq(PlacedWeights)
  BY <1>1 DEF Entries, TransferTypeOK, Messages
<1> QED BY <1>1, <1>2, <1>3, <1>4 DEF TransferTypeOK

\* The counts are natural numbers, and as many chunks have been yielded as
\* there are at most.
LEMMA Counts ==
  ASSUME TransferTypeOK, RunsInv
  PROVE  /\ Len(bucketMeta) \in Nat /\ Len(MetaOf(op)) \in Nat /\ Len(MetaOf(arrived)) \in Nat
         /\ Len(MetaOf(metadata)) \in Nat /\ Len(Chunks) \in Nat
         /\ Len(Entries) \in Nat /\ Len(ipcMeta) \in Nat /\ Len(loaded) \in Nat
         /\ Len(stream) \in Nat /\ Len(sizes) \in Nat
         /\ BeyondMetadata \in Nat /\ BeyondArrived \in Nat /\ BeyondOp \in Nat /\ BeyondBucket \in Nat
         /\ nextChunk \in Nat /\ index \in Nat
         /\ Yielded \in 0..Len(Chunks)
<1>1. /\ Len(bucketMeta) \in Nat /\ Len(MetaOf(op)) \in Nat /\ Len(MetaOf(arrived)) \in Nat
      /\ Len(MetaOf(metadata)) \in Nat /\ Len(Entries) \in Nat /\ Len(ipcMeta) \in Nat
      /\ Len(loaded) \in Nat /\ Len(stream) \in Nat /\ Len(sizes) \in Nat
  BY MetaFacts, LenProperties DEF TransferTypeOK
<1>2. Len(Chunks) \in Nat
  BY ChunkFacts DEF TransferTypeOK
<1>3. nextChunk \in 1..(Len(Chunks) + 1) /\ index \in 1..(Len(MetaOf(metadata)) + 1) /\ BeyondMetadata >= 0
  BY DEF TransferTypeOK, RunsInv
<1>4. /\ BeyondMetadata \in Nat /\ BeyondArrived \in Nat /\ BeyondOp \in Nat /\ BeyondBucket \in Nat
      /\ Yielded \in 0..Len(Chunks)
  BY <1>1, <1>2, <1>3 DEF BeyondMetadata, BeyondArrived, BeyondOp, BeyondBucket, Yielded
<1> QED BY <1>1, <1>2, <1>3, <1>4

\* The weights under way are weights of the model.
LEMMA WeightsKnown ==
  ASSUME TransferTypeOK, RunsInv, OrderInv
  PROVE  /\ \A k \in DOMAIN Entries : Entries[k].w \in Weights
         /\ \A k \in DOMAIN ipcMeta : ipcMeta[k].w \in Weights
         /\ weight # NoOp => weight.w \in Weights
         /\ \A w \in Weights : w \in Nat /\ sizes[w] \in Nat /\ sizes[w] >= 1
<1>1. WholeAt(Yielded) \in 0..Len(sizes)
  BY ChunkFacts, Counts DEF TransferTypeOK
<1>2. Weights = 1..Len(sizes) /\ \A w \in Weights : w \in Nat /\ sizes[w] \in Nat /\ sizes[w] >= 1
  BY LenProperties, ElementOfSeq DEF Weights, TransferTypeOK
<1>3. DOMAIN Entries = 1..Len(Entries) /\ DOMAIN ipcMeta = 1..Len(ipcMeta)
  BY MetaFacts, LenProperties DEF TransferTypeOK
<1>4. /\ Len(Entries) \in Nat /\ Len(ipcMeta) \in Nat /\ Len(loaded) \in Nat /\ Len(sizes) \in Nat
  BY Counts
<1>5. Len(loaded) + Len(Entries) + Len(ipcMeta) + (IF weight = NoOp THEN 0 ELSE 1) <= Len(sizes)
  BY <1>1, <1>4 DEF OrderInv
<1>6. \A k \in DOMAIN Entries : Entries[k].w \in Weights
  BY <1>2, <1>3, <1>4, <1>5 DEF OrderInv
<1>7. \A k \in DOMAIN ipcMeta : ipcMeta[k].w \in Weights
  BY <1>2, <1>3, <1>4, <1>5 DEF OrderInv
<1>8. weight # NoOp => weight.w \in Weights
  BY <1>2, <1>4, <1>5 DEF OrderInv
<1> QED BY <1>2, <1>6, <1>7, <1>8

\* What the sender and the broadcast do leaves the later stages alone.
LEMMA DownstreamKept ==
  ASSUME TransferTypeOK, RunsInv, OrderInv, StreamInv, MergeInv, IpcInv, MessageInv,
         UNCHANGED <<sizes, recvBuf, weight, ipcMeta, ipcOffset, stream, message, loaded, received>>,
         Yielded' = Yielded, rcvPc = "done" => rcvPc' = "done",
         mem'[<<"recv", 1 - recvBuf>>] = mem[<<"recv", 1 - recvBuf>>],
         mem'[IpcBuffer] = mem[IpcBuffer],
         \A w \in Weights : mem'[MergeBuffer(w)] = mem[MergeBuffer(w)]
  PROVE  OrderInv' /\ StreamInv' /\ MergeInv' /\ IpcInv' /\ MessageInv'
<1>1. /\ \A k \in DOMAIN Entries : Entries[k].w \in Weights
      /\ \A k \in DOMAIN ipcMeta : ipcMeta[k].w \in Weights
      /\ weight # NoOp => weight.w \in Weights
  BY WeightsKnown
<1>2. /\ Weights' = Weights /\ Entries' = Entries
      /\ \A k : WholeAt(k)' = WholeAt(k) /\ PartAt(k)' = PartAt(k)
  BY SameModel DEF Entries
<1>3. \A w \in Weights : \A i, n : MergeByte(w, i, n)' <=> MergeByte(w, i, n)
  BY DEF MergeByte, Covers, MergeBuffer
<1>4. \A w \in Weights : \A place :
        place[1] \in {<<"recv", 1 - recvBuf>>, IpcBuffer, MergeBuffer(w)} =>
          (IsAt(place, w)' <=> IsAt(place, w))
  BY DEF IsAt
<1>5. \A w \in Weights : \A place, n : ComesTo(place, w, n)' <=> ComesTo(place, w, n)
  <2> SUFFICES ASSUME NEW w \in Weights, NEW place, NEW n
               PROVE  ComesTo(place, w, n)' <=> ComesTo(place, w, n)
    OBVIOUS
  <2>1. place[1] = <<"recv", 1 - recvBuf>> => (IsAt(place, w)' <=> IsAt(place, w))
    BY <1>4
  <2>2. \A i : MergeByte(w, i, n)' <=> MergeByte(w, i, n)
    BY <1>3
  <2>3. MergeBuffer(w)' = MergeBuffer(w) /\ recvBuf' = recvBuf /\ sizes' = sizes
    BY DEF MergeBuffer
  <2> QED BY <2>1, <2>2, <2>3 DEF ComesTo
<1>6. OrderInv'
  <2>1. Len(sizes)' = Len(sizes) /\ WholeAt(Yielded)' = WholeAt(Yielded)
    BY <1>2 DEF WholeAt
  <2> QED BY <1>2, <2>1 DEF OrderInv
<1>7. StreamInv'
  <2>1. ASSUME NEW j \in DOMAIN stream, Merges(stream[j])
        PROVE  Merges(stream[j])'
    BY <2>1, <1>2 DEF Merges, MergeBuffer
  <2>2. ASSUME NEW j \in DOMAIN stream, Packs(j)
        PROVE  Packs(j)'
    <3>1. PICK k \in DOMAIN ipcMeta :
            PacksEntry(stream[j], ipcMeta[k]) /\ ComesTo(stream[j].from, ipcMeta[k].w, j - 1)
      BY <2>2 DEF Packs
    <3>2. ComesTo(stream[j].from, ipcMeta[k].w, j - 1)'
      BY <3>1, <1>1, <1>5
    <3>3. PacksEntry(stream[j], ipcMeta[k])'
      BY <3>1 DEF PacksEntry
    <3> QED BY <3>2, <3>3 DEF Packs
  <2> QED BY <2>1, <2>2 DEF StreamInv
<1>8. MergeInv'
  <2>1. WholeAt(Yielded)' = WholeAt(Yielded) /\ PartAt(Yielded)' = PartAt(Yielded)
    BY <1>2 DEF WholeAt, PartAt
  <2>2. \A w \in Weights : \A i : MergeByte(w, i, Len(stream))' <=> MergeByte(w, i, Len(stream))
    BY <1>3
  <2> QED BY <1>2, <2>1, <2>2 DEF MergeInv
<1>9. IpcInv'
  <2>1. weight # NoOp =>
          (ComesTo(weight.at, weight.w, Len(stream))' <=> ComesTo(weight.at, weight.w, Len(stream)))
    BY <1>1, <1>5
  <2>2. \A k \in DOMAIN ipcMeta :
          IsAt(ipcMeta[k].at, ipcMeta[k].w)' <=> IsAt(ipcMeta[k].at, ipcMeta[k].w)
    BY <1>1, <1>4 DEF IpcInv
  <2>3. IpcBuffer' = IpcBuffer /\ \A c, e : PacksEntry(c, e)' <=> PacksEntry(c, e)
    BY DEF IpcBuffer, PacksEntry
  <2> QED BY <2>1, <2>2, <2>3 DEF IpcInv
<1>10. MessageInv'
  <2>1. \A k \in DOMAIN Entries : IsAt(Entries[k].at, Entries[k].w)' <=> IsAt(Entries[k].at, Entries[k].w)
    BY <1>1, <1>2, <1>4 DEF MessageInv
  <2> QED BY <1>2, <2>1 DEF MessageInv, IpcBuffer, MergeBuffer
<1> QED BY <1>6, <1>7, <1>8, <1>9, <1>10

-----------------------------------------------------------------------------
(* The sender's steps and the broadcast *)

\* What a bucket holds stays while the bucket does.
LEMMA HoldsKept ==
  ASSUME NEW b, NEW e, mem'[b] = mem[b], Holds(b, e)
  PROVE  Holds(b, e)'
BY DEF Holds

\* The same for all the chunks of its metadata.
LEMMA AllHoldKept ==
  ASSUME NEW b, NEW meta, mem'[b] = mem[b], AllHold(b, meta)
  PROVE  AllHold(b, meta)'
BY HoldsKept DEF AllHold

\* What the receiver does with the weights leaves the earlier stages alone.
LEMMA UpstreamKept ==
  ASSUME TransferTypeOK, RunsInv, EngineInv,
         UNCHANGED <<sizes, nextChunk, fill, bucketMeta, offset, op, arrived, metadata, recvBuf>>,
         \A b \in EngineBuffers : mem'[b] = mem[b]
  PROVE  RunsInv' /\ EngineInv' /\ BeyondMetadata' = BeyondMetadata
<1>1. Chunks' = Chunks
  BY SameModel
<1>2. /\ MetaOf(op)' = MetaOf(op) /\ MetaOf(arrived)' = MetaOf(arrived) /\ MetaOf(metadata)' = MetaOf(metadata)
  BY DEF MetaOf
<1>3. /\ BeyondBucket' = BeyondBucket /\ BeyondOp' = BeyondOp /\ BeyondArrived' = BeyondArrived
      /\ BeyondMetadata' = BeyondMetadata
  BY <1>2 DEF BeyondBucket, BeyondOp, BeyondArrived, BeyondMetadata
<1>4. RunsInv'
  BY <1>1, <1>2, <1>3 DEF RunsInv, Run
<1>5. /\ <<"send", fill>> \in EngineBuffers /\ <<"send", 1 - fill>> \in EngineBuffers
      /\ <<"recv", recvBuf>> \in EngineBuffers /\ <<"recv", 1 - recvBuf>> \in EngineBuffers
  <2>1. fill \in {0, 1} /\ 1 - fill \in {0, 1} /\ recvBuf \in {0, 1} /\ 1 - recvBuf \in {0, 1}
    BY DEF TransferTypeOK
  <2> QED BY <2>1, BufferNames
<1>6. EngineInv'
  BY <1>2, <1>5, AllHoldKept DEF EngineInv
<1> QED BY <1>3, <1>4, <1>6

\* A chunk is packed behind what a bucket holds.
LEMMA ChunkPacked ==
  ASSUME TransferTypeOK, NEW c \in ChunkRecords, c.w \in Weights, Piece(c),
         NEW b \in EngineBuffers, NEW o \in Nat, o + c.size <= EngineBucket,
         mem' = Written(<<b, o>>, [i \in 0..(c.size - 1) |-> Content(c.w)[c.chunkOffset + i]])
  PROVE  /\ DOMAIN mem' = Buffers /\ \A x \in Buffers : DOMAIN mem'[x] = DOMAIN mem[x]
         /\ \A x \in Buffers : x # b => mem'[x] = mem[x]
         /\ \A i \in 0..(c.size - 1) : mem'[b][o + i] = <<c.w, c.chunkOffset + i>>
         /\ \A i \in 0..(o - 1) : mem'[b][i] = mem[b][i]
<1> DEFINE bytes == [i \in 0..(c.size - 1) |-> Content(c.w)[c.chunkOffset + i]]
<1>1. /\ c.w \in Nat /\ c.chunkOffset \in Nat /\ c.size \in Nat /\ c.size >= 1
      /\ c.chunkOffset + c.size <= sizes[c.w]
  BY DEF ChunkRecords, Piece
<1>2. sizes[c.w] \in Nat
  <2>1. sizes \in Seq(Nat \ {0}) /\ c.w \in 1..Len(sizes)
    BY LenProperties DEF TransferTypeOK, Weights
  <2> QED BY <2>1, ElementOfSeq
<1>3. DOMAIN mem = Buffers /\ b \in Buffers /\ DOMAIN mem[b] = 0..(EngineBucket - 1) /\ EngineBucket \in Nat
  BY BufferNames, TransferAssumption DEF TransferTypeOK, MemoryOK
<1>4. DOMAIN bytes = 0..(c.size - 1) /\ \A i \in 0..(c.size - 1) : bytes[i] = <<c.w, c.chunkOffset + i>>
  <2>1. ASSUME NEW i \in 0..(c.size - 1) PROVE c.chunkOffset + i \in 0..(sizes[c.w] - 1)
    <3>1. PICK x, y, z : x = c.chunkOffset /\ y = c.size /\ z = sizes[c.w]
      OBVIOUS
    <3>2. x \in Nat /\ y \in Nat /\ z \in Nat /\ x + y <= z /\ i \in 0..(y - 1)
      BY <1>1, <1>2, <3>1
    <3>3. x + i \in 0..(z - 1)
      BY ONLY <3>2
    <3> QED BY <3>1, <3>3
  <2> DEFINE all == Content(c.w)
  <2>2. \A x \in 0..(sizes[c.w] - 1) : all[x] = <<c.w, x>>
    BY DEF Content
  <2> HIDE DEF all
  <2>3. bytes = [i \in 0..(c.size - 1) |-> all[c.chunkOffset + i]]
    BY DEF all
  <2> QED BY <2>1, <2>2, <2>3
<1> HIDE DEF bytes
<1>5. mem' = Written(<<b, o>>, bytes)
  BY DEF bytes
<1>6. <<b, o>>[1] = b /\ <<b, o>>[2] = o
  OBVIOUS
<1>7. /\ DOMAIN mem' = Buffers /\ \A x \in Buffers : DOMAIN mem'[x] = DOMAIN mem[x]
      /\ \A x \in Buffers : x # b => mem'[x] = mem[x]
      /\ \A i \in DOMAIN mem[b] : mem'[b][i] = IF i - o \in DOMAIN bytes THEN bytes[i - o] ELSE mem[b][i]
  <2> DEFINE place == <<b, o>>
  <2>1. place[1] \in Buffers /\ mem' = Written(place, bytes) /\ place[1] = b /\ place[2] = o
    BY <1>3, <1>5, <1>6
  <2> HIDE DEF place
  <2>2. /\ DOMAIN mem' = Buffers /\ \A x \in Buffers : DOMAIN mem'[x] = DOMAIN mem[x]
        /\ \A x \in Buffers : x # place[1] => mem'[x] = mem[x]
        /\ \A i \in DOMAIN mem[place[1]] :
             mem'[place[1]][i] = IF i - place[2] \in DOMAIN bytes THEN bytes[i - place[2]]
                                 ELSE mem[place[1]][i]
    BY <1>3, <2>1, MemoryWritten
  <2> QED BY <2>1, <2>2
<1>8. ASSUME NEW i \in 0..(c.size - 1) PROVE mem'[b][o + i] = <<c.w, c.chunkOffset + i>>
  <2>1. o + i \in DOMAIN mem[b] /\ (o + i) - o = i
    BY <1>1, <1>3
  <2> QED BY <1>4, <1>7, <2>1
<1>9. ASSUME NEW i \in 0..(o - 1) PROVE mem'[b][i] = mem[b][i]
  <2>1. i \in DOMAIN mem[b] /\ ~(i - o \in DOMAIN bytes)
    BY <1>1, <1>3, <1>4
  <2> QED BY <1>7, <2>1
<1> QED BY <1>7, <1>8, <1>9

\* A bucket is filled, or found full.
LEMMA FillKeeps ==
  ASSUME TransferInv, FillBucket
  PROVE  TransferInv'
<1>1. /\ TransferTypeOK /\ ControlInv /\ RunsInv /\ EngineInv /\ OrderInv
      /\ StreamInv /\ MergeInv /\ IpcInv /\ MessageInv
  BY DEF TransferInv
<1>2. /\ sndPc = "fill"
      /\ UNCHANGED <<sizes, ipcBucket, fill, op, receiver, arrived, ipc, stream, message, worker>>
  BY DEF FillBucket
<1>3. /\ UNCHANGED <<rcvPc, recvBuf, posted, metadata, index>>
      /\ UNCHANGED <<weight, ipcMeta, ipcOffset, loaded, received>>
  BY <1>2 DEF receiver, ipc, worker
<1>4. /\ Chunks' = Chunks /\ Weights' = Weights /\ Buffers' = Buffers /\ LoadedWeights' = LoadedWeights
      /\ Entries' = Entries /\ \A m : MetaOf(m)' = MetaOf(m)
  BY <1>2, <1>3, SameModel DEF Entries, MetaOf
<1>5. CASE /\ sndPc' \in {"last", "full"} /\ (sndPc' = "last" => nextChunk > Len(Chunks))
           /\ UNCHANGED <<nextChunk, bucketMeta, offset, mem>>
  <2>1. /\ BeyondBucket' = BeyondBucket /\ BeyondOp' = BeyondOp /\ BeyondArrived' = BeyondArrived
        /\ BeyondMetadata' = BeyondMetadata /\ Yielded' = Yielded
    BY <1>2, <1>3, <1>4, <1>5
       DEF BeyondBucket, BeyondOp, BeyondArrived, BeyondMetadata, Yielded, MetaOf
  <2>2. TransferTypeOK'
    <3>1. MemoryOK'
      BY <1>1, <1>2, <1>5, MemoryKept DEF TransferTypeOK, MemoryOK
    <3> QED BY <1>1, <1>2, <1>3, <1>4, <1>5, <3>1 DEF TransferTypeOK, MetaOf
  <2>3. ControlInv'
    <3>1. Len(Chunks) \in Nat /\ nextChunk \in 1..(Len(Chunks) + 1)
      BY <1>1, Counts DEF TransferTypeOK
    <3>2. sndPc' = "last" => nextChunk = Len(Chunks) + 1
      BY <1>5, <3>1
    <3> QED BY <1>1, <1>2, <1>3, <1>4, <1>5, <3>2 DEF ControlInv, MetaOf
  <2>4. RunsInv' /\ EngineInv'
    BY <1>1, <1>2, <1>3, <1>5, UpstreamKept
  <2>5. OrderInv' /\ StreamInv' /\ MergeInv' /\ IpcInv' /\ MessageInv'
    BY <1>1, <1>2, <1>3, <1>5, <2>1, DownstreamKept
  <2> QED BY <2>2, <2>3, <2>4, <2>5 DEF TransferInv
<1>6. CASE /\ nextChunk <= Len(Chunks) /\ offset + Chunks[nextChunk].size <= EngineBucket
           /\ mem' = Written(<<<<"send", fill>>, offset>>,
                             [i \in 0..(Chunks[nextChunk].size - 1) |->
                                Content(Chunks[nextChunk].w)[Chunks[nextChunk].chunkOffset + i]])
           /\ bucketMeta' = Append(bucketMeta, [chunk |-> Chunks[nextChunk], offset |-> offset])
           /\ offset' = offset + Chunks[nextChunk].size
           /\ nextChunk' = nextChunk + 1 /\ UNCHANGED sndPc
  <2>0. PICK c : c = Chunks[nextChunk]
    OBVIOUS
  <2> DEFINE e == [chunk |-> c, offset |-> offset]
             b == <<"send", fill>>
  <2>1. /\ nextChunk \in 1..Len(Chunks) /\ Len(Chunks) \in Nat /\ EngineBucket \in Nat
        /\ offset \in 0..EngineBucket /\ Len(bucketMeta) \in Nat /\ bucketMeta \in Seq(MetaEntries)
    BY <1>1, <1>6, Counts, TransferAssumption DEF TransferTypeOK
  <2>2. /\ c \in ChunkRecords /\ Piece(c) /\ c.w \in Weights /\ c.size \in Nat /\ c.size >= 1
        /\ c.w \in Nat /\ c.chunkOffset \in Nat
    <3>1. Chunks \in Seq(ChunkRecords) /\ Piece(Chunks[nextChunk]) /\ Chunks[nextChunk].w \in Weights
      BY <1>1, <2>1, ChunkFacts DEF TransferTypeOK
    <3>2. Chunks[nextChunk] \in ChunkRecords
      BY <2>1, <3>1, ElementOfSeq
    <3> QED BY <2>0, <3>1, <3>2 DEF ChunkRecords, Piece
  <2>3. /\ offset + c.size <= EngineBucket /\ offset' = offset + c.size
        /\ bucketMeta' = Append(bucketMeta, e)
        /\ mem' = Written(<<b, offset>>, [i \in 0..(c.size - 1) |-> Content(c.w)[c.chunkOffset + i]])
    BY <1>6, <2>0
  <2>4. b \in EngineBuffers /\ b \in Buffers
    BY <1>1, BufferNames DEF TransferTypeOK
  <2>5. /\ DOMAIN mem' = Buffers /\ \A x \in Buffers : DOMAIN mem'[x] = DOMAIN mem[x]
        /\ \A x \in Buffers : x # b => mem'[x] = mem[x]
        /\ \A i \in 0..(c.size - 1) : mem'[b][offset + i] = <<c.w, c.chunkOffset + i>>
        /\ \A i \in 0..(offset - 1) : mem'[b][i] = mem[b][i]
    <3> HIDE DEF b, e
    <3>1. offset \in Nat
      BY <2>1
    <3> QED BY <1>1, <2>2, <2>3, <2>4, <3>1, ChunkPacked
  <2>6. e \in MetaEntries
    <3>1. c \in [w : Nat, chunkOffset : Nat, size : Nat] /\ offset \in Nat
      BY <2>1, <2>2 DEF ChunkRecords
    <3> QED BY <3>1 DEF MetaEntries
  <2>7. /\ bucketMeta' \in Seq(MetaEntries) /\ Len(bucketMeta') = Len(bucketMeta) + 1
        /\ DOMAIN bucketMeta = 1..Len(bucketMeta) /\ DOMAIN bucketMeta' = 1..(Len(bucketMeta) + 1)
        /\ \A k \in 1..Len(bucketMeta) : bucketMeta'[k] = bucketMeta[k]
        /\ bucketMeta'[Len(bucketMeta) + 1] = e
    <3> HIDE DEF e
    <3> QED BY <2>1, <2>3, <2>6, AppendProperties
  <2>8. /\ BeyondBucket' = BeyondBucket /\ BeyondOp' = BeyondOp /\ BeyondArrived' = BeyondArrived
        /\ BeyondMetadata' = BeyondMetadata /\ Yielded' = Yielded
    <3>1. BeyondBucket' = BeyondBucket
      BY <1>6, <2>1, <2>7 DEF BeyondBucket
    <3> QED BY <1>2, <1>3, <1>4, <3>1 DEF BeyondOp, BeyondArrived, BeyondMetadata, Yielded, MetaOf
  <2> HIDE DEF e, b
  <2>9. TransferTypeOK'
    <3>1. MemoryOK'
      BY <1>1, <1>2, <2>5, MemoryKept DEF TransferTypeOK
    <3>2. nextChunk' \in 1..(Len(Chunks) + 1) /\ offset' \in 0..EngineBucket
      <4>1. nextChunk' \in 1..(Len(Chunks) + 1)
        BY <1>6, <2>1
      <4>2. PICK y : y = c.size
        OBVIOUS
      <4>3. y \in Nat /\ offset' = offset + y /\ offset + y <= EngineBucket
        BY <2>2, <2>3, <4>2
      <4> QED BY <2>1, <4>1, <4>3
    <3> QED BY <1>1, <1>2, <1>3, <1>4, <1>6, <2>7, <3>1, <3>2 DEF TransferTypeOK, MetaOf
  <2>10. ControlInv'
    BY <1>1, <1>2, <1>3, <1>4, <1>6 DEF ControlInv, MetaOf
  <2>11. RunsInv'
    <3>1. Run(bucketMeta, BeyondBucket)'
      <4>1. ASSUME NEW k \in 1..(Len(bucketMeta) + 1)
            PROVE  bucketMeta'[k].chunk = Chunks[BeyondBucket + k]
        <5>1. CASE k = Len(bucketMeta) + 1
          <6>1. BeyondBucket + k = nextChunk
            BY <2>1, <5>1 DEF BeyondBucket
          <6> QED BY <2>0, <2>7, <5>1, <6>1 DEF e
        <5>2. CASE k \in 1..Len(bucketMeta)
          BY <1>1, <2>7, <5>2 DEF RunsInv, Run
        <5> QED BY <2>1, <5>1, <5>2
      <4> QED BY <1>4, <2>7, <2>8, <4>1 DEF Run
    <3> QED BY <1>1, <1>2, <1>3, <1>4, <2>8, <3>1 DEF RunsInv, Run, MetaOf
  <2>12. EngineInv'
    <3>1. ASSUME NEW k \in 1..(Len(bucketMeta) + 1)
          PROVE  \E d : /\ bucketMeta'[k] = d /\ Holds(<<"send", fill>>, d)'
                        /\ d.offset + d.chunk.size <= offset'
      <4>0. \A x, d : (\A i \in 0..(d.chunk.size - 1) :
                          mem'[x][d.offset + i] = <<d.chunk.w, d.chunk.chunkOffset + i>>) =>
                      Holds(x, d)'
        BY DEF Holds
      <4>1. CASE k = Len(bucketMeta) + 1
        <5>1. PICK d : d = e
          OBVIOUS
        <5>2. bucketMeta'[k] = d /\ d.chunk = c /\ d.offset = offset
          BY <2>7, <4>1, <5>1 DEF e
        <5>3. Holds(b, d)'
          <6>1. PICK x : x = b
            OBVIOUS
          <6>2. Holds(x, d)'
            BY <2>5, <4>0, <5>2, <6>1
          <6> QED BY <1>2, <6>1, <6>2 DEF b
        <5> QED BY <2>3, <5>2, <5>3 DEF b
      <4>2. CASE k \in 1..Len(bucketMeta)
        <5>1. PICK d \in MetaEntries : d = bucketMeta[k]
          BY <2>1, <4>2, ElementOfSeq
        <5>2. bucketMeta'[k] = d /\ d.offset + d.chunk.size <= offset /\ Holds(b, d)
          BY <1>1, <2>7, <4>2, <5>1 DEF EngineInv, AllHold, b
        <5>3. d.offset \in Nat /\ d.chunk.size \in Nat
          BY DEF MetaEntries
        <5>4. \A i \in 0..(d.chunk.size - 1) : d.offset + i \in 0..(offset - 1)
          <6>1. PICK x, y : x = d.offset /\ y = d.chunk.size
            OBVIOUS
          <6>2. x \in Nat /\ y \in Nat /\ x + y <= offset /\ offset \in Nat
            BY <2>1, <5>2, <5>3, <6>1
          <6>3. \A i \in 0..(y - 1) : x + i \in 0..(offset - 1)
            BY ONLY <6>2
          <6> QED BY <6>1, <6>3
        <5>5. Holds(b, d)'
          <6>1. PICK x : x = b
            OBVIOUS
          <6>2. \A i \in 0..(d.chunk.size - 1) :
                  mem[x][d.offset + i] = <<d.chunk.w, d.chunk.chunkOffset + i>>
            BY <5>2, <6>1 DEF Holds
          <6>3. \A i \in 0..(d.chunk.size - 1) : mem'[x][d.offset + i] = mem[x][d.offset + i]
            BY <2>5, <5>4, <6>1
          <6>4. Holds(x, d)'
            BY <4>0, <6>2, <6>3
          <6> QED BY <1>2, <6>1, <6>4 DEF b
        <5>6. d.offset + d.chunk.size <= offset'
          <6>1. PICK x, y : x = d.offset + d.chunk.size /\ y = c.size
            OBVIOUS
          <6>2. x \in Nat /\ y \in Nat /\ x <= offset /\ offset \in Nat
            <7>1. d.offset + d.chunk.size \in Nat
              BY <5>3
            <7> QED BY <2>1, <2>2, <5>2, <6>1, <7>1
          <6>3. offset' = offset + y
            BY <2>3, <6>1
          <6> QED BY <6>1, <6>2, <6>3
        <5> QED BY <5>2, <5>5, <5>6 DEF b
      <4> QED BY <2>1, <4>1, <4>2
    <3>2. /\ mem'[<<"send", 1 - fill>>] = mem[<<"send", 1 - fill>>]
          /\ mem'[<<"recv", recvBuf>>] = mem[<<"recv", recvBuf>>]
          /\ mem'[<<"recv", 1 - recvBuf>>] = mem[<<"recv", 1 - recvBuf>>]
      <4>1. fill \in {0, 1} /\ recvBuf \in {0, 1} /\ 1 - fill # fill
        BY <1>1 DEF TransferTypeOK
      <4>2. 1 - fill \in {0, 1} /\ 1 - recvBuf \in {0, 1}
        BY <4>1
      <4> QED BY <2>5, <4>1, <4>2, BufferNames DEF b
    <3>3. /\ AllHold(<<"send", 1 - fill>>, MetaOf(op))'
          /\ AllHold(<<"recv", recvBuf>>, MetaOf(arrived))'
          /\ AllHold(<<"recv", 1 - recvBuf>>, MetaOf(metadata))'
      <4>1. /\ MetaOf(op)' = MetaOf(op) /\ MetaOf(arrived)' = MetaOf(arrived)
            /\ MetaOf(metadata)' = MetaOf(metadata) /\ fill' = fill /\ recvBuf' = recvBuf
        BY <1>2, <1>3 DEF MetaOf
      <4> QED BY <1>1, <3>2, <4>1, AllHoldKept DEF EngineInv
    <3>4. /\ AllHold(<<"send", fill>>, bucketMeta)'
          /\ \A k \in DOMAIN bucketMeta' : bucketMeta'[k].offset + bucketMeta'[k].chunk.size <= offset'
      <4>1. \A k \in DOMAIN bucketMeta' :
              \E d : /\ bucketMeta'[k] = d /\ Holds(<<"send", fill>>, d)'
                     /\ d.offset + d.chunk.size <= offset'
        BY <2>7, <3>1
      <4> QED BY <4>1 DEF AllHold
    <3> QED BY <3>3, <3>4 DEF EngineInv
  <2>13. OrderInv' /\ StreamInv' /\ MergeInv' /\ IpcInv' /\ MessageInv'
    <3>1. /\ mem'[<<"recv", 1 - recvBuf>>] = mem[<<"recv", 1 - recvBuf>>]
          /\ mem'[IpcBuffer] = mem[IpcBuffer]
          /\ \A w \in Weights : mem'[MergeBuffer(w)] = mem[MergeBuffer(w)]
      <4>1. recvBuf \in {0, 1} /\ 1 - recvBuf \in {0, 1}
        BY <1>1 DEF TransferTypeOK
      <4> QED BY <2>5, <4>1, BufferNames DEF b
    <3> QED BY <1>1, <1>2, <1>3, <2>8, <3>1, DownstreamKept
  <2> QED BY <2>9, <2>10, <2>11, <2>12, <2>13 DEF TransferInv
<1> QED BY <1>5, <1>6 DEF FillBucket

\* A bucket is handed to the broadcast.
LEMMA StartBroadcastKeeps ==
  ASSUME TransferInv, StartBroadcast
  PROVE  TransferInv'
<1>1. /\ TransferTypeOK /\ ControlInv /\ RunsInv /\ EngineInv /\ OrderInv
      /\ StreamInv /\ MergeInv /\ IpcInv /\ MessageInv
  BY DEF TransferInv
<1>2. /\ sndPc \in {"full", "last"} /\ op = NoOp
      /\ op' = [buffer |-> <<"send", fill>>, meta |-> bucketMeta, isLast |-> sndPc = "last"]
      /\ fill' = 1 - fill /\ bucketMeta' = <<>> /\ offset' = 0
      /\ sndPc' = IF sndPc = "last" THEN "finish" ELSE "fill"
      /\ UNCHANGED <<sizes, ipcBucket, mem, nextChunk, arrived, stream, message>>
  BY DEF StartBroadcast
<1>3. /\ UNCHANGED <<rcvPc, recvBuf, posted, metadata, index>>
      /\ UNCHANGED <<weight, ipcMeta, ipcOffset, loaded, received>>
  BY DEF StartBroadcast, receiver, ipc, worker
<1>4. /\ Chunks' = Chunks /\ Weights' = Weights /\ Buffers' = Buffers /\ LoadedWeights' = LoadedWeights
  BY <1>2, SameModel
<1>5. /\ op' \in Broadcasts /\ fill \in {0, 1} /\ fill' \in {0, 1} /\ 1 - fill' = fill
      /\ <<>> \in Seq(MetaEntries) /\ Len(<<>>) = 0
  <2>1. fill \in {0, 1} /\ bucketMeta \in Seq(MetaEntries)
    BY <1>1 DEF TransferTypeOK
  <2> QED BY <1>2, <2>1, EmptySeq DEF Broadcasts
<1>6. /\ MetaOf(op) = <<>> /\ MetaOf(op)' = bucketMeta /\ op' # NoOp
      /\ MetaOf(arrived)' = MetaOf(arrived) /\ MetaOf(metadata)' = MetaOf(metadata)
  <2>1. op' # NoOp
    BY <1>5, TransferAssumption
  <2> QED BY <1>2, <1>3, <2>1 DEF MetaOf
<1>7. /\ BeyondBucket' = nextChunk - 1 /\ BeyondOp' = BeyondBucket /\ BeyondOp = BeyondBucket
      /\ BeyondArrived' = BeyondArrived /\ BeyondMetadata' = BeyondMetadata /\ Yielded' = Yielded
  <2>1. nextChunk \in Nat /\ Len(bucketMeta) \in Nat /\ BeyondBucket \in Nat
    BY <1>1, Counts
  <2>2. BeyondBucket' = nextChunk - 1
    BY <1>2, <1>5, <2>1 DEF BeyondBucket
  <2>3. BeyondOp' = BeyondBucket
    BY <1>6, <2>1, <2>2 DEF BeyondOp, BeyondBucket
  <2>4. BeyondOp = BeyondBucket
    BY <1>5, <1>6, <2>1 DEF BeyondOp
  <2> QED BY <1>3, <1>6, <2>2, <2>3, <2>4 DEF BeyondArrived, BeyondMetadata, Yielded
<1>8. TransferTypeOK'
  <2>1. MemoryOK'
    BY <1>1, <1>2, MemoryKept DEF TransferTypeOK, MemoryOK
  <2>2. 0 \in 0..EngineBucket
    BY TransferAssumption
  <2> QED BY <1>1, <1>2, <1>3, <1>4, <1>5, <1>6, <2>1, <2>2 DEF TransferTypeOK
<1>9. ControlInv'
  BY <1>1, <1>2, <1>3, <1>4, <1>5, <1>6 DEF ControlInv
<1>10. RunsInv'
  <2>1. Run(bucketMeta, BeyondBucket)'
    BY <1>2 DEF Run
  <2>2. Run(MetaOf(op), BeyondOp)'
    BY <1>1, <1>4, <1>6, <1>7 DEF RunsInv, Run
  <2>3. Run(MetaOf(arrived), BeyondArrived)' /\ Run(MetaOf(metadata), BeyondMetadata)'
    BY <1>1, <1>4, <1>6, <1>7 DEF RunsInv, Run
  <2> QED BY <1>1, <1>7, <2>1, <2>2, <2>3 DEF RunsInv
<1>11. EngineInv'
  <2>1. AllHold(<<"send", fill>>, bucketMeta)' /\ DOMAIN bucketMeta' = {}
    BY <1>2 DEF AllHold
  <2>2. AllHold(<<"send", fill>>, bucketMeta)
    BY <1>1 DEF EngineInv
  <2>3. AllHold(<<"send", 1 - fill>>, MetaOf(op))'
    BY <1>2, <1>5, <1>6, <2>2, AllHoldKept
  <2>4. AllHold(<<"recv", recvBuf>>, MetaOf(arrived))' /\ AllHold(<<"recv", 1 - recvBuf>>, MetaOf(metadata))'
    BY <1>1, <1>2, <1>3, <1>6, AllHoldKept DEF EngineInv
  <2> QED BY <2>1, <2>3, <2>4 DEF EngineInv
<1>12. OrderInv' /\ StreamInv' /\ MergeInv' /\ IpcInv' /\ MessageInv'
  BY <1>1, <1>2, <1>3, <1>7, DownstreamKept
<1> QED BY <1>8, <1>9, <1>10, <1>11, <1>12 DEF TransferInv

\* The sender has ended.
LEMMA FinishSendKeeps ==
  ASSUME TransferInv, FinishSend
  PROVE  TransferInv'
<1>1. /\ TransferTypeOK /\ ControlInv /\ RunsInv /\ EngineInv /\ OrderInv
      /\ StreamInv /\ MergeInv /\ IpcInv /\ MessageInv
  BY DEF TransferInv
<1>2. /\ sndPc = "finish" /\ op = NoOp /\ sndPc' = "done"
      /\ UNCHANGED <<sizes, ipcBucket, mem, nextChunk, fill, bucketMeta, offset, op, arrived, stream, message>>
      /\ UNCHANGED <<rcvPc, recvBuf, posted, metadata, index, weight, ipcMeta, ipcOffset, loaded, received>>
  BY DEF FinishSend, receiver, ipc, worker
<1>3. /\ Chunks' = Chunks /\ Weights' = Weights /\ Buffers' = Buffers /\ LoadedWeights' = LoadedWeights
  BY <1>2, SameModel
<1>4. /\ MetaOf(op)' = MetaOf(op) /\ MetaOf(arrived)' = MetaOf(arrived) /\ MetaOf(metadata)' = MetaOf(metadata)
  BY <1>2 DEF MetaOf
<1>5. /\ BeyondBucket' = BeyondBucket /\ BeyondOp' = BeyondOp /\ BeyondArrived' = BeyondArrived
      /\ BeyondMetadata' = BeyondMetadata /\ Yielded' = Yielded
  BY <1>2, <1>4 DEF BeyondBucket, BeyondOp, BeyondArrived, BeyondMetadata, Yielded
<1>6. TransferTypeOK'
  <2>1. MemoryOK'
    BY <1>1, <1>2, MemoryKept DEF TransferTypeOK, MemoryOK
  <2> QED BY <1>1, <1>2, <1>3, <1>4, <2>1 DEF TransferTypeOK
<1>7. ControlInv'
  BY <1>1, <1>2, <1>3, <1>4 DEF ControlInv
<1>8. RunsInv'
  BY <1>1, <1>2, <1>3, <1>4, <1>5 DEF RunsInv, Run
<1>9. EngineInv'
  BY <1>1, <1>2, <1>4, AllHoldKept DEF EngineInv
<1>10. OrderInv' /\ StreamInv' /\ MergeInv' /\ IpcInv' /\ MessageInv'
  BY <1>1, <1>2, <1>5, DownstreamKept
<1> QED BY <1>6, <1>7, <1>8, <1>9, <1>10 DEF TransferInv

\* A bucket crosses the network, into the buffer that is not being read.
LEMMA BroadcastKeeps ==
  ASSUME TransferInv, Broadcast
  PROVE  TransferInv'
<1>1. /\ TransferTypeOK /\ ControlInv /\ RunsInv /\ EngineInv /\ OrderInv
      /\ StreamInv /\ MergeInv /\ IpcInv /\ MessageInv
  BY DEF TransferInv
<1>2. /\ op # NoOp /\ posted # NoOp
      /\ mem' = [mem EXCEPT ![<<"recv", posted>>] = mem[op.buffer]]
      /\ arrived' = [meta |-> op.meta, isLast |-> op.isLast]
      /\ op' = NoOp /\ posted' = NoOp
      /\ UNCHANGED <<sizes, ipcBucket, rcvPc, recvBuf, metadata, index, stream, message>>
      /\ UNCHANGED <<sndPc, nextChunk, fill, bucketMeta, offset, weight, ipcMeta, ipcOffset, loaded, received>>
  BY DEF Broadcast, sender, ipc, worker
<1>3. /\ Chunks' = Chunks /\ Weights' = Weights /\ Buffers' = Buffers /\ LoadedWeights' = LoadedWeights
  BY <1>2, SameModel
<1>4. /\ posted = recvBuf /\ recvBuf \in {0, 1} /\ 1 - recvBuf \in {0, 1} /\ 1 - recvBuf # recvBuf
      /\ fill \in {0, 1} /\ 1 - fill \in {0, 1} /\ op \in Broadcasts
      /\ op.buffer = <<"send", 1 - fill>> /\ arrived = NoOp
  BY <1>1, <1>2 DEF TransferTypeOK, ControlInv
<1>5. arrived' \in Arrivals /\ arrived' # NoOp /\ op.meta \in Seq(MetaEntries) /\ op.isLast \in BOOLEAN
  BY <1>2, <1>4, TransferAssumption DEF Broadcasts, Arrivals
<1>6. /\ MetaOf(op)' = <<>> /\ MetaOf(arrived) = <<>> /\ MetaOf(arrived)' = MetaOf(op)
      /\ MetaOf(metadata)' = MetaOf(metadata)
  BY <1>2, <1>4, <1>5 DEF MetaOf
<1>7. /\ BeyondBucket' = BeyondBucket /\ BeyondOp' = BeyondBucket /\ BeyondArrived' = BeyondOp
      /\ BeyondArrived = BeyondOp /\ BeyondMetadata' = BeyondMetadata /\ Yielded' = Yielded
  <2>1. BeyondBucket \in Nat /\ BeyondOp \in Nat /\ Len(MetaOf(op)) \in Nat /\ Len(<<>>) = 0
    BY <1>1, Counts
  <2>2. BeyondBucket' = BeyondBucket
    BY <1>2 DEF BeyondBucket
  <2>3. BeyondOp' = BeyondBucket
    BY <1>6, <2>1, <2>2 DEF BeyondOp
  <2>4. BeyondArrived' = BeyondOp
    BY <1>6, <2>3 DEF BeyondArrived, BeyondOp
  <2>5. BeyondArrived = BeyondOp
    BY <1>6, <2>1 DEF BeyondArrived
  <2> QED BY <1>2, <1>6, <2>2, <2>3, <2>4, <2>5 DEF BeyondMetadata, Yielded
<1>8. /\ DOMAIN mem = Buffers /\ DOMAIN mem' = Buffers
      /\ <<"recv", recvBuf>> \in Buffers /\ op.buffer \in Buffers
      /\ mem'[<<"recv", recvBuf>>] = mem[op.buffer]
      /\ \A b \in Buffers : b # <<"recv", recvBuf>> => mem'[b] = mem[b]
      /\ DOMAIN mem[op.buffer] = DOMAIN mem[<<"recv", recvBuf>>]
  <2>1. /\ DOMAIN mem = Buffers /\ \A b \in EngineBuffers : DOMAIN mem[b] = 0..(EngineBucket - 1)
    BY <1>1 DEF TransferTypeOK, MemoryOK
  <2>2. /\ <<"recv", recvBuf>> \in EngineBuffers /\ op.buffer \in EngineBuffers
        /\ EngineBuffers \subseteq Buffers
    BY <1>4, BufferNames
  <2> QED BY <1>2, <1>4, <2>1, <2>2
<1>9. TransferTypeOK'
  <2>1. \A b \in Buffers : DOMAIN mem'[b] = DOMAIN mem[b]
    BY <1>8
  <2>2. MemoryOK'
    BY <1>1, <1>2, <1>8, <2>1, MemoryKept DEF TransferTypeOK
  <2> QED BY <1>1, <1>2, <1>3, <1>5, <1>6, <2>2 DEF TransferTypeOK
<1>10. ControlInv'
  BY <1>1, <1>2, <1>3, <1>4, <1>5, <1>6 DEF ControlInv
<1>11. RunsInv'
  <2>1. Run(MetaOf(op), BeyondOp)'
    BY <1>6 DEF Run
  <2>2. Run(MetaOf(arrived), BeyondArrived)'
    BY <1>1, <1>3, <1>6, <1>7 DEF RunsInv, Run
  <2>3. Run(bucketMeta, BeyondBucket)' /\ Run(MetaOf(metadata), BeyondMetadata)'
    BY <1>1, <1>2, <1>3, <1>6, <1>7 DEF RunsInv, Run
  <2> QED BY <1>1, <1>7, <2>1, <2>2, <2>3 DEF RunsInv
<1>12. /\ mem'[<<"send", fill>>] = mem[<<"send", fill>>]
       /\ mem'[<<"recv", 1 - recvBuf>>] = mem[<<"recv", 1 - recvBuf>>]
       /\ mem'[IpcBuffer] = mem[IpcBuffer]
       /\ \A w \in Weights : mem'[MergeBuffer(w)] = mem[MergeBuffer(w)]
  BY <1>4, <1>8, BufferNames
<1>13. EngineInv'
  <2>1. AllHold(<<"send", fill>>, bucketMeta)' /\ AllHold(<<"recv", 1 - recvBuf>>, MetaOf(metadata))'
    BY <1>1, <1>2, <1>6, <1>12, AllHoldKept DEF EngineInv
  <2>2. AllHold(<<"send", 1 - fill>>, MetaOf(op))'
    BY <1>6 DEF AllHold
  <2>3. AllHold(<<"recv", recvBuf>>, MetaOf(arrived))'
    <3>1. \A e : Holds(op.buffer, e) => Holds(<<"recv", recvBuf>>, e)'
      BY <1>2, <1>8 DEF Holds
    <3>2. AllHold(op.buffer, MetaOf(op))
      BY <1>1, <1>4 DEF EngineInv
    <3> QED BY <1>6, <3>1, <3>2 DEF AllHold
  <2>4. \A k \in DOMAIN bucketMeta' : bucketMeta'[k].offset + bucketMeta'[k].chunk.size <= offset'
    BY <1>1, <1>2 DEF EngineInv
  <2> QED BY <2>1, <2>2, <2>3, <2>4 DEF EngineInv
<1>14. OrderInv' /\ StreamInv' /\ MergeInv' /\ IpcInv' /\ MessageInv'
  BY <1>1, <1>2, <1>7, <1>12, DownstreamKept
<1> QED BY <1>9, <1>10, <1>11, <1>13, <1>14 DEF TransferInv

-----------------------------------------------------------------------------
(* The receiver's steps *)

\* The next operation is started.
LEMMA PostReceiveKeeps ==
  ASSUME TransferInv, PostReceive
  PROVE  TransferInv'
<1>1. /\ TransferTypeOK /\ ControlInv /\ RunsInv /\ EngineInv /\ OrderInv
      /\ StreamInv /\ MergeInv /\ IpcInv /\ MessageInv
  BY DEF TransferInv
<1>2. /\ rcvPc \in {"first", "post"} /\ posted' = recvBuf
      /\ rcvPc' = IF rcvPc = "first" THEN "await" ELSE "yield"
      /\ UNCHANGED <<sizes, ipcBucket, mem, op, recvBuf, metadata, index, arrived, stream, message>>
      /\ UNCHANGED <<sndPc, nextChunk, fill, bucketMeta, offset, weight, ipcMeta, ipcOffset, loaded, received>>
  BY DEF PostReceive, sender, ipc, worker
<1>3. /\ Chunks' = Chunks /\ Weights' = Weights /\ Buffers' = Buffers /\ LoadedWeights' = LoadedWeights
  BY <1>2, SameModel
<1>4. /\ MetaOf(op)' = MetaOf(op) /\ MetaOf(arrived)' = MetaOf(arrived) /\ MetaOf(metadata)' = MetaOf(metadata)
  BY <1>2 DEF MetaOf
<1>5. /\ BeyondBucket' = BeyondBucket /\ BeyondOp' = BeyondOp /\ BeyondArrived' = BeyondArrived
      /\ BeyondMetadata' = BeyondMetadata /\ Yielded' = Yielded
  BY <1>2, <1>4 DEF BeyondBucket, BeyondOp, BeyondArrived, BeyondMetadata, Yielded
<1>6. TransferTypeOK'
  <2>1. MemoryOK'
    BY <1>1, <1>2, MemoryKept DEF TransferTypeOK, MemoryOK
  <2> QED BY <1>1, <1>2, <1>3, <1>4, <2>1 DEF TransferTypeOK
<1>7. ControlInv'
  <2>1. rcvPc = "first" => index = Len(MetaOf(metadata)) + 1
    BY <1>1 DEF ControlInv
  <2> QED BY <1>1, <1>2, <1>3, <1>4, <2>1 DEF ControlInv
<1>8. RunsInv'
  BY <1>1, <1>2, <1>3, <1>4, <1>5 DEF RunsInv, Run
<1>9. EngineInv'
  BY <1>1, <1>2, <1>4, AllHoldKept DEF EngineInv
<1>10. OrderInv' /\ StreamInv' /\ MergeInv' /\ IpcInv' /\ MessageInv'
  BY <1>1, <1>2, <1>5, DownstreamKept
<1> QED BY <1>6, <1>7, <1>8, <1>9, <1>10 DEF TransferInv

\* All the chunks of a bucket have been yielded.
LEMMA EndOfBucketKeeps ==
  ASSUME TransferInv, EndOfBucket
  PROVE  TransferInv'
<1>1. /\ TransferTypeOK /\ ControlInv /\ RunsInv /\ EngineInv /\ OrderInv
      /\ StreamInv /\ MergeInv /\ IpcInv /\ MessageInv
  BY DEF TransferInv
<1>2. /\ rcvPc = "yield" /\ weight = NoOp /\ index > Len(metadata.meta) /\ message = NoOp
      /\ rcvPc' = IF metadata.isLast THEN "flush" ELSE "await"
      /\ UNCHANGED <<sizes, ipcBucket, mem, op, recvBuf, posted, metadata, index, arrived, stream, message>>
      /\ UNCHANGED <<sndPc, nextChunk, fill, bucketMeta, offset, weight, ipcMeta, ipcOffset, loaded, received>>
  BY DEF EndOfBucket, sender, ipc, worker
<1>3. /\ Chunks' = Chunks /\ Weights' = Weights /\ Buffers' = Buffers /\ LoadedWeights' = LoadedWeights
  BY <1>2, SameModel
<1>4. /\ MetaOf(op)' = MetaOf(op) /\ MetaOf(arrived)' = MetaOf(arrived) /\ MetaOf(metadata)' = MetaOf(metadata)
  BY <1>2 DEF MetaOf
<1>5. /\ BeyondBucket' = BeyondBucket /\ BeyondOp' = BeyondOp /\ BeyondArrived' = BeyondArrived
      /\ BeyondMetadata' = BeyondMetadata /\ Yielded' = Yielded
  BY <1>2, <1>4 DEF BeyondBucket, BeyondOp, BeyondArrived, BeyondMetadata, Yielded
<1>6. TransferTypeOK'
  <2>1. MemoryOK'
    BY <1>1, <1>2, MemoryKept DEF TransferTypeOK, MemoryOK
  <2>2. rcvPc' \in {"first", "await", "post", "yield", "flush", "done"}
    BY <1>2
  <2> QED BY <1>1, <1>2, <1>3, <1>4, <2>1, <2>2 DEF TransferTypeOK
<1>7. ControlInv'
  <2>1. metadata # NoOp /\ MetaOf(metadata) = metadata.meta
    BY <1>1, <1>2 DEF ControlInv, MetaOf
  <2>2. index = Len(metadata.meta) + 1
    <3>1. Len(metadata.meta) \in Nat /\ index \in 1..(Len(metadata.meta) + 1)
      BY <1>1, <2>1, Counts DEF TransferTypeOK
    <3> QED BY <1>2, <3>1
  <2> QED BY <1>1, <1>2, <1>3, <1>4, <2>1, <2>2 DEF ControlInv
<1>8. RunsInv'
  BY <1>1, <1>2, <1>3, <1>4, <1>5 DEF RunsInv, Run
<1>9. EngineInv'
  BY <1>1, <1>2, <1>4, AllHoldKept DEF EngineInv
<1>10. OrderInv' /\ StreamInv' /\ MergeInv' /\ IpcInv' /\ MessageInv'
  BY <1>1, <1>2, <1>5, DownstreamKept
<1> QED BY <1>6, <1>7, <1>8, <1>9, <1>10 DEF TransferInv

\* The bucket that has arrived becomes the one that is read.  Nothing refers
\* to the other any more: that no copy from it is left is what synchronize is for.
LEMMA SwapBuffersKeeps ==
  ASSUME TransferInv, SwapBuffers
  PROVE  TransferInv'
<1>1. /\ TransferTypeOK /\ ControlInv /\ RunsInv /\ EngineInv /\ OrderInv
      /\ StreamInv /\ MergeInv /\ IpcInv /\ MessageInv
  BY DEF TransferInv
<1>2. /\ rcvPc = "await" /\ arrived # NoOp /\ stream = <<>> /\ message = NoOp
      /\ metadata' = arrived /\ arrived' = NoOp /\ index' = 1 /\ recvBuf' = 1 - recvBuf
      /\ rcvPc' = IF arrived.isLast THEN "yield" ELSE "post"
      /\ UNCHANGED <<sizes, ipcBucket, mem, op, posted, stream, message>>
      /\ UNCHANGED <<sndPc, nextChunk, fill, bucketMeta, offset, weight, ipcMeta, ipcOffset, loaded, received>>
  BY DEF SwapBuffers, CopiesDone, sender, ipc, worker
<1>3. /\ Chunks' = Chunks /\ Weights' = Weights /\ Buffers' = Buffers /\ LoadedWeights' = LoadedWeights
      /\ \A k : WholeAt(k)' = WholeAt(k) /\ PartAt(k)' = PartAt(k)
  BY <1>2, SameModel
<1>4. /\ recvBuf \in {0, 1} /\ recvBuf' \in {0, 1} /\ 1 - recvBuf' = recvBuf /\ arrived \in Arrivals
      /\ posted = NoOp /\ weight = NoOp /\ index = Len(MetaOf(metadata)) + 1
  BY <1>1, <1>2 DEF TransferTypeOK, ControlInv
<1>5. /\ MetaOf(op)' = MetaOf(op) /\ MetaOf(arrived)' = <<>> /\ MetaOf(metadata)' = MetaOf(arrived)
      /\ MetaOf(arrived) = arrived.meta
  BY <1>2 DEF MetaOf
<1>6. /\ BeyondBucket' = BeyondBucket /\ BeyondOp' = BeyondOp /\ BeyondArrived' = BeyondOp
      /\ BeyondMetadata' = BeyondArrived /\ Yielded' = Yielded
  <2>1. /\ BeyondOp \in Nat /\ BeyondArrived \in Nat /\ BeyondMetadata \in Nat
        /\ Len(MetaOf(metadata)) \in Nat /\ Len(MetaOf(arrived)) \in Nat /\ Len(<<>>) = 0
    BY <1>1, Counts
  <2>2. BeyondBucket' = BeyondBucket /\ BeyondOp' = BeyondOp
    BY <1>2, <1>5 DEF BeyondBucket, BeyondOp
  <2>3. BeyondArrived' = BeyondOp
    BY <1>5, <2>1, <2>2 DEF BeyondArrived
  <2>4. BeyondMetadata' = BeyondArrived
    BY <1>5, <2>3 DEF BeyondMetadata, BeyondArrived
  <2>5. Yielded = BeyondArrived
    BY <1>4, <2>1 DEF Yielded, BeyondMetadata
  <2>6. Yielded' = BeyondArrived
    BY <1>2, <2>1, <2>4 DEF Yielded
  <2> QED BY <2>2, <2>3, <2>4, <2>5, <2>6
<1>7. TransferTypeOK'
  <2>1. MemoryOK'
    BY <1>1, <1>2, MemoryKept DEF TransferTypeOK, MemoryOK
  <2>2. index' \in 1..(Len(MetaOf(metadata)') + 1)
    <3>1. Len(MetaOf(arrived)) \in Nat
      BY <1>1, Counts
    <3> QED BY <1>2, <1>5, <3>1
  <2>3. rcvPc' \in {"first", "await", "post", "yield", "flush", "done"}
    BY <1>2
  <2> QED BY <1>1, <1>2, <1>3, <1>4, <2>1, <2>2, <2>3 DEF TransferTypeOK
<1>8. ControlInv'
  BY <1>1, <1>2, <1>3, <1>4, <1>5 DEF ControlInv
<1>9. RunsInv'
  <2>1. Run(MetaOf(arrived), BeyondArrived)'
    BY <1>5 DEF Run
  <2>2. Run(MetaOf(metadata), BeyondMetadata)'
    BY <1>1, <1>3, <1>5, <1>6 DEF RunsInv, Run
  <2>3. Run(bucketMeta, BeyondBucket)' /\ Run(MetaOf(op), BeyondOp)'
    BY <1>1, <1>2, <1>3, <1>5, <1>6 DEF RunsInv, Run
  <2>4. BeyondArrived >= 0
    BY <1>1, Counts
  <2> QED BY <1>6, <2>1, <2>2, <2>3, <2>4 DEF RunsInv
<1>10. EngineInv'
  <2>1. AllHold(<<"send", fill>>, bucketMeta)' /\ AllHold(<<"send", 1 - fill>>, MetaOf(op))'
    BY <1>1, <1>2, <1>5, AllHoldKept DEF EngineInv
  <2>2. AllHold(<<"recv", recvBuf>>, MetaOf(arrived))'
    BY <1>5 DEF AllHold
  <2>3. AllHold(<<"recv", 1 - recvBuf>>, MetaOf(metadata))'
    BY <1>1, <1>2, <1>4, <1>5, AllHoldKept DEF EngineInv
  <2>4. \A k \in DOMAIN bucketMeta' : bucketMeta'[k].offset + bucketMeta'[k].chunk.size <= offset'
    BY <1>1, <1>2 DEF EngineInv
  <2> QED BY <2>1, <2>2, <2>3, <2>4 DEF EngineInv
<1>11. Entries = <<>> /\ Entries' = <<>> /\ DOMAIN <<>> = {} /\ Len(<<>>) = 0
  BY <1>2 DEF Entries
<1>12. WholeAt(Yielded)' = WholeAt(Yielded) /\ PartAt(Yielded)' = PartAt(Yielded)
  BY <1>3, <1>6 DEF WholeAt, PartAt
<1>13. OrderInv'
  <2>1. ~received
    BY <1>1, <1>2 DEF OrderInv
  <2> QED BY <1>1, <1>2, <1>4, <1>11, <1>12, <2>1 DEF OrderInv
<1>14. StreamInv'
  BY <1>2 DEF StreamInv
<1>15. MergeInv'
  <2>1. \A w, i, n : MergeByte(w, i, n)' <=> MergeByte(w, i, n)
    BY <1>2 DEF MergeByte, Covers, MergeBuffer
  <2>2. \A w, i : MergeByte(w, i, Len(stream))' <=> MergeByte(w, i, Len(stream))
    BY <1>2, <2>1
  <2> QED BY <1>1, <1>2, <1>3, <1>12, <2>2 DEF MergeInv
<1>16. IpcInv'
  <2>1. \A place, w : IsAt(place, w)' <=> IsAt(place, w)
    BY <1>2 DEF IsAt
  <2>2. \A c, e : PacksEntry(c, e)' <=> PacksEntry(c, e)
    BY <1>2 DEF PacksEntry
  <2> QED BY <1>1, <1>2, <1>4, <2>1, <2>2 DEF IpcInv, IpcBuffer
<1>17. MessageInv'
  BY <1>11 DEF MessageInv
<1> QED BY <1>7, <1>8, <1>9, <1>10, <1>13, <1>14, <1>15, <1>16, <1>17 DEF TransferInv

\* Another copy is issued: what comes after the earlier ones does so still.
LEMMA StreamGrows ==
  ASSUME NEW copy, NEW S, copy \in S, stream \in Seq(S), stream' = Append(stream, copy),
         UNCHANGED <<sizes, mem, recvBuf>>,
         \A k \in DOMAIN ipcMeta : k \in DOMAIN ipcMeta' /\ ipcMeta'[k] = ipcMeta[k]
  PROVE  /\ Len(stream) \in Nat /\ DOMAIN stream = 1..Len(stream)
         /\ DOMAIN stream' = 1..(Len(stream) + 1) /\ Len(stream') = Len(stream) + 1
         /\ stream'[Len(stream) + 1] = copy /\ \A j \in 1..Len(stream) : stream'[j] = stream[j]
         /\ \A w, i : \A n \in 0..Len(stream) : \A m \in Nat :
              n <= m /\ MergeByte(w, i, n) => MergeByte(w, i, m)'
         /\ \A place, w : \A n \in 0..Len(stream) : \A m \in Nat :
              n <= m /\ ComesTo(place, w, n) => ComesTo(place, w, m)'
         /\ \A j \in 1..Len(stream) :
              Merges(stream[j]) \/ Packs(j) => (Merges(stream[j]) \/ Packs(j))'
<1>1. /\ Len(stream) \in Nat /\ DOMAIN stream = 1..Len(stream)
      /\ DOMAIN stream' = 1..(Len(stream) + 1) /\ Len(stream') = Len(stream) + 1
      /\ stream'[Len(stream) + 1] = copy /\ \A j \in 1..Len(stream) : stream'[j] = stream[j]
  <2>1. Len(stream) \in Nat /\ DOMAIN stream = 1..Len(stream)
    BY LenProperties
  <2>2. /\ stream' \in Seq(S) /\ Len(stream') = Len(stream) + 1
        /\ \A j \in 1..Len(stream) : stream'[j] = stream[j]
        /\ stream'[Len(stream) + 1] = copy
    BY AppendProperties
  <2> QED BY <2>1, <2>2, LenProperties
<1>2. ASSUME NEW w, NEW i, NEW n \in 0..Len(stream), NEW m \in Nat, n <= m, MergeByte(w, i, n)
      PROVE  MergeByte(w, i, m)'
  <2>1. CASE mem[MergeBuffer(w)][i] = <<w, i>>
    BY <2>1 DEF MergeByte, MergeBuffer
  <2>2. CASE \E j \in 1..n : Covers(stream[j], w, i)
    <3>1. PICK j \in 1..n : Covers(stream[j], w, i)
      BY <2>2
    <3>2. j \in 1..Len(stream) /\ j \in 1..m
      BY <1>1, <1>2
    <3>3. Covers(stream[j], w, i)'
      BY <1>1, <3>1, <3>2 DEF Covers, MergeBuffer
    <3> QED BY <3>2, <3>3 DEF MergeByte
  <2> QED BY <1>2, <2>1, <2>2 DEF MergeByte
<1>3. ASSUME NEW place, NEW w, NEW n \in 0..Len(stream), NEW m \in Nat, n <= m, ComesTo(place, w, n)
      PROVE  ComesTo(place, w, m)'
  <2>1. \A i : MergeByte(w, i, n) => MergeByte(w, i, m)'
    BY <1>2, <1>3
  <2>2. IsAt(place, w)' <=> IsAt(place, w)
    BY DEF IsAt
  <2> QED BY <1>3, <2>1, <2>2 DEF ComesTo, MergeBuffer
<1>4. ASSUME NEW j \in 1..Len(stream), Merges(stream[j])
      PROVE  Merges(stream[j])'
  <2>1. stream'[j] = stream[j] /\ Weights' = Weights
    BY <1>1 DEF Weights
  <2>2. PICK d : d = stream[j]
    OBVIOUS
  <2>3. Merges(d)'
    BY <1>4, <2>1, <2>2 DEF Merges, MergeBuffer
  <2> QED BY <2>1, <2>2, <2>3
<1>5. ASSUME NEW j \in 1..Len(stream), Packs(j)
      PROVE  Packs(j)'
  <2>1. stream'[j] = stream[j]
    BY <1>1
  <2>2. PICK k \in DOMAIN ipcMeta :
          PacksEntry(stream[j], ipcMeta[k]) /\ ComesTo(stream[j].from, ipcMeta[k].w, j - 1)
    BY <1>5 DEF Packs
  <2>3. k \in DOMAIN ipcMeta' /\ ipcMeta'[k] = ipcMeta[k]
    OBVIOUS
  <2>4. PacksEntry(stream[j], ipcMeta[k])'
    BY <2>1, <2>2, <2>3 DEF PacksEntry
  <2>5. ComesTo(stream[j].from, ipcMeta[k].w, j - 1)'
    <3>1. PICK place, w : place = stream[j].from /\ w = ipcMeta[k].w
      OBVIOUS
    <3>2. j - 1 \in 0..Len(stream) /\ j - 1 \in Nat
      BY <1>1
    <3>3. ComesTo(place, w, j - 1)'
      BY <1>3, <2>2, <3>1, <3>2
    <3> QED BY <2>1, <2>3, <3>1, <3>3
  <2> QED BY <2>3, <2>4, <2>5 DEF Packs
<1> QED BY <1>1, <1>2, <1>3, <1>4, <1>5

\* The chunk that is yielded next continues the weight that has been begun, or
\* begins the next weight.
LEMMA NextChunk ==
  ASSUME TransferTypeOK, RunsInv, EngineInv, metadata # NoOp, index <= Len(metadata.meta)
  PROVE  \E e \in MetaEntries :
           /\ e = metadata.meta[index] /\ e.chunk = Chunks[Yielded + 1]
           /\ Yielded + 1 \in 1..Len(Chunks)
           /\ e.chunk.w \in Weights /\ e.chunk.w = WholeAt(Yielded) + 1
           /\ e.chunk.chunkOffset = PartAt(Yielded) /\ Piece(e.chunk)
           /\ e.chunk \in ChunkRecords /\ e.offset \in Nat
           /\ Holds(<<"recv", 1 - recvBuf>>, e)
<1>1. MetaOf(metadata) = metadata.meta /\ metadata.meta \in Seq(MetaEntries)
  BY MetaFacts DEF MetaOf
<1>2. /\ Len(metadata.meta) \in Nat /\ index \in 1..Len(metadata.meta)
      /\ DOMAIN metadata.meta = 1..Len(metadata.meta)
  <2>1. Len(metadata.meta) \in Nat /\ DOMAIN metadata.meta = 1..Len(metadata.meta)
    BY <1>1, LenProperties
  <2>2. index \in 1..(Len(MetaOf(metadata)) + 1)
    BY DEF TransferTypeOK
  <2> QED BY <1>1, <2>1, <2>2
<1>3. PICK e \in MetaEntries : e = metadata.meta[index]
  BY <1>1, <1>2, ElementOfSeq
<1>4. /\ BeyondMetadata \in Nat /\ Len(Chunks) \in Nat /\ Yielded + 1 = BeyondMetadata + index
      /\ Yielded \in Nat /\ (Yielded + 1) - 1 = Yielded
  <2>1. BeyondMetadata \in Nat /\ Len(Chunks) \in Nat /\ Yielded \in 0..Len(Chunks)
    BY Counts
  <2>2. index \in Nat /\ Yielded = BeyondMetadata + (index - 1)
    BY <1>2 DEF Yielded
  <2> QED BY <2>1, <2>2
<1>5. Yielded + 1 \in 1..Len(Chunks)
  <2>1. /\ BeyondArrived = BeyondMetadata + Len(metadata.meta)
        /\ BeyondArrived \in Nat /\ BeyondOp \in Nat /\ BeyondBucket \in Nat
        /\ BeyondArrived <= BeyondOp /\ BeyondOp <= BeyondBucket /\ BeyondBucket <= nextChunk - 1
    <3>1. /\ BeyondArrived \in Nat /\ BeyondOp \in Nat /\ BeyondBucket \in Nat /\ nextChunk \in Nat
          /\ Len(bucketMeta) \in Nat /\ Len(MetaOf(op)) \in Nat /\ Len(MetaOf(arrived)) \in Nat
      BY Counts
    <3>2. BeyondArrived = BeyondMetadata + Len(metadata.meta)
      BY <1>1, <1>2, <1>4, <3>1 DEF BeyondMetadata
    <3>3. BeyondArrived <= BeyondOp
      BY <3>1 DEF BeyondArrived
    <3>4. BeyondOp <= BeyondBucket
      BY <3>1 DEF BeyondOp
    <3>5. BeyondBucket <= nextChunk - 1
      BY <3>1 DEF BeyondBucket
    <3> QED BY <3>1, <3>2, <3>3, <3>4, <3>5
  <2>2. nextChunk \in 1..(Len(Chunks) + 1)
    BY DEF TransferTypeOK
  <2> QED BY <1>2, <1>4, <2>1, <2>2
<1>6. e.chunk = Chunks[Yielded + 1]
  BY <1>1, <1>2, <1>3, <1>4 DEF RunsInv, Run
<1>7. /\ e.chunk.w \in Weights /\ e.chunk.w = WholeAt(Yielded) + 1
      /\ e.chunk.chunkOffset = PartAt(Yielded) /\ Piece(e.chunk)
  <2>1. /\ Chunks[Yielded + 1].w \in Weights
        /\ Chunks[Yielded + 1].w = WholeAt((Yielded + 1) - 1) + 1
        /\ Chunks[Yielded + 1].chunkOffset = PartAt((Yielded + 1) - 1) /\ Piece(Chunks[Yielded + 1])
    BY <1>5, ChunkFacts DEF TransferTypeOK
  <2> QED BY <1>4, <1>6, <2>1
<1>8. e.chunk \in ChunkRecords /\ e.offset \in Nat
  BY DEF MetaEntries, ChunkRecords
<1>9. Holds(<<"recv", 1 - recvBuf>>, e)
  BY <1>1, <1>2, <1>3 DEF EngineInv, AllHold
<1> QED BY <1>3, <1>5, <1>6, <1>7, <1>8, <1>9

\* A chunk is yielded: a whole weight as a view, a part by a copy.
LEMMA YieldChunkKeeps ==
  ASSUME TransferInv, YieldChunk
  PROVE  TransferInv'
<1>1. /\ TransferTypeOK /\ ControlInv /\ RunsInv /\ EngineInv /\ OrderInv
      /\ StreamInv /\ MergeInv /\ IpcInv /\ MessageInv
  BY DEF TransferInv
<1> DEFINE from == <<<<"recv", 1 - recvBuf>>, metadata.meta[index].offset>>
<1>2. /\ rcvPc = "yield" /\ weight = NoOp /\ index <= Len(metadata.meta) /\ message = NoOp
      /\ index' = index + 1
      /\ UNCHANGED <<sizes, ipcBucket, mem, op, rcvPc, recvBuf, posted, metadata, arrived, ipcMeta,
                     ipcOffset, message>>
      /\ UNCHANGED <<sndPc, nextChunk, fill, bucketMeta, offset, loaded, received>>
  BY DEF YieldChunk, sender, worker
<1>3. metadata # NoOp /\ MetaOf(metadata) = metadata.meta
  BY <1>1, <1>2 DEF ControlInv, MetaOf
<1>4. PICK e \in MetaEntries :
        /\ e = metadata.meta[index] /\ e.chunk = Chunks[Yielded + 1]
        /\ Yielded + 1 \in 1..Len(Chunks)
        /\ e.chunk.w \in Weights /\ e.chunk.w = WholeAt(Yielded) + 1
        /\ e.chunk.chunkOffset = PartAt(Yielded) /\ Piece(e.chunk)
        /\ e.chunk \in ChunkRecords /\ e.offset \in Nat
        /\ Holds(<<"recv", 1 - recvBuf>>, e)
  BY <1>1, <1>2, <1>3, NextChunk
<1>5. PICK c \in ChunkRecords : c = e.chunk
  BY <1>4
<1>6. /\ c.w \in Nat /\ c.w \in Weights /\ c.chunkOffset \in Nat /\ c.size \in Nat /\ c.size >= 1
      /\ sizes[c.w] \in Nat /\ EngineBucket \in Nat /\ c.chunkOffset + c.size <= sizes[c.w]
      /\ c.w = WholeAt(Yielded) + 1 /\ c.chunkOffset = PartAt(Yielded)
      /\ c = Chunks[Yielded + 1] /\ Yielded \in Nat /\ WholeAt(Yielded) \in Nat /\ PartAt(Yielded) \in Nat
      /\ sizes[c.w] <= EngineBucket => c.chunkOffset = 0 /\ c.size = sizes[c.w]
  <2>1. c.w \in Nat /\ c.chunkOffset \in Nat /\ c.size \in Nat
    BY DEF ChunkRecords
  <2>2. /\ c.size >= 1 /\ c.chunkOffset + c.size <= sizes[c.w]
        /\ sizes[c.w] <= EngineBucket => c.chunkOffset = 0 /\ c.size = sizes[c.w]
    BY <1>4, <1>5 DEF Piece
  <2>3. sizes[c.w] \in Nat /\ EngineBucket \in Nat
    BY <1>1, <1>4, <1>5, WeightsKnown, TransferAssumption
  <2>4. Yielded \in 0..Len(Chunks) /\ Len(Chunks) \in Nat /\ Len(sizes) \in Nat
    BY <1>1, Counts
  <2>5. WholeAt(Yielded) \in Nat /\ PartAt(Yielded) \in Nat
    BY <1>1, <2>4, ChunkFacts DEF TransferTypeOK
  <2> QED BY <1>4, <1>5, <2>1, <2>2, <2>3, <2>4, <2>5
<1>7. \A i \in 0..(c.size - 1) : mem[<<"recv", 1 - recvBuf>>][e.offset + i] = <<c.w, c.chunkOffset + i>>
  BY <1>4, <1>5 DEF Holds
<1>8. /\ Chunks' = Chunks /\ Weights' = Weights /\ Buffers' = Buffers /\ LoadedWeights' = LoadedWeights
      /\ \A k : WholeAt(k)' = WholeAt(k) /\ PartAt(k)' = PartAt(k)
  BY <1>2, SameModel
<1>9. RunsInv' /\ EngineInv' /\ Yielded' = Yielded + 1
  <2>1. RunsInv' /\ EngineInv' /\ BeyondMetadata' = BeyondMetadata
    BY <1>1, <1>2, UpstreamKept
  <2>2. BeyondMetadata \in Nat /\ index \in Nat
    BY <1>1, Counts
  <2> QED BY <1>2, <2>1, <2>2 DEF Yielded
<1>10. /\ WholeAt(Yielded)' = (IF Ends(c) THEN c.w ELSE c.w - 1)
       /\ PartAt(Yielded)' = (IF Ends(c) THEN 0 ELSE c.chunkOffset + c.size)
  <2>1. Yielded + 1 # 0
    BY <1>6
  <2>2. /\ WholeAt(Yielded + 1) = (IF Ends(c) THEN c.w ELSE c.w - 1)
        /\ PartAt(Yielded + 1) = (IF Ends(c) THEN 0 ELSE c.chunkOffset + c.size)
    BY <1>6, <2>1 DEF WholeAt, PartAt
  <2>3. PICK y : y = Yielded + 1
    OBVIOUS
  <2>4. WholeAt(y)' = WholeAt(y) /\ PartAt(y)' = PartAt(y) /\ Yielded' = y
    BY <1>8, <1>9, <2>3
  <2>5. WholeAt(Yielded)' = WholeAt(y)' /\ PartAt(Yielded)' = PartAt(y)'
    BY <2>4 DEF WholeAt, PartAt
  <2> QED BY <2>2, <2>3, <2>4, <2>5
<1>11. Entries = <<>> /\ Entries' = <<>> /\ Len(<<>>) = 0 /\ DOMAIN <<>> = {}
  BY <1>2 DEF Entries
<1>12. MemoryOK' /\ index' \in 1..(Len(MetaOf(metadata)') + 1) /\ MessageInv'
  <2>1. MemoryOK'
    BY <1>1, <1>2, MemoryKept DEF TransferTypeOK, MemoryOK
  <2>2. MetaOf(metadata)' = MetaOf(metadata)
    BY <1>2 DEF MetaOf
  <2>3. Len(MetaOf(metadata)) \in Nat /\ index \in Nat /\ index >= 1
    BY <1>1, Counts DEF TransferTypeOK
  <2>4. MessageInv'
    BY <1>11 DEF MessageInv
  <2> QED BY <1>2, <1>3, <2>1, <2>2, <2>3, <2>4
<1>13. Len(loaded) \in Nat /\ Len(ipcMeta) \in Nat /\ WholeAt(Yielded) = Len(loaded) + Len(ipcMeta)
  BY <1>1, <1>2, <1>11, Counts DEF OrderInv
<1>14. ASSUME (weight' = NoOp /\ ~Ends(c)) \/ (weight' # NoOp /\ weight'.w = c.w /\ Ends(c))
       PROVE  OrderInv'
  <2>1. ~received
    BY <1>1, <1>2 DEF OrderInv
  <2>2. /\ \A k \in DOMAIN loaded' : loaded'[k].w = k
        /\ \A k \in DOMAIN Entries' : Entries'[k].w = Len(loaded') + k
        /\ received' => rcvPc' = "done" /\ message' = NoOp /\ Len(loaded') = Len(sizes')
        /\ message' = NoOp
    BY <1>1, <1>2, <1>11, <2>1 DEF OrderInv
  <2>3. \A k \in DOMAIN ipcMeta' : ipcMeta'[k].w = Len(loaded') + Len(Entries') + k
    <3>1. \A k \in DOMAIN ipcMeta : ipcMeta[k].w = Len(loaded) + Len(Entries) + k
      BY <1>1 DEF OrderInv
    <3> QED BY <1>2, <1>11, <3>1
  <2>4. Len(loaded') + Len(Entries') + Len(ipcMeta') = Len(loaded) + Len(ipcMeta)
    BY <1>2, <1>11, <1>13
  <2>5. CASE weight' = NoOp /\ ~Ends(c)
    <3>1. WholeAt(Yielded)' = Len(loaded') + Len(Entries') + Len(ipcMeta') + 0
      BY <1>6, <1>10, <1>13, <2>4, <2>5
    <3> QED BY <2>2, <2>3, <2>5, <3>1 DEF OrderInv
  <2>6. CASE weight' # NoOp /\ weight'.w = c.w /\ Ends(c)
    <3>1. c.w = Len(loaded') + Len(Entries') + Len(ipcMeta') + 1
      BY <1>6, <1>13, <2>4
    <3>2. WholeAt(Yielded)' = Len(loaded') + Len(Entries') + Len(ipcMeta') + 1
      BY <1>10, <2>6, <3>1
    <3> QED BY <2>2, <2>3, <2>6, <3>1, <3>2 DEF OrderInv
  <2> QED BY <1>14, <2>5, <2>6
<1>15. CASE sizes[c.w] <= EngineBucket
  <2>1. weight' = [w |-> c.w, at |-> from] /\ stream' = stream /\ from = <<<<"recv", 1 - recvBuf>>, e.offset>>
    BY <1>4, <1>5, <1>15 DEF YieldChunk
  <2>2. c.chunkOffset = 0 /\ c.size = sizes[c.w] /\ Ends(c)
    BY <1>6, <1>15 DEF Ends
  <2>3. weight' \in PlacedWeights /\ weight' # NoOp /\ weight'.w = c.w
    <3>1. recvBuf \in {0, 1} /\ 1 - recvBuf \in Nat
      BY <1>1 DEF TransferTypeOK
    <3>2. from \in Places
      BY <1>4, <2>1, <3>1 DEF Places
    <3>3. PICK place \in Places : place = from
      BY <3>2
    <3>4. weight' = [w |-> c.w, at |-> place]
      BY <2>1, <3>3
    <3>5. weight' \in PlacedWeights /\ weight'.w = c.w
      BY <1>6, <3>4 DEF PlacedWeights
    <3> QED BY <3>5, TransferAssumption
  <2> HIDE DEF from
  <2>4. TransferTypeOK'
    BY <1>1, <1>2, <1>8, <1>12, <2>1, <2>3 DEF TransferTypeOK, MetaOf
  <2>5. ControlInv'
    BY <1>1, <1>2, <1>3, <1>8, <2>1 DEF ControlInv, MetaOf
  <2>6. \A w, i, n : MergeByte(w, i, n)' <=> MergeByte(w, i, n)
    BY <1>2, <2>1 DEF MergeByte, Covers, MergeBuffer
  <2>7. \A place, w, n : ComesTo(place, w, n)' <=> ComesTo(place, w, n)
    BY <1>2, <2>6 DEF ComesTo, IsAt, MergeBuffer
  <2>8. StreamInv'
    <3>1. \A copy : Merges(copy)' <=> Merges(copy)
      BY <1>2, <1>8 DEF Merges, MergeBuffer
    <3>2. \A j : Packs(j)' <=> Packs(j)
      BY <1>2, <2>1, <2>7 DEF Packs, PacksEntry
    <3> QED BY <1>1, <2>1, <3>1, <3>2 DEF StreamInv
  <2>9. MergeInv'
    <3>1. ASSUME NEW w \in Weights, NEW i \in 0..(sizes[w] - 1), sizes[w] > EngineBucket,
                 w <= WholeAt(Yielded)' \/ (w = WholeAt(Yielded)' + 1 /\ i < PartAt(Yielded)')
          PROVE  MergeByte(w, i, Len(stream))
      <4>1. w \in Nat /\ w # c.w /\ sizes[w] \in Nat
        BY <1>1, <1>6, <1>15, <3>1, WeightsKnown
      <4>2. w <= WholeAt(Yielded)
        BY <1>6, <1>10, <2>2, <3>1, <4>1
      <4> QED BY <1>1, <3>1, <4>2 DEF MergeInv
    <3>2. \A w, i : MergeByte(w, i, Len(stream))' <=> MergeByte(w, i, Len(stream))
      BY <2>1, <2>6
    <3> QED BY <1>2, <1>8, <3>1, <3>2 DEF MergeInv
  <2>10. IpcInv'
    <3>1. \A place, w : IsAt(place, w)' <=> IsAt(place, w)
      BY <1>2 DEF IsAt
    <3>2. ComesTo(weight.at, weight.w, Len(stream))'
      <4>1. PICK place : place = from
        OBVIOUS
      <4>2. weight'.at = place /\ weight'.w = c.w /\ place[1] = <<"recv", 1 - recvBuf>> /\ place[2] = e.offset
        BY <2>1, <4>1
      <4>3. IsAt(place, c.w)
        <5>1. \A i \in 0..(sizes[c.w] - 1) : i \in 0..(c.size - 1) /\ c.chunkOffset + i = i
          BY <1>6, <2>2
        <5> QED BY <1>7, <4>2, <5>1 DEF IsAt
      <4>4. \A n : ComesTo(place, c.w, n)
        BY <4>2, <4>3 DEF ComesTo
      <4>5. \A n : ComesTo(place, c.w, n)'
        BY <2>7, <4>4
      <4> QED BY <4>2, <4>5
    <3>3. \A x, y : PacksEntry(x, y)' <=> PacksEntry(x, y)
      BY <1>2 DEF PacksEntry
    <3> QED BY <1>1, <1>2, <2>1, <3>1, <3>2, <3>3 DEF IpcInv, IpcBuffer
  <2> QED BY <1>9, <1>12, <1>14, <2>2, <2>3, <2>4, <2>5, <2>8, <2>9, <2>10 DEF TransferInv
<1>16. CASE sizes[c.w] > EngineBucket
  <2> DEFINE copy == [from |-> from, size |-> c.size, to |-> <<MergeBuffer(c.w), c.chunkOffset>>]
             S == [from : Places, size : Nat, to : Places]
  <2>1. /\ stream' = Append(stream, copy)
        /\ weight' = IF Ends(c) THEN [w |-> c.w, at |-> <<MergeBuffer(c.w), 0>>] ELSE NoOp
        /\ from = <<<<"recv", 1 - recvBuf>>, e.offset>>
    <3>1. ~(sizes[c.w] <= EngineBucket)
      BY <1>6, <1>16
    <3> QED BY <1>4, <1>5, <3>1 DEF YieldChunk, Ends
  <2>2. copy \in S /\ stream \in Seq(S)
    <3>1. recvBuf \in {0, 1} /\ 1 - recvBuf \in Nat /\ stream \in Seq(S)
      BY <1>1 DEF TransferTypeOK
    <3>2. from \in Places /\ <<MergeBuffer(c.w), c.chunkOffset>> \in Places
      BY <1>4, <1>6, <2>1, <3>1 DEF Places, MergeBuffer
    <3> QED BY <1>6, <3>1, <3>2
  <2>3. weight' \in PlacedWeights \cup {NoOp} /\ (Ends(c) => weight' # NoOp /\ weight'.w = c.w)
    <3>1. [w |-> c.w, at |-> <<MergeBuffer(c.w), 0>>] \in PlacedWeights
      BY <1>6 DEF PlacedWeights, Places, MergeBuffer
    <3> QED BY <2>1, <3>1, TransferAssumption
  <2>4. PICK d \in S : d = copy
    BY <2>2
  <2>5. /\ d.from[1] = <<"recv", 1 - recvBuf>> /\ d.from[2] = e.offset /\ d.size = c.size
        /\ d.to = <<MergeBuffer(c.w), c.chunkOffset>> /\ d.to[1] = MergeBuffer(c.w) /\ d.to[2] = c.chunkOffset
    BY <2>1, <2>4
  <2> HIDE DEF copy, from
  <2>6. /\ Len(stream) \in Nat /\ DOMAIN stream = 1..Len(stream)
        /\ DOMAIN stream' = 1..(Len(stream) + 1) /\ Len(stream') = Len(stream) + 1
        /\ stream'[Len(stream) + 1] = d /\ \A j \in 1..Len(stream) : stream'[j] = stream[j]
        /\ \A w, i : \A n \in 0..Len(stream) : \A m \in Nat :
             n <= m /\ MergeByte(w, i, n) => MergeByte(w, i, m)'
        /\ \A place, w : \A n \in 0..Len(stream) : \A m \in Nat :
             n <= m /\ ComesTo(place, w, n) => ComesTo(place, w, m)'
        /\ \A j \in 1..Len(stream) :
             Merges(stream[j]) \/ Packs(j) => (Merges(stream[j]) \/ Packs(j))'
    <3>1. \A k \in DOMAIN ipcMeta : k \in DOMAIN ipcMeta' /\ ipcMeta'[k] = ipcMeta[k]
      BY <1>2
    <3>2. stream' = Append(stream, d)
      BY <2>1, <2>4
    <3> HIDE DEF S
    <3> QED BY <1>2, <2>2, <3>1, <3>2, StreamGrows
  <2>7. TransferTypeOK'
    <3>1. stream' \in Seq(S)
      BY <2>1, <2>2, AppendProperties
    <3> QED BY <1>1, <1>2, <1>8, <1>12, <2>3, <3>1 DEF TransferTypeOK, MetaOf
  <2>8. ControlInv'
    BY <1>1, <1>2, <1>3, <1>8, <2>1 DEF ControlInv, MetaOf
  <2>9. StreamInv'
    <3>1. Merges(d)
      BY <1>6, <1>7, <2>5 DEF Merges
    <3>2. Merges(d)'
      BY <1>2, <1>8, <3>1 DEF Merges, MergeBuffer
    <3>3. \A j \in DOMAIN stream' : j \in 1..Len(stream) \/ j = Len(stream) + 1
      BY <2>6
    <3>4. ASSUME NEW j \in DOMAIN stream' PROVE (Merges(stream[j]) \/ Packs(j))'
      <4>1. CASE j \in 1..Len(stream)
        BY <1>1, <2>6, <4>1 DEF StreamInv
      <4>2. CASE j = Len(stream) + 1
        <5>1. stream'[j] = d
          BY <2>6, <4>2
        <5> QED BY <3>2, <5>1
      <4> QED BY <3>3, <4>1, <4>2
    <3> QED BY <3>4 DEF StreamInv
  <2>10. \A w : \A i : MergeByte(w, i, Len(stream)) => MergeByte(w, i, Len(stream))'
    <3>1. PICK n : n = Len(stream)
      OBVIOUS
    <3>2. n \in 0..n /\ n + 1 \in Nat /\ n <= n + 1 /\ Len(stream') = n + 1
      BY <2>6, <3>1
    <3>3. \A w, i : MergeByte(w, i, n) => MergeByte(w, i, n + 1)'
      BY <2>6, <3>1, <3>2
    <3> QED BY <3>1, <3>2, <3>3
  <2>11. \A i \in c.chunkOffset..(c.chunkOffset + c.size - 1) : MergeByte(c.w, i, Len(stream))'
    <3>1. ASSUME NEW i \in c.chunkOffset..(c.chunkOffset + c.size - 1)
          PROVE  Covers(stream[Len(stream)], c.w, i)'
      <4>1. stream'[Len(stream')] = d
        BY <2>6
      <4>2. d.to[2] <= i /\ i < d.to[2] + d.size
        BY <1>6, <2>5, <3>1
      <4> QED BY <2>5, <4>1, <4>2 DEF Covers, MergeBuffer
    <3>2. Len(stream') \in 1..Len(stream')
      BY <2>6
    <3> QED BY <3>1, <3>2 DEF MergeByte
  <2>12. MergeInv'
    <3>1. ASSUME NEW w \in Weights, NEW i \in 0..(sizes[w] - 1), sizes[w] > EngineBucket,
                 w <= WholeAt(Yielded)' \/ (w = WholeAt(Yielded)' + 1 /\ i < PartAt(Yielded)')
          PROVE  MergeByte(w, i, Len(stream))'
      <4>1. w \in Nat /\ sizes[w] \in Nat /\ i \in Nat
        BY <1>1, WeightsKnown
      <4>2. CASE w <= WholeAt(Yielded) \/ (w = WholeAt(Yielded) + 1 /\ i < PartAt(Yielded))
        BY <1>1, <2>10, <3>1, <4>2 DEF MergeInv
      <4>3. CASE w = c.w /\ i >= c.chunkOffset
        <5>1. i < c.chunkOffset + c.size
          BY <1>6, <1>10, <3>1, <4>1, <4>3 DEF Ends
        <5>2. i \in c.chunkOffset..(c.chunkOffset + c.size - 1)
          BY <1>6, <4>1, <4>3, <5>1
        <5> QED BY <2>11, <4>3, <5>2
      <4>4. w <= WholeAt(Yielded) \/ w = c.w
        BY <1>6, <1>10, <3>1, <4>1
      <4> QED BY <1>6, <4>1, <4>2, <4>3, <4>4
    <3> QED BY <1>2, <1>8, <3>1 DEF MergeInv
  <2>13. IpcInv'
    <3>1. \A place, w : IsAt(place, w)' <=> IsAt(place, w)
      BY <1>2 DEF IsAt
    <3>2. weight' # NoOp => ComesTo(weight.at, weight.w, Len(stream))'
      <4>1. ASSUME Ends(c) PROVE ComesTo(<<MergeBuffer(c.w), 0>>, c.w, Len(stream))'
        <5>1. ASSUME NEW i \in 0..(sizes[c.w] - 1) PROVE MergeByte(c.w, i, Len(stream))'
          <6>1. CASE i < c.chunkOffset
            BY <1>1, <1>6, <1>16, <2>10, <6>1 DEF MergeInv
          <6>2. CASE i >= c.chunkOffset
            <7>1. i \in c.chunkOffset..(c.chunkOffset + c.size - 1)
              BY <1>6, <4>1, <6>2 DEF Ends
            <7> QED BY <2>11, <7>1
          <6> QED BY <1>6, <6>1, <6>2
        <5> QED BY <1>2, <5>1 DEF ComesTo, MergeBuffer
      <4>2. weight' # NoOp => Ends(c) /\ weight'.at = <<MergeBuffer(c.w), 0>> /\ weight'.w = c.w
        BY <2>1
      <4> QED BY <4>1, <4>2 DEF MergeBuffer
    <3>3. \A x, y : PacksEntry(x, y)' <=> PacksEntry(x, y)
      BY <1>2 DEF PacksEntry
    <3>4. \A j \in DOMAIN stream : j \in DOMAIN stream' /\ stream'[j] = stream[j]
      BY <2>6
    <3> QED BY <1>1, <1>2, <3>1, <3>2, <3>3, <3>4 DEF IpcInv, IpcBuffer
  <2>14. OrderInv'
    <3>1. CASE Ends(c)
      BY <1>14, <2>3, <3>1
    <3>2. CASE ~Ends(c)
      <4>1. weight' = NoOp /\ ~Ends(c)
        BY <2>1, <3>2
      <4>2. (weight' = NoOp /\ ~Ends(c)) \/ (weight' # NoOp /\ weight'.w = c.w /\ Ends(c))
        BY ONLY <4>1
      <4> QED BY <1>14, <4>2
    <3> QED BY <3>1, <3>2
  <2> QED BY <1>9, <1>12, <2>7, <2>8, <2>9, <2>12, <2>13, <2>14 DEF TransferInv
<1> QED BY <1>6, <1>15, <1>16

-----------------------------------------------------------------------------
(* The steps towards the inference worker *)

\* A weight is packed, by a copy that may run later.
LEMMA PackWeightKeeps ==
  ASSUME TransferInv, PackWeight
  PROVE  TransferInv'
<1>1. /\ TransferTypeOK /\ ControlInv /\ RunsInv /\ EngineInv /\ OrderInv
      /\ StreamInv /\ MergeInv /\ IpcInv /\ MessageInv
  BY DEF TransferInv
<1>2. /\ weight # NoOp /\ message = NoOp /\ ipcOffset + sizes[weight.w] <= ipcBucket
      /\ stream' = Append(stream, [from |-> weight.at, size |-> sizes[weight.w], to |-> <<IpcBuffer, ipcOffset>>])
      /\ ipcMeta' = Append(ipcMeta, [w |-> weight.w, at |-> <<IpcBuffer, ipcOffset>>])
      /\ ipcOffset' = ipcOffset + sizes[weight.w] /\ weight' = NoOp
      /\ UNCHANGED <<sizes, ipcBucket, mem, op, arrived, message>>
      /\ UNCHANGED <<sndPc, nextChunk, fill, bucketMeta, offset, rcvPc, recvBuf, posted, metadata, index,
                     loaded, received>>
  BY DEF PackWeight, Fits, sender, receiver, worker
<1>3. PICK w \in Weights, at \in Places : weight = [w |-> w, at |-> at] /\ weight.w = w /\ weight.at = at
  <2>1. weight \in PlacedWeights /\ weight.w \in Weights
    BY <1>1, <1>2, WeightsKnown DEF TransferTypeOK
  <2> QED BY <2>1 DEF PlacedWeights
<1>4. /\ w \in Nat /\ sizes[w] \in Nat /\ sizes[w] >= 1
      /\ ipcOffset \in Nat /\ ipcBucket \in Nat /\ ipcOffset + sizes[w] <= ipcBucket
  BY <1>1, <1>2, <1>3, WeightsKnown DEF TransferTypeOK
<1> DEFINE to == <<IpcBuffer, ipcOffset>>
           S == [from : Places, size : Nat, to : Places]
<1>0. PICK dest \in Places : dest = to
  <2>1. to \in Places
    BY <1>4 DEF Places, IpcBuffer
  <2> QED BY <2>1
<1>5. PICK d \in S : /\ d = [from |-> at, size |-> sizes[w], to |-> dest]
                     /\ d.from = at /\ d.size = sizes[w] /\ d.to = dest
  <2> DEFINE d == [from |-> at, size |-> sizes[w], to |-> dest]
  <2>1. d \in S
    BY <1>0, <1>3, <1>4
  <2>2. d.from = at /\ d.size = sizes[w] /\ d.to = dest
    OBVIOUS
  <2> HIDE DEF S
  <2> QED BY <2>1, <2>2
<1>6. PICK e \in PlacedWeights : e = [w |-> w, at |-> dest] /\ e.w = w /\ e.at = dest
  <2> DEFINE e == [w |-> w, at |-> dest]
  <2>1. e \in PlacedWeights
    BY <1>0, <1>4 DEF PlacedWeights
  <2>2. e.w = w /\ e.at = dest
    OBVIOUS
  <2> QED BY <2>1, <2>2
<1>7. dest[1] = IpcBuffer /\ dest[2] = ipcOffset
  BY <1>0
<1>8. stream' = Append(stream, d) /\ ipcMeta' = Append(ipcMeta, e) /\ stream \in Seq(S)
  BY <1>0, <1>1, <1>2, <1>3, <1>5, <1>6 DEF TransferTypeOK
<1> HIDE DEF to
<1>9. /\ Len(ipcMeta) \in Nat /\ DOMAIN ipcMeta = 1..Len(ipcMeta)
      /\ ipcMeta' \in Seq(PlacedWeights) /\ Len(ipcMeta') = Len(ipcMeta) + 1
      /\ DOMAIN ipcMeta' = 1..(Len(ipcMeta) + 1)
      /\ \A k \in 1..Len(ipcMeta) : ipcMeta'[k] = ipcMeta[k]
      /\ ipcMeta'[Len(ipcMeta) + 1] = e
  <2>1. ipcMeta \in Seq(PlacedWeights)
    BY <1>1 DEF TransferTypeOK
  <2>2. Len(ipcMeta) \in Nat /\ DOMAIN ipcMeta = 1..Len(ipcMeta)
    BY <2>1, LenProperties
  <2>3. /\ ipcMeta' \in Seq(PlacedWeights) /\ Len(ipcMeta') = Len(ipcMeta) + 1
        /\ \A k \in 1..Len(ipcMeta) : ipcMeta'[k] = ipcMeta[k]
        /\ ipcMeta'[Len(ipcMeta) + 1] = e
    BY <1>8, <2>1, AppendProperties
  <2> QED BY <2>2, <2>3, LenProperties
<1>10. /\ Len(stream) \in Nat /\ DOMAIN stream = 1..Len(stream)
       /\ DOMAIN stream' = 1..(Len(stream) + 1) /\ Len(stream') = Len(stream) + 1
       /\ stream'[Len(stream) + 1] = d /\ \A j \in 1..Len(stream) : stream'[j] = stream[j]
       /\ \A v, i : \A n \in 0..Len(stream) : \A m \in Nat :
            n <= m /\ MergeByte(v, i, n) => MergeByte(v, i, m)'
       /\ \A place, v : \A n \in 0..Len(stream) : \A m \in Nat :
            n <= m /\ ComesTo(place, v, n) => ComesTo(place, v, m)'
       /\ \A j \in 1..Len(stream) :
            Merges(stream[j]) \/ Packs(j) => (Merges(stream[j]) \/ Packs(j))'
  <2>1. \A k \in DOMAIN ipcMeta : k \in DOMAIN ipcMeta' /\ ipcMeta'[k] = ipcMeta[k]
    BY <1>9
  <2> HIDE DEF S
  <2> QED BY <1>2, <1>5, <1>8, <2>1, StreamGrows
<1>11. /\ Chunks' = Chunks /\ Weights' = Weights /\ Buffers' = Buffers /\ LoadedWeights' = LoadedWeights
       /\ \A k : WholeAt(k)' = WholeAt(k) /\ PartAt(k)' = PartAt(k)
  BY <1>2, SameModel
<1>12. RunsInv' /\ EngineInv' /\ Yielded' = Yielded
  <2>1. RunsInv' /\ EngineInv' /\ BeyondMetadata' = BeyondMetadata
    BY <1>1, <1>2, UpstreamKept
  <2> QED BY <1>2, <2>1 DEF Yielded
<1>13. WholeAt(Yielded)' = WholeAt(Yielded) /\ PartAt(Yielded)' = PartAt(Yielded)
  BY <1>11, <1>12 DEF WholeAt, PartAt
<1>14. Entries = <<>> /\ Entries' = <<>> /\ Len(<<>>) = 0 /\ DOMAIN <<>> = {}
  BY <1>2 DEF Entries
<1>15. TransferTypeOK'
  <2>1. MemoryOK'
    BY <1>1, <1>2, MemoryKept DEF TransferTypeOK, MemoryOK
  <2>2. stream' \in Seq(S)
    BY <1>8, AppendProperties
  <2>3. ipcOffset' \in 0..ipcBucket
    BY <1>2, <1>3, <1>4
  <2> QED BY <1>1, <1>2, <1>9, <1>11, <2>1, <2>2, <2>3 DEF TransferTypeOK, MetaOf
<1>16. ControlInv'
  <2>1. rcvPc = "yield"
    BY <1>1, <1>2 DEF ControlInv
  <2> QED BY <1>1, <1>2, <1>11, <2>1 DEF ControlInv, MetaOf
<1>17. OrderInv'
  <2>1. Len(loaded) \in Nat
    BY <1>1, Counts
  <2>2. w = Len(loaded) + Len(ipcMeta) + 1 /\ WholeAt(Yielded) = Len(loaded) + Len(ipcMeta) + 1 /\ ~received
    <3>1. Len(Entries) = 0
      BY <1>14
    <3>2. /\ weight.w = Len(loaded) + Len(Entries) + Len(ipcMeta) + 1
          /\ WholeAt(Yielded) = Len(loaded) + Len(Entries) + Len(ipcMeta) + 1
      BY <1>1, <1>2 DEF OrderInv
    <3>3. ~received
      BY <1>1, <1>2 DEF OrderInv, ControlInv
    <3> QED BY <1>3, <1>9, <2>1, <3>1, <3>2, <3>3
  <2>3. \A k \in DOMAIN ipcMeta' : ipcMeta'[k].w = Len(loaded) + Len(<<>>) + k
    <3>1. \A k \in 1..Len(ipcMeta) : ipcMeta[k].w = Len(loaded) + k
      <4>1. Len(Entries) = 0
        BY <1>14
      <4>2. \A k \in 1..Len(ipcMeta) : ipcMeta[k].w = Len(loaded) + Len(Entries) + k
        BY <1>1, <1>9 DEF OrderInv
      <4> QED BY <1>9, <2>1, <4>1, <4>2
    <3>2. ASSUME NEW k \in 1..(Len(ipcMeta) + 1) PROVE ipcMeta'[k].w = Len(loaded) + k
      <4>1. CASE k = Len(ipcMeta) + 1
        <5>1. ipcMeta'[k] = e /\ e.w = w
          BY <1>6, <1>9, <4>1
        <5> QED BY <1>9, <2>1, <2>2, <4>1, <5>1
      <4>2. CASE k \in 1..Len(ipcMeta)
        BY <1>9, <3>1, <4>2
      <4> QED BY <1>9, <4>1, <4>2
    <3> QED BY <1>9, <1>14, <2>1, <3>2
  <2> QED BY <1>1, <1>2, <1>9, <1>13, <1>14, <2>1, <2>2, <2>3 DEF OrderInv
<1>18. StreamInv'
  <2>1. ComesTo(at, w, Len(stream))
    BY <1>1, <1>2, <1>3 DEF IpcInv
  <2>2. ASSUME NEW j \in DOMAIN stream' PROVE (Merges(stream[j]) \/ Packs(j))'
    <3>1. CASE j \in 1..Len(stream)
      BY <1>1, <1>10, <3>1 DEF StreamInv
    <3>2. CASE j = Len(stream) + 1
      <4>1. stream'[j] = d /\ j - 1 \in 0..Len(stream) /\ j - 1 = Len(stream) /\ j - 1 \in Nat
        BY <1>10, <3>2
      <4>2. PICK k : k = Len(ipcMeta) + 1
        OBVIOUS
      <4>3. k \in DOMAIN ipcMeta' /\ ipcMeta'[k] = e
        BY <1>9, <4>2
      <4>4. PacksEntry(stream[j], ipcMeta[k])'
        BY <1>2, <1>5, <1>6, <4>1, <4>3 DEF PacksEntry
      <4>5. ComesTo(at, w, j - 1)'
        BY <1>10, <2>1, <4>1
      <4>6. ComesTo(stream[j].from, ipcMeta[k].w, j - 1)'
        BY <1>5, <1>6, <4>1, <4>3, <4>5
      <4> QED BY <4>3, <4>4, <4>6 DEF Packs
    <3> QED BY <1>10, <3>1, <3>2
  <2> QED BY <2>2 DEF StreamInv
<1>19. MergeInv'
  <2>1. \A v, i : MergeByte(v, i, Len(stream)) => MergeByte(v, i, Len(stream))'
    <3>1. PICK n : n = Len(stream)
      OBVIOUS
    <3>2. n \in 0..n /\ n + 1 \in Nat /\ n <= n + 1 /\ Len(stream') = n + 1
      BY <1>10, <3>1
    <3>3. \A v, i : MergeByte(v, i, n) => MergeByte(v, i, n + 1)'
      BY <1>10, <3>1, <3>2
    <3> QED BY <3>1, <3>2, <3>3
  <2> QED BY <1>1, <1>2, <1>11, <1>13, <2>1 DEF MergeInv
<1>20. IpcInv'
  <2>1. \A place, v : IsAt(place, v)' <=> IsAt(place, v)
    BY <1>2 DEF IsAt
  <2>2. \A x, y : PacksEntry(x, y)' <=> PacksEntry(x, y)
    BY <1>2 DEF PacksEntry
  <2>3. \A j \in DOMAIN stream : j \in DOMAIN stream' /\ stream'[j] = stream[j]
    BY <1>10
  <2>4. ipcOffset' = ipcOffset + sizes[w] /\ IpcBuffer' = IpcBuffer
    BY <1>2, <1>3 DEF IpcBuffer
  <2>5. \A k \in 1..Len(ipcMeta) : /\ ipcMeta[k] \in PlacedWeights
                                   /\ ipcMeta[k].at[2] \in Nat /\ sizes[ipcMeta[k].w] \in Nat
                                   /\ ipcMeta[k].at[2] + sizes[ipcMeta[k].w] <= ipcOffset
    <3>1. \A k \in 1..Len(ipcMeta) : ipcMeta[k] \in PlacedWeights /\ ipcMeta[k].w \in Weights
      BY <1>1, <1>9, WeightsKnown, ElementOfSeq DEF TransferTypeOK
    <3>2. \A x \in PlacedWeights : x.at[2] \in Nat
      BY DEF PlacedWeights, Places
    <3> QED BY <1>1, <1>9, <3>1, <3>2, WeightsKnown DEF IpcInv
  <2>6. ASSUME NEW k \in 1..(Len(ipcMeta) + 1)
        PROVE  /\ ipcMeta'[k].at[1] = IpcBuffer /\ ipcMeta'[k].at[2] + sizes[ipcMeta'[k].w] <= ipcOffset'
               /\ \/ IsAt(ipcMeta[k].at, ipcMeta[k].w)'
                  \/ \E j \in DOMAIN stream' : PacksEntry(stream[j], ipcMeta[k])'
    <3>1. CASE k = Len(ipcMeta) + 1
      <4>1. ipcMeta'[k] = e
        BY <1>9, <3>1
      <4>2. PICK j : j = Len(stream) + 1
        OBVIOUS
      <4>3. j \in DOMAIN stream' /\ stream'[j] = d
        BY <1>10, <4>2
      <4>4. PacksEntry(stream[j], ipcMeta[k])'
        BY <1>2, <1>5, <1>6, <4>1, <4>3 DEF PacksEntry
      <4> QED BY <1>4, <1>6, <1>7, <2>4, <4>1, <4>3, <4>4
    <3>2. CASE k \in 1..Len(ipcMeta)
      <4>1. ipcMeta'[k] = ipcMeta[k] /\ ipcMeta[k].at[1] = IpcBuffer
        BY <1>1, <1>9, <3>2 DEF IpcInv
      <4>2. ipcMeta[k].at[2] + sizes[ipcMeta[k].w] <= ipcOffset'
        <5>1. PICK x, y : x = ipcMeta[k].at[2] + sizes[ipcMeta[k].w] /\ y = sizes[w]
          OBVIOUS
        <5>2. x \in Nat /\ y \in Nat /\ ipcOffset \in Nat /\ x <= ipcOffset
          BY <1>4, <2>5, <3>2, <5>1
        <5>3. ipcOffset' = ipcOffset + y
          BY <2>4, <5>1
        <5> QED BY <5>1, <5>2, <5>3
      <4>3. PICK x : x = ipcMeta[k]
        OBVIOUS
      <4>4. IsAt(x.at, x.w) \/ \E j \in DOMAIN stream : PacksEntry(stream[j], x)
        BY <1>1, <1>9, <3>2, <4>3 DEF IpcInv
      <4>5. IsAt(x.at, x.w)' \/ \E j \in DOMAIN stream' : PacksEntry(stream[j], x)'
        BY <2>1, <2>2, <2>3, <4>4
      <4> QED BY <4>1, <4>2, <4>3, <4>5
    <3> QED BY <1>9, <3>1, <3>2
  <2>7. ASSUME NEW k \in 1..(Len(ipcMeta) + 1), NEW l \in 1..(Len(ipcMeta) + 1), k < l
        PROVE  ipcMeta'[k].at[2] + sizes[ipcMeta'[k].w] <= ipcMeta'[l].at[2]
    <3>1. k \in 1..Len(ipcMeta) /\ ipcMeta'[k] = ipcMeta[k]
      BY <1>9, <2>7
    <3>2. CASE l = Len(ipcMeta) + 1
      BY <1>6, <1>7, <1>9, <2>5, <3>1, <3>2
    <3>3. CASE l \in 1..Len(ipcMeta)
      BY <1>1, <1>9, <2>7, <3>1, <3>3 DEF IpcInv
    <3> QED BY <1>9, <3>2, <3>3
  <2> QED BY <1>2, <1>9, <2>4, <2>6, <2>7 DEF IpcInv
<1>21. MessageInv'
  BY <1>14 DEF MessageInv
<1> QED BY <1>12, <1>15, <1>16, <1>17, <1>18, <1>19, <1>20, <1>21 DEF TransferInv

\* What is in the bucket of the ipc stage goes into the message, once its
\* copies have run.  When it is the last, every weight is in it or has been loaded.
LEMMA BucketSent ==
  ASSUME TransferInv, NEW last \in BOOLEAN, message = NoOp, stream = <<>>,
         Send(ipcMeta, last), ipcMeta' = <<>>, ipcOffset' = 0,
         UNCHANGED <<sizes, ipcBucket, mem, sndPc, nextChunk, fill, bucketMeta, offset, op>>,
         UNCHANGED <<recvBuf, posted, metadata, index, arrived, weight, stream, loaded, received>>,
         \/ last = FALSE /\ rcvPc = "yield" /\ rcvPc' = "yield"
         \/ last = TRUE /\ rcvPc = "flush" /\ rcvPc' = "done"
  PROVE  TransferInv'
<1>1. /\ TransferTypeOK /\ ControlInv /\ RunsInv /\ EngineInv /\ OrderInv
      /\ StreamInv /\ MergeInv /\ IpcInv /\ MessageInv
  BY DEF TransferInv
<1>2. /\ message' \in Messages /\ message' # NoOp /\ Entries' = ipcMeta /\ message'.isLast = last
      /\ ipcMeta \in Seq(PlacedWeights)
  <2>1. ipcMeta \in Seq(PlacedWeights) /\ message' = [entries |-> ipcMeta, isLast |-> last]
    BY <1>1 DEF TransferTypeOK, Send
  <2>2. message' \in Messages /\ message'.entries = ipcMeta /\ message'.isLast = last
    BY <2>1 DEF Messages
  <2>3. message' # NoOp
    BY <2>2, TransferAssumption
  <2> QED BY <2>1, <2>2, <2>3 DEF Entries
<1>3. /\ Chunks' = Chunks /\ Weights' = Weights /\ Buffers' = Buffers /\ LoadedWeights' = LoadedWeights
      /\ \A k : WholeAt(k)' = WholeAt(k) /\ PartAt(k)' = PartAt(k)
  BY SameModel
<1>4. RunsInv' /\ EngineInv' /\ Yielded' = Yielded
  <2>1. RunsInv' /\ EngineInv' /\ BeyondMetadata' = BeyondMetadata
    BY <1>1, UpstreamKept
  <2> QED BY <2>1 DEF Yielded
<1>5. WholeAt(Yielded)' = WholeAt(Yielded) /\ PartAt(Yielded)' = PartAt(Yielded)
  BY <1>3, <1>4 DEF WholeAt, PartAt
<1>6. /\ Entries = <<>> /\ Len(Entries) = 0 /\ DOMAIN stream = {} /\ DOMAIN stream' = {}
      /\ <<>> \in Seq(PlacedWeights) /\ Len(<<>>) = 0 /\ DOMAIN ipcMeta' = {} /\ Len(ipcMeta') = 0
  <2>1. DOMAIN <<>> = {} /\ Len(<<>>) = 0 /\ <<>> \in Seq(PlacedWeights)
    BY EmptySeq
  <2> QED BY <2>1 DEF Entries
<1>7. TransferTypeOK'
  <2>1. MemoryOK'
    BY <1>1, MemoryKept DEF TransferTypeOK, MemoryOK
  <2>2. 0 \in 0..ipcBucket
    BY <1>1 DEF TransferTypeOK
  <2> QED BY <1>1, <1>2, <1>3, <1>6, <2>1, <2>2 DEF TransferTypeOK, MetaOf
<1>8. rcvPc = "flush" => weight = NoOp /\ WholeAt(Yielded) = Len(sizes)
  <2> SUFFICES ASSUME rcvPc = "flush"
               PROVE  weight = NoOp /\ WholeAt(Yielded) = Len(sizes)
    OBVIOUS
  <2>1. weight = NoOp /\ metadata # NoOp /\ metadata.isLast /\ index = Len(metadata.meta) + 1
    BY <1>1 DEF ControlInv
  <2>2. op = NoOp /\ arrived = NoOp /\ nextChunk = Len(Chunks) + 1 /\ bucketMeta = <<>>
    BY <1>1, <2>1 DEF ControlInv
  <2>3. MetaOf(op) = <<>> /\ MetaOf(arrived) = <<>> /\ MetaOf(metadata) = metadata.meta
    BY <2>1, <2>2 DEF MetaOf
  <2>4. Len(Chunks) \in Nat /\ Len(MetaOf(metadata)) \in Nat
    BY <1>1, Counts
  <2>5. Len(bucketMeta) = 0 /\ Len(MetaOf(op)) = 0 /\ Len(MetaOf(arrived)) = 0
    BY <1>6, <2>2, <2>3
  <2>6. BeyondBucket = Len(Chunks)
    BY <2>2, <2>4, <2>5 DEF BeyondBucket
  <2>7. BeyondArrived = Len(Chunks)
    BY <2>4, <2>5, <2>6 DEF BeyondOp, BeyondArrived
  <2>8. Yielded = Len(Chunks)
    BY <2>1, <2>3, <2>4, <2>7 DEF BeyondMetadata, Yielded
  <2>9. WholeAt(Len(Chunks)) = Len(sizes)
    BY <1>1, ChunkFacts DEF TransferTypeOK
  <2> QED BY <2>1, <2>8, <2>9
<1>9. ControlInv'
  BY <1>1, <1>2, <1>3, <1>6 DEF ControlInv, MetaOf
<1>10. OrderInv'
  <2>1. Len(loaded) \in Nat /\ Len(ipcMeta) \in Nat
    BY <1>1, Counts
  <2>2. /\ \A k \in DOMAIN ipcMeta : ipcMeta[k].w = Len(loaded) + k
        /\ weight # NoOp => weight.w = Len(loaded) + Len(ipcMeta) + 1
        /\ WholeAt(Yielded) = Len(loaded) + Len(ipcMeta) + (IF weight = NoOp THEN 0 ELSE 1)
    <3>1. /\ \A k \in DOMAIN ipcMeta : ipcMeta[k].w = Len(loaded) + Len(Entries) + k
          /\ weight # NoOp => weight.w = Len(loaded) + Len(Entries) + Len(ipcMeta) + 1
          /\ WholeAt(Yielded) = Len(loaded) + Len(Entries) + Len(ipcMeta) + (IF weight = NoOp THEN 0 ELSE 1)
      BY <1>1 DEF OrderInv
    <3>2. Len(loaded) + Len(Entries) = Len(loaded)
      BY <1>6, <2>1
    <3> QED BY <3>1, <3>2
  <2>3. ~received
    BY <1>1 DEF OrderInv
  <2>4. last => Len(loaded) + Len(ipcMeta) = Len(sizes)
    BY <1>8, <2>1, <2>2
  <2>5. Len(loaded) + Len(ipcMeta) + 0 = Len(loaded) + Len(ipcMeta)
    BY <2>1
  <2> QED BY <1>1, <1>2, <1>5, <1>6, <2>2, <2>3, <2>4, <2>5 DEF OrderInv
<1>11. StreamInv'
  BY <1>6 DEF StreamInv
<1>12. \A w, i, n : MergeByte(w, i, n)' <=> MergeByte(w, i, n)
  BY DEF MergeByte, Covers, MergeBuffer
<1>13. MergeInv'
  BY <1>1, <1>3, <1>5, <1>12 DEF MergeInv
<1>14. IpcInv'
  <2>1. \A place, w, n : ComesTo(place, w, n)' <=> ComesTo(place, w, n)
    BY <1>12 DEF ComesTo, IsAt, MergeBuffer
  <2>2. weight # NoOp => ComesTo(weight.at, weight.w, Len(stream))
    BY <1>1 DEF IpcInv
  <2> QED BY <1>6, <2>1, <2>2 DEF IpcInv
<1>15. MessageInv'
  <2>1. \A k \in DOMAIN ipcMeta : ipcMeta[k].at[1] = IpcBuffer /\ IsAt(ipcMeta[k].at, ipcMeta[k].w)
    BY <1>1, <1>6 DEF IpcInv
  <2>2. \A place, w : IsAt(place, w)' <=> IsAt(place, w)
    BY DEF IsAt
  <2>3. ASSUME NEW k \in DOMAIN Entries'
        PROVE  Entries'[k].at[1] = IpcBuffer /\ IsAt(Entries[k].at, Entries[k].w)'
    <3>1. PICK x : x = ipcMeta[k]
      OBVIOUS
    <3>2. Entries'[k] = x /\ x.at[1] = IpcBuffer /\ IsAt(x.at, x.w)
      BY <1>2, <2>1, <3>1
    <3>3. IsAt(x.at, x.w)'
      BY <2>2, <3>2
    <3> QED BY <3>2, <3>3
  <2> QED BY <2>3 DEF MessageInv, IpcBuffer
<1> QED BY <1>4, <1>7, <1>9, <1>10, <1>11, <1>13, <1>14, <1>15 DEF TransferInv

\* A full bucket is sent.
LEMMA SendBucketKeeps ==
  ASSUME TransferInv, SendBucket
  PROVE  TransferInv'
<1>1. /\ message = NoOp /\ stream = <<>> /\ Send(ipcMeta, FALSE) /\ ipcMeta' = <<>> /\ ipcOffset' = 0
      /\ UNCHANGED <<sizes, ipcBucket, mem, sndPc, nextChunk, fill, bucketMeta, offset, op>>
      /\ UNCHANGED <<rcvPc, recvBuf, posted, metadata, index, arrived, weight, stream, loaded, received>>
  BY DEF SendBucket, sender, receiver, worker
<1>2. rcvPc = "yield"
  BY DEF SendBucket, TransferInv, ControlInv
<1> QED BY <1>1, <1>2, BucketSent

\* The last bucket is sent.
LEMMA SendLastKeeps ==
  ASSUME TransferInv, SendLast
  PROVE  TransferInv'
<1>1. /\ message = NoOp /\ stream = <<>> /\ Send(ipcMeta, TRUE) /\ ipcMeta' = <<>> /\ ipcOffset' = 0
      /\ UNCHANGED <<sizes, ipcBucket, mem, sndPc, nextChunk, fill, bucketMeta, offset, op>>
      /\ UNCHANGED <<recvBuf, posted, metadata, index, arrived, weight, stream, loaded, received>>
      /\ rcvPc = "flush" /\ rcvPc' = "done"
  BY DEF SendLast, sender, worker
<1> QED BY <1>1, BucketSent

\* Once no copies are left to wait for, a weight is where it comes to.
LEMMA HasCome ==
  ASSUME NEW place, NEW w, ComesTo(place, w, 0)
  PROVE  IsAt(place, w) /\ place[1] \in {<<"recv", 1 - recvBuf>>, MergeBuffer(w)}
<1>1. CASE place[1] = <<"recv", 1 - recvBuf>> /\ IsAt(place, w)
  BY <1>1
<1>2. CASE place = <<MergeBuffer(w), 0>> /\ \A i \in 0..(sizes[w] - 1) : MergeByte(w, i, 0)
  <2>1. place[1] = MergeBuffer(w) /\ place[2] = 0
    BY <1>2
  <2>2. \A i \in 0..(sizes[w] - 1) : mem[MergeBuffer(w)][i] = <<w, i>>
    BY <1>2 DEF MergeByte
  <2>3. \A i \in 0..(sizes[w] - 1) : 0 + i = i
    OBVIOUS
  <2> QED BY <2>1, <2>2, <2>3 DEF IsAt
<1> QED BY <1>1, <1>2 DEF ComesTo

\* A weight that does not fit into the bucket of the ipc stage is sent as a handle.
LEMMA SendDirectKeeps ==
  ASSUME TransferInv, SendDirect
  PROVE  TransferInv'
<1>1. /\ TransferTypeOK /\ ControlInv /\ RunsInv /\ EngineInv /\ OrderInv
      /\ StreamInv /\ MergeInv /\ IpcInv /\ MessageInv
  BY DEF TransferInv
<1>2. /\ weight # NoOp /\ message = NoOp /\ stream = <<>> /\ ipcMeta = <<>>
      /\ message' = [entries |-> <<weight>>, isLast |-> FALSE] /\ weight' = NoOp
      /\ UNCHANGED <<sizes, ipcBucket, mem, op, arrived, ipcMeta, ipcOffset, stream>>
      /\ UNCHANGED <<sndPc, nextChunk, fill, bucketMeta, offset, rcvPc, recvBuf, posted, metadata, index,
                     loaded, received>>
  BY DEF SendDirect, Send, sender, receiver, worker
<1>3. weight \in PlacedWeights
  BY <1>1, <1>2 DEF TransferTypeOK
<1>4. PICK x \in PlacedWeights : x = weight
  BY <1>3
<1>5. /\ message' \in Messages /\ message' # NoOp /\ ~message'.isLast
      /\ Entries' = <<x>> /\ Len(<<x>>) = 1 /\ DOMAIN <<x>> = {1} /\ <<x>>[1] = x
  <2>1. <<x>> \in Seq(PlacedWeights) /\ message' = [entries |-> <<x>>, isLast |-> FALSE]
    BY <1>2, <1>4
  <2>2. message' \in Messages /\ message'.entries = <<x>> /\ message'.isLast = FALSE
    BY <2>1 DEF Messages
  <2>3. message' # NoOp
    BY <2>2, TransferAssumption
  <2>4. Len(<<x>>) = 1 /\ DOMAIN <<x>> = {1} /\ <<x>>[1] = x
    OBVIOUS
  <2> QED BY <2>2, <2>3, <2>4 DEF Entries
<1>6. /\ Chunks' = Chunks /\ Weights' = Weights /\ Buffers' = Buffers /\ LoadedWeights' = LoadedWeights
      /\ \A k : WholeAt(k)' = WholeAt(k) /\ PartAt(k)' = PartAt(k)
  BY <1>2, SameModel
<1>7. RunsInv' /\ EngineInv' /\ Yielded' = Yielded
  <2>1. RunsInv' /\ EngineInv' /\ BeyondMetadata' = BeyondMetadata
    BY <1>1, <1>2, UpstreamKept
  <2> QED BY <1>2, <2>1 DEF Yielded
<1>8. WholeAt(Yielded)' = WholeAt(Yielded) /\ PartAt(Yielded)' = PartAt(Yielded)
  BY <1>6, <1>7 DEF WholeAt, PartAt
<1>9. /\ Entries = <<>> /\ Len(Entries) = 0 /\ DOMAIN stream = {} /\ DOMAIN stream' = {} /\ Len(stream) = 0
      /\ Len(ipcMeta) = 0 /\ DOMAIN ipcMeta = {} /\ DOMAIN ipcMeta' = {} /\ Len(ipcMeta') = 0
  BY <1>2 DEF Entries
<1>10. TransferTypeOK'
  <2>1. MemoryOK'
    BY <1>1, <1>2, MemoryKept DEF TransferTypeOK, MemoryOK
  <2> QED BY <1>1, <1>2, <1>5, <1>6, <2>1 DEF TransferTypeOK, MetaOf
<1>11. ControlInv'
  BY <1>1, <1>2, <1>5, <1>6 DEF ControlInv, MetaOf
<1>12. OrderInv'
  <2>1. Len(loaded) \in Nat
    BY <1>1, Counts
  <2>2. /\ weight.w = Len(loaded) + Len(Entries) + Len(ipcMeta) + 1
        /\ WholeAt(Yielded) = Len(loaded) + Len(Entries) + Len(ipcMeta) + 1
    BY <1>1, <1>2 DEF OrderInv
  <2>3. /\ x.w = Len(loaded) + 1 /\ WholeAt(Yielded) = Len(loaded) + Len(<<x>>) + Len(ipcMeta) + 0
    BY <1>4, <1>5, <1>9, <2>1, <2>2
  <2>4. ~received
    BY <1>1, <1>2 DEF OrderInv, ControlInv
  <2>5. \A k \in DOMAIN Entries' : Entries'[k].w = Len(loaded) + k
    <3>1. \A k \in DOMAIN <<x>> : k = 1 /\ <<x>>[k] = x
      BY <1>5
    <3> QED BY <1>5, <2>3, <3>1
  <2> QED BY <1>1, <1>2, <1>5, <1>8, <1>9, <2>3, <2>4, <2>5 DEF OrderInv
<1>13. StreamInv'
  BY <1>9 DEF StreamInv
<1>14. MergeInv'
  <2>1. \A w, i, n : MergeByte(w, i, n)' <=> MergeByte(w, i, n)
    BY <1>2 DEF MergeByte, Covers, MergeBuffer
  <2> QED BY <1>1, <1>2, <1>6, <1>8, <2>1 DEF MergeInv
<1>15. IpcInv'
  BY <1>2, <1>9 DEF IpcInv
<1>16. MessageInv'
  <2>1. ComesTo(x.at, x.w, 0)
    BY <1>1, <1>2, <1>4, <1>9 DEF IpcInv
  <2>2. PICK place, w : place = x.at /\ w = x.w
    OBVIOUS
  <2>3. IsAt(place, w) /\ place[1] \in {<<"recv", 1 - recvBuf>>, MergeBuffer(w)}
    BY <2>1, <2>2, HasCome
  <2>4. IsAt(place, w)'
    BY <1>2, <2>3 DEF IsAt
  <2>5. ASSUME NEW k \in DOMAIN Entries'
        PROVE  Entries'[k].at[1] \in {<<"recv", 1 - recvBuf>>, MergeBuffer(w)} /\ IsAt(Entries[k].at, Entries[k].w)'
               /\ Entries'[k].w = w
    <3>1. Entries'[k] = x
      BY <1>5
    <3> QED BY <2>2, <2>3, <2>4, <3>1
  <2> QED BY <1>2, <2>5 DEF MessageInv, MergeBuffer
<1> QED BY <1>7, <1>10, <1>11, <1>12, <1>13, <1>14, <1>15, <1>16 DEF TransferInv

\* The inference worker loads what is in the message.
LEMMA LoadKeeps ==
  ASSUME TransferInv, Load
  PROVE  TransferInv'
<1>1. /\ TransferTypeOK /\ ControlInv /\ RunsInv /\ EngineInv /\ OrderInv
      /\ StreamInv /\ MergeInv /\ IpcInv /\ MessageInv
  BY DEF TransferInv
<1> DEFINE Loads(entry) == [w |-> entry.w, bytes |-> Read(entry.at, sizes[entry.w])]
<1>2. /\ message # NoOp /\ loaded' = loaded \o [i \in DOMAIN message.entries |-> Loads(message.entries[i])]
      /\ received' = message.isLast /\ message' = NoOp
      /\ UNCHANGED <<sizes, ipcBucket, mem, op, arrived, stream>>
      /\ UNCHANGED <<sndPc, nextChunk, fill, bucketMeta, offset, rcvPc, recvBuf, posted, metadata, index>>
      /\ UNCHANGED <<weight, ipcMeta, ipcOffset>>
  BY DEF Load, sender, receiver, ipc
<1>3. Entries = message.entries /\ Entries' = <<>> /\ Len(<<>>) = 0 /\ DOMAIN <<>> = {}
  BY <1>2 DEF Entries
<1>4. /\ Entries \in Seq(PlacedWeights) /\ Len(Entries) \in Nat /\ DOMAIN Entries = 1..Len(Entries)
      /\ loaded \in Seq(LoadedWeights) /\ Len(loaded) \in Nat /\ DOMAIN loaded = 1..Len(loaded)
  <2>1. Entries \in Seq(PlacedWeights) /\ loaded \in Seq(LoadedWeights)
    BY <1>1, MetaFacts DEF TransferTypeOK
  <2> QED BY <2>1, LenProperties
<1>5. \A k \in DOMAIN Entries : Entries[k].w \in Weights /\ IsAt(Entries[k].at, Entries[k].w)
  BY <1>1, WeightsKnown DEF MessageInv
<1>6. ASSUME NEW k \in DOMAIN Entries
      PROVE  Loads(Entries[k]) \in LoadedWeights /\ Loads(Entries[k]).w = Entries[k].w
  <2>1. Read(Entries[k].at, sizes[Entries[k].w]) = Content(Entries[k].w)
    BY <1>5 DEF Read, Content, IsAt
  <2> QED BY <1>5, <2>1 DEF LoadedWeights
<1> DEFINE more == [i \in DOMAIN Entries |-> Loads(Entries[i])]
<1>7. loaded' = loaded \o more
  BY <1>2, <1>3
<1>8. /\ more \in Seq(LoadedWeights) /\ Len(more) = Len(Entries)
      /\ \A k \in 1..Len(Entries) : more[k].w = Entries[k].w
  <2> HIDE DEF Loads
  <2>1. more = [i \in 1..Len(Entries) |-> Loads(Entries[i])]
    BY <1>4
  <2>2. \A k \in 1..Len(Entries) : Loads(Entries[k]) \in LoadedWeights
    BY <1>4, <1>6
  <2>3. more \in Seq(LoadedWeights)
    BY <1>4, <2>1, <2>2, IsASeq
  <2>4. Len(more) = Len(Entries)
    BY <1>4, <2>1
  <2> QED BY <1>4, <1>6, <2>3, <2>4
<1> HIDE DEF more, Loads
<1>9. /\ loaded' \in Seq(LoadedWeights) /\ Len(loaded') = Len(loaded) + Len(Entries)
      /\ DOMAIN loaded' = 1..(Len(loaded) + Len(Entries))
      /\ \A k \in 1..Len(loaded) : loaded'[k] = loaded[k]
      /\ \A k \in 1..Len(Entries) : loaded'[Len(loaded) + k] = more[k]
  <2>1. /\ loaded \o more \in Seq(LoadedWeights) /\ Len(loaded \o more) = Len(loaded) + Len(more)
        /\ \A i \in 1..(Len(loaded) + Len(more)) :
             (loaded \o more)[i] = IF i <= Len(loaded) THEN loaded[i] ELSE more[i - Len(loaded)]
    <3>1. PICK S, s, t : S = LoadedWeights /\ s = loaded /\ t = more
      OBVIOUS
    <3>2. s \in Seq(S) /\ t \in Seq(S)
      BY <1>4, <1>8, <3>1
    <3>3. /\ s \o t \in Seq(S) /\ Len(s \o t) = Len(s) + Len(t)
          /\ \A i \in 1..(Len(s) + Len(t)) : (s \o t)[i] = IF i <= Len(s) THEN s[i] ELSE t[i - Len(s)]
      BY <3>2, ConcatProperties
    <3> QED BY <3>1, <3>3
  <2>2. /\ loaded' \in Seq(LoadedWeights) /\ Len(loaded') = Len(loaded) + Len(Entries)
        /\ \A i \in 1..(Len(loaded) + Len(Entries)) :
             loaded'[i] = IF i <= Len(loaded) THEN loaded[i] ELSE more[i - Len(loaded)]
    BY <1>7, <1>8, <2>1
  <2>3. DOMAIN loaded' = 1..(Len(loaded) + Len(Entries))
    BY <2>2, LenProperties
  <2>4. \A k \in 1..Len(loaded) : loaded'[k] = loaded[k]
    BY <1>4, <2>2
  <2>5. ASSUME NEW k \in 1..Len(Entries) PROVE loaded'[Len(loaded) + k] = more[k]
    <3>1. Len(loaded) + k \in 1..(Len(loaded) + Len(Entries)) /\ ~(Len(loaded) + k <= Len(loaded))
          /\ (Len(loaded) + k) - Len(loaded) = k
      BY <1>4
    <3> QED BY <2>2, <3>1
  <2> QED BY <2>2, <2>3, <2>4, <2>5
<1>10. /\ Chunks' = Chunks /\ Weights' = Weights /\ Buffers' = Buffers /\ LoadedWeights' = LoadedWeights
       /\ \A k : WholeAt(k)' = WholeAt(k) /\ PartAt(k)' = PartAt(k)
  BY <1>2, SameModel
<1>11. RunsInv' /\ EngineInv' /\ Yielded' = Yielded
  <2>1. RunsInv' /\ EngineInv' /\ BeyondMetadata' = BeyondMetadata
    BY <1>1, <1>2, UpstreamKept
  <2> QED BY <1>2, <2>1 DEF Yielded
<1>12. WholeAt(Yielded)' = WholeAt(Yielded) /\ PartAt(Yielded)' = PartAt(Yielded)
  BY <1>10, <1>11 DEF WholeAt, PartAt
<1>13. TransferTypeOK'
  <2>1. MemoryOK'
    BY <1>1, <1>2, MemoryKept DEF TransferTypeOK, MemoryOK
  <2>2. message.isLast \in BOOLEAN
    BY <1>1, <1>2 DEF TransferTypeOK, Messages
  <2> QED BY <1>1, <1>2, <1>9, <1>10, <2>1, <2>2 DEF TransferTypeOK, MetaOf
<1>14. ControlInv'
  BY <1>1, <1>2, <1>10 DEF ControlInv, MetaOf
<1>15. OrderInv'
  <2>1. ASSUME NEW k \in DOMAIN loaded' PROVE loaded'[k].w = k
    <3>1. CASE k \in 1..Len(loaded)
      BY <1>1, <1>4, <1>9, <3>1 DEF OrderInv
    <3>2. CASE k - Len(loaded) \in 1..Len(Entries)
      <4>1. loaded'[Len(loaded) + (k - Len(loaded))].w = Entries[k - Len(loaded)].w
        BY <1>8, <1>9, <3>2
      <4>2. Entries[k - Len(loaded)].w = Len(loaded) + (k - Len(loaded))
        BY <1>1, <1>4, <3>2 DEF OrderInv
      <4>3. k \in Int /\ Len(loaded) + (k - Len(loaded)) = k
        BY <1>4, <1>9
      <4> QED BY <4>1, <4>2, <4>3
    <3> QED BY <1>4, <1>9, <3>1, <3>2
  <2>2. /\ Len(loaded') + Len(<<>>) = Len(loaded) + Len(Entries)
    BY <1>3, <1>4, <1>9
  <2>3. message.isLast => rcvPc = "done" /\ Len(loaded') = Len(sizes)
    BY <1>1, <1>2, <1>9 DEF OrderInv
  <2>4. /\ \A k \in DOMAIN ipcMeta : ipcMeta[k].w = Len(loaded) + Len(Entries) + k
        /\ weight # NoOp => weight.w = Len(loaded) + Len(Entries) + Len(ipcMeta) + 1
        /\ WholeAt(Yielded) = Len(loaded) + Len(Entries) + Len(ipcMeta) + (IF weight = NoOp THEN 0 ELSE 1)
    BY <1>1 DEF OrderInv
  <2>5. /\ \A k \in DOMAIN ipcMeta' : ipcMeta'[k].w = Len(loaded') + Len(Entries') + k
        /\ weight' # NoOp => weight'.w = Len(loaded') + Len(Entries') + Len(ipcMeta') + 1
        /\ WholeAt(Yielded)' = Len(loaded') + Len(Entries') + Len(ipcMeta') + (IF weight' = NoOp THEN 0 ELSE 1)
    <3>1. Len(loaded') + Len(Entries') = Len(loaded) + Len(Entries)
      BY <1>3, <2>2
    <3>2. ipcMeta' = ipcMeta /\ weight' = weight
      BY <1>2
    <3>3. \A k \in DOMAIN ipcMeta' : ipcMeta'[k].w = Len(loaded') + Len(Entries') + k
      BY <2>4, <3>1, <3>2
    <3>4. weight' # NoOp => weight'.w = Len(loaded') + Len(Entries') + Len(ipcMeta') + 1
      BY <2>4, <3>1, <3>2
    <3>5. WholeAt(Yielded)' = Len(loaded') + Len(Entries') + Len(ipcMeta') + (IF weight' = NoOp THEN 0 ELSE 1)
      BY <1>12, <2>4, <3>1, <3>2
    <3> QED BY <3>3, <3>4, <3>5
  <2>6. \A k \in DOMAIN Entries' : Entries'[k].w = Len(loaded') + k
    BY <1>3
  <2>7. received' => rcvPc' = "done" /\ message' = NoOp /\ Len(loaded') = Len(sizes')
    BY <1>2, <2>3
  <2> QED BY <1>2, <2>1, <2>5, <2>6, <2>7 DEF OrderInv
<1>16. \A w, i, n : MergeByte(w, i, n)' <=> MergeByte(w, i, n)
  BY <1>2 DEF MergeByte, Covers, MergeBuffer
<1>17. \A place, w, n : ComesTo(place, w, n)' <=> ComesTo(place, w, n)
  BY <1>2, <1>16 DEF ComesTo, IsAt, MergeBuffer
<1>18. StreamInv'
  <2>1. \A copy : Merges(copy)' <=> Merges(copy)
    BY <1>2, <1>10 DEF Merges, MergeBuffer
  <2>2. \A j : Packs(j)' <=> Packs(j)
    BY <1>2, <1>17 DEF Packs, PacksEntry
  <2> QED BY <1>1, <1>2, <2>1, <2>2 DEF StreamInv
<1>19. MergeInv'
  BY <1>1, <1>2, <1>10, <1>12, <1>16 DEF MergeInv
<1>20. IpcInv'
  <2>1. \A place, w : IsAt(place, w)' <=> IsAt(place, w)
    BY <1>2 DEF IsAt
  <2>2. \A c, e : PacksEntry(c, e)' <=> PacksEntry(c, e)
    BY <1>2 DEF PacksEntry
  <2> QED BY <1>1, <1>2, <1>17, <2>1, <2>2 DEF IpcInv, IpcBuffer
<1>21. MessageInv'
  BY <1>3 DEF MessageInv
<1> QED BY <1>11, <1>13, <1>14, <1>15, <1>18, <1>19, <1>20, <1>21 DEF TransferInv

-----------------------------------------------------------------------------
(* The copies *)

Copies == [from : Places, size : Nat, to : Places]

\* A copy of the bytes of weight w from lo on, into the tensor in which it is
\* merged or to its place in the bucket of the ipc stage.
CopyOf(copy, w, lo) ==
  /\ \A i \in 0..(copy.size - 1) : mem[copy.from[1]][copy.from[2] + i] = <<w, lo + i>>
  /\ \/ copy.to[1] = MergeBuffer(w) /\ lo = copy.to[2] /\ copy.to[2] + copy.size <= sizes[w]
     \/ /\ copy.to[1] = IpcBuffer /\ lo = 0 /\ copy.size = sizes[w]
        /\ \E k \in DOMAIN ipcMeta : ipcMeta[k].at = copy.to /\ ipcMeta[k].w = w

\* The copy that runs next finds what it is to copy.
LEMMA HeadCopy ==
  ASSUME TransferInv, stream # <<>>
  PROVE  \E copy \in Copies : copy = stream[1] /\ \E w \in Weights, lo \in Nat : CopyOf(copy, w, lo)
<1>1. /\ TransferTypeOK /\ RunsInv /\ OrderInv /\ StreamInv /\ IpcInv
  BY DEF TransferInv
<1>2. stream \in Seq(Copies) /\ 1 \in DOMAIN stream
  <2>1. stream \in Seq(Copies)
    BY <1>1 DEF TransferTypeOK, Copies
  <2> QED BY <2>1, EmptySeq, LenProperties
<1>3. PICK copy \in Copies : copy = stream[1]
  BY <1>2, ElementOfSeq, LenProperties
<1>4. /\ copy.from \in Places /\ copy.to \in Places /\ copy.size \in Nat
      /\ copy.from[2] \in Nat /\ copy.to[2] \in Nat
  <2>1. copy.from \in Places /\ copy.to \in Places /\ copy.size \in Nat
    BY DEF Copies
  <2> QED BY <2>1 DEF Places
<1>5. CASE Merges(copy)
  <2>1. PICK w \in Weights :
          /\ copy.to[1] = MergeBuffer(w) /\ copy.to[2] + copy.size <= sizes[w]
          /\ \A i \in 0..(copy.size - 1) :
               mem[copy.from[1]][copy.from[2] + i] = <<w, copy.to[2] + i>>
    BY <1>5 DEF Merges
  <2>2. CopyOf(copy, w, copy.to[2])
    BY <2>1 DEF CopyOf
  <2> QED BY <1>3, <1>4, <2>2
<1>6. CASE Packs(1)
  <2>1. PICK k \in DOMAIN ipcMeta :
          PacksEntry(stream[1], ipcMeta[k]) /\ ComesTo(stream[1].from, ipcMeta[k].w, 1 - 1)
    BY <1>6 DEF Packs
  <2>2. PICK w : w = ipcMeta[k].w
    OBVIOUS
  <2>3. w \in Weights /\ copy.to = ipcMeta[k].at /\ copy.size = sizes[w] /\ copy.to[1] = IpcBuffer
    BY <1>1, <1>3, <2>1, <2>2, WeightsKnown DEF PacksEntry, IpcInv
  <2>4. ComesTo(copy.from, w, 0)
    BY <1>3, <2>1, <2>2
  <2>5. IsAt(copy.from, w)
    BY <2>4, HasCome
  <2>6. \A i \in 0..(copy.size - 1) : mem[copy.from[1]][copy.from[2] + i] = <<w, 0 + i>>
    <3>1. \A i \in 0..(sizes[w] - 1) : mem[copy.from[1]][copy.from[2] + i] = <<w, i>>
      BY <2>5 DEF IsAt
    <3>2. \A i \in 0..(copy.size - 1) : i \in 0..(sizes[w] - 1) /\ 0 + i = i
      BY <2>3
    <3> QED BY <3>1, <3>2
  <2>7. CopyOf(copy, w, 0)
    BY <2>2, <2>3, <2>6 DEF CopyOf
  <2> QED BY <1>3, <2>3, <2>7
<1> QED BY <1>1, <1>2, <1>3, <1>5, <1>6 DEF StreamInv

\* It puts it where it belongs, and changes nothing else.
LEMMA CopyRuns ==
  ASSUME TransferTypeOK, NEW copy \in Copies, NEW w \in Weights, NEW lo \in Nat, CopyOf(copy, w, lo),
         mem' = Written(copy.to, Read(copy.from, copy.size))
  PROVE  /\ DOMAIN mem' = Buffers /\ \A b \in Buffers : DOMAIN mem'[b] = DOMAIN mem[b]
         /\ copy.to[1] \in {MergeBuffer(w), IpcBuffer} /\ copy.to[2] \in Nat /\ copy.size \in Nat
         /\ \A b \in Buffers : b # copy.to[1] => mem'[b] = mem[b]
         /\ \A i \in DOMAIN mem[copy.to[1]] :
              IF copy.to[2] <= i /\ i < copy.to[2] + copy.size
              THEN mem'[copy.to[1]][i] = <<w, lo + (i - copy.to[2])>>
              ELSE mem'[copy.to[1]][i] = mem[copy.to[1]][i]
<1>1. copy.to[1] \in {MergeBuffer(w), IpcBuffer} /\ copy.to[1] \in Buffers
  BY BufferNames DEF CopyOf
<1>2. copy.to[2] \in Nat /\ copy.size \in Nat
  <2>1. copy.to \in Places /\ copy.size \in Nat
    BY DEF Copies
  <2> QED BY <2>1 DEF Places
<1>3. DOMAIN mem = Buffers
  BY DEF TransferTypeOK, MemoryOK
<1>4. PICK to, bytes : to = copy.to /\ bytes = Read(copy.from, copy.size)
  OBVIOUS
<1>5. /\ DOMAIN bytes = 0..(copy.size - 1)
      /\ \A i \in 0..(copy.size - 1) : bytes[i] = <<w, lo + i>>
  BY <1>4 DEF Read, CopyOf
<1>6. /\ DOMAIN mem' = Buffers /\ \A b \in Buffers : DOMAIN mem'[b] = DOMAIN mem[b]
      /\ \A b \in Buffers : b # to[1] => mem'[b] = mem[b]
      /\ \A i \in DOMAIN mem[to[1]] :
           mem'[to[1]][i] = IF i - to[2] \in DOMAIN bytes THEN bytes[i - to[2]] ELSE mem[to[1]][i]
  BY <1>1, <1>3, <1>4, MemoryWritten
<1>7. ASSUME NEW i \in DOMAIN mem[to[1]]
      PROVE  IF to[2] <= i /\ i < to[2] + copy.size THEN mem'[to[1]][i] = <<w, lo + (i - to[2])>>
             ELSE mem'[to[1]][i] = mem[to[1]][i]
  <2>1. i \in Int /\ to[2] \in Nat
    <3>1. DOMAIN mem[MergeBuffer(w)] = 0..(sizes[w] - 1) /\ DOMAIN mem[IpcBuffer] = 0..(ipcBucket - 1)
      BY DEF TransferTypeOK, MemoryOK
    <3>2. DOMAIN mem[to[1]] \in {0..(sizes[w] - 1), 0..(ipcBucket - 1)}
      BY <1>1, <1>4, <3>1
    <3>3. CASE DOMAIN mem[to[1]] = 0..(sizes[w] - 1)
      BY <1>2, <1>4, <3>3
    <3>4. CASE DOMAIN mem[to[1]] = 0..(ipcBucket - 1)
      BY <1>2, <1>4, <3>4
    <3> QED BY <3>2, <3>3, <3>4
  <2>2. (to[2] <= i /\ i < to[2] + copy.size) <=> i - to[2] \in DOMAIN bytes
    BY <1>2, <1>5, <2>1
  <2>3. CASE to[2] <= i /\ i < to[2] + copy.size
    <3>1. mem'[to[1]][i] = bytes[i - to[2]] /\ i - to[2] \in 0..(copy.size - 1)
      BY <1>5, <1>6, <2>2, <2>3
    <3> QED BY <1>5, <2>3, <3>1
  <2>4. CASE ~(to[2] <= i /\ i < to[2] + copy.size)
    <3>1. mem'[to[1]][i] = mem[to[1]][i]
      BY <1>6, <2>2, <2>4
    <3> QED BY <2>4, <3>1
  <2> QED BY <2>3, <2>4
<1> QED BY <1>1, <1>2, <1>4, <1>6, <1>7

\* The copy that is issued first runs: the later ones move up.
LEMMA RunCopyKeeps ==
  ASSUME TransferInv, RunCopy
  PROVE  TransferInv'
<1>1. /\ TransferTypeOK /\ ControlInv /\ RunsInv /\ EngineInv /\ OrderInv
      /\ StreamInv /\ MergeInv /\ IpcInv /\ MessageInv
  BY DEF TransferInv
<1>2. /\ stream # <<>> /\ stream' = Tail(stream)
      /\ mem' = Written(Head(stream).to, Read(Head(stream).from, Head(stream).size))
      /\ UNCHANGED <<sizes, ipcBucket, op, arrived, message>>
      /\ UNCHANGED <<sndPc, nextChunk, fill, bucketMeta, offset, rcvPc, recvBuf, posted, metadata, index>>
      /\ UNCHANGED <<weight, ipcMeta, ipcOffset, loaded, received>>
  BY DEF RunCopy, sender, receiver, ipc, worker
<1>3. PICK copy \in Copies : copy = stream[1] /\ \E w \in Weights, lo \in Nat : CopyOf(copy, w, lo)
  BY <1>2, HeadCopy
<1>4. PICK w \in Weights, lo \in Nat : CopyOf(copy, w, lo)
  BY <1>3
<1>5. /\ stream \in Seq(Copies) /\ Len(stream) \in Nat /\ Len(stream) >= 1 /\ DOMAIN stream = 1..Len(stream)
      /\ stream' \in Seq(Copies) /\ Len(stream') = Len(stream) - 1 /\ DOMAIN stream' = 1..(Len(stream) - 1)
      /\ \A j \in 1..(Len(stream) - 1) : stream'[j] = stream[j + 1]
      /\ Head(stream) = copy
  <2>1. stream \in Seq(Copies)
    BY <1>1 DEF TransferTypeOK, Copies
  <2>2. Len(stream) \in Nat /\ Len(stream) >= 1 /\ DOMAIN stream = 1..Len(stream)
    BY <1>2, <2>1, EmptySeq, LenProperties
  <2>3. /\ stream' \in Seq(Copies) /\ Len(stream') = Len(stream) - 1
        /\ \A j \in 1..(Len(stream) - 1) : stream'[j] = stream[j + 1]
    BY <1>2, <2>1, HeadTailProperties
  <2>4. DOMAIN stream' = 1..(Len(stream) - 1)
    BY <2>3, LenProperties
  <2> QED BY <1>3, <2>1, <2>2, <2>3, <2>4
<1>6. /\ DOMAIN mem' = Buffers /\ \A b \in Buffers : DOMAIN mem'[b] = DOMAIN mem[b]
      /\ copy.to[1] \in {MergeBuffer(w), IpcBuffer} /\ copy.to[2] \in Nat /\ copy.size \in Nat
      /\ \A b \in Buffers : b # copy.to[1] => mem'[b] = mem[b]
      /\ \A i \in DOMAIN mem[copy.to[1]] :
           IF copy.to[2] <= i /\ i < copy.to[2] + copy.size
           THEN mem'[copy.to[1]][i] = <<w, lo + (i - copy.to[2])>>
           ELSE mem'[copy.to[1]][i] = mem[copy.to[1]][i]
  <2>1. mem' = Written(copy.to, Read(copy.from, copy.size))
    BY <1>2, <1>5
  <2> QED BY <1>1, <1>4, <2>1, CopyRuns
<1>7. message = NoOp /\ Entries = <<>> /\ Entries' = <<>> /\ DOMAIN <<>> = {} /\ Len(<<>>) = 0
  BY <1>1, <1>2 DEF ControlInv, Entries
<1>8. \A b \in EngineBuffers : b \in Buffers /\ mem'[b] = mem[b]
  <2>1. \A b \in EngineBuffers : b \in Buffers /\ b # MergeBuffer(w) /\ b # IpcBuffer
    BY BufferNames DEF EngineBuffers
  <2> QED BY <1>6, <2>1
<1>9. /\ Chunks' = Chunks /\ Weights' = Weights /\ Buffers' = Buffers /\ LoadedWeights' = LoadedWeights
      /\ \A k : WholeAt(k)' = WholeAt(k) /\ PartAt(k)' = PartAt(k)
  BY <1>2, SameModel
<1>10. RunsInv' /\ EngineInv' /\ Yielded' = Yielded
  <2>1. RunsInv' /\ EngineInv' /\ BeyondMetadata' = BeyondMetadata
    BY <1>1, <1>2, <1>8, UpstreamKept
  <2> QED BY <1>2, <2>1 DEF Yielded
<1>11. WholeAt(Yielded)' = WholeAt(Yielded) /\ PartAt(Yielded)' = PartAt(Yielded)
  BY <1>9, <1>10 DEF WholeAt, PartAt
<1>12. \A v \in Weights : v \in Nat /\ sizes[v] \in Nat /\ sizes[v] >= 1 /\ MergeBuffer(v) \in Buffers
  BY <1>1, WeightsKnown, BufferNames
<1>13. ASSUME NEW v \in Weights, NEW i \in 0..(sizes[v] - 1), NEW n \in 1..Len(stream), MergeByte(v, i, n)
       PROVE  MergeByte(v, i, n - 1)'
  <2>1. i \in DOMAIN mem[MergeBuffer(v)] /\ i \in Int
    <3>1. DOMAIN mem[MergeBuffer(v)] = 0..(sizes[v] - 1)
      BY <1>1 DEF TransferTypeOK, MemoryOK
    <3> QED BY <3>1
  <2>2. copy.to[1] = MergeBuffer(v) => v = w /\ lo = copy.to[2]
    BY <1>4, <1>6, BufferNames DEF CopyOf
  <2>3. ASSUME copy.to[1] = MergeBuffer(v), copy.to[2] <= i /\ i < copy.to[2] + copy.size
        PROVE  mem'[MergeBuffer(v)][i] = <<v, i>>
    <3>1. mem'[MergeBuffer(v)][i] = <<w, lo + (i - copy.to[2])>>
      BY <1>6, <2>1, <2>3
    <3>2. lo + (i - copy.to[2]) = i
      BY <1>6, <2>1, <2>2, <2>3
    <3> QED BY <2>2, <2>3, <3>1, <3>2
  <2>4. CASE mem[MergeBuffer(v)][i] = <<v, i>>
    <3>1. mem'[MergeBuffer(v)][i] = <<v, i>>
      <4>1. CASE copy.to[1] # MergeBuffer(v)
        BY <1>6, <1>12, <2>4, <4>1
      <4>2. CASE copy.to[1] = MergeBuffer(v)
        <5>1. CASE copy.to[2] <= i /\ i < copy.to[2] + copy.size
          BY <2>3, <4>2, <5>1
        <5>2. CASE ~(copy.to[2] <= i /\ i < copy.to[2] + copy.size)
          BY <1>6, <2>1, <2>4, <4>2, <5>2
        <5> QED BY <5>1, <5>2
      <4> QED BY <4>1, <4>2
    <3> QED BY <3>1 DEF MergeByte, MergeBuffer
  <2>5. CASE \E j \in 1..n : Covers(stream[j], v, i)
    <3>1. PICK j \in 1..n : Covers(stream[j], v, i)
      BY <2>5
    <3>2. CASE j = 1
      <4>1. mem'[MergeBuffer(v)][i] = <<v, i>>
        BY <1>3, <2>3, <3>1, <3>2 DEF Covers
      <4> QED BY <4>1 DEF MergeByte, MergeBuffer
    <3>3. CASE j # 1
      <4>1. PICK l : l = j - 1
        OBVIOUS
      <4>2. l \in 1..(n - 1) /\ l \in 1..(Len(stream) - 1) /\ l + 1 = j
        BY <1>5, <3>3, <4>1
      <4>3. stream'[l] = stream[j]
        BY <1>5, <4>2
      <4>4. Covers(stream[l], v, i)'
        BY <3>1, <4>3 DEF Covers, MergeBuffer
      <4> QED BY <4>2, <4>4 DEF MergeByte
    <3> QED BY <3>2, <3>3
  <2> QED BY <1>13, <2>4, <2>5 DEF MergeByte
<1>14. ASSUME NEW place, NEW v \in Weights, NEW n \in 1..Len(stream), ComesTo(place, v, n)
       PROVE  ComesTo(place, v, n - 1)'
  <2>1. CASE place[1] = <<"recv", 1 - recvBuf>> /\ IsAt(place, v)
    <3>1. <<"recv", 1 - recvBuf>> \in EngineBuffers
      <4>1. 1 - recvBuf \in {0, 1}
        BY <1>1 DEF TransferTypeOK
      <4> QED BY <4>1, BufferNames
    <3>2. IsAt(place, v)'
      BY <1>2, <1>8, <2>1, <3>1 DEF IsAt
    <3> QED BY <1>2, <2>1, <3>2 DEF ComesTo
  <2>2. CASE place = <<MergeBuffer(v), 0>> /\ \A i \in 0..(sizes[v] - 1) : MergeByte(v, i, n)
    <3>1. \A i \in 0..(sizes[v] - 1) : MergeByte(v, i, n - 1)'
      BY <1>13, <2>2
    <3> QED BY <1>2, <2>2, <3>1 DEF ComesTo, MergeBuffer
  <2> QED BY <1>14, <2>1, <2>2 DEF ComesTo
<1>15. \A k \in DOMAIN ipcMeta :
         /\ ipcMeta[k].w \in Weights /\ sizes[ipcMeta[k].w] \in Nat /\ sizes[ipcMeta[k].w] >= 1
         /\ ipcMeta[k].at[1] = IpcBuffer /\ ipcMeta[k].at[2] \in Nat
         /\ ipcMeta[k].at[2] + sizes[ipcMeta[k].w] <= ipcBucket
         /\ k \in Int
  <2>1. \A k \in DOMAIN ipcMeta : ipcMeta[k] \in PlacedWeights /\ k \in Int
    BY <1>1, ElementOfSeq, LenProperties DEF TransferTypeOK
  <2>2. \A x \in PlacedWeights : x.at[2] \in Nat
    BY DEF PlacedWeights, Places
  <2>3. ipcOffset \in Nat /\ ipcBucket \in Nat /\ ipcOffset <= ipcBucket
    BY <1>1 DEF TransferTypeOK
  <2>4. \A k \in DOMAIN ipcMeta : ipcMeta[k].w \in Weights
    BY <1>1, WeightsKnown
  <2>5. \A k \in DOMAIN ipcMeta :
          ipcMeta[k].at[1] = IpcBuffer /\ ipcMeta[k].at[2] + sizes[ipcMeta[k].w] <= ipcOffset
    BY <1>1 DEF IpcInv
  <2>6. ASSUME NEW k \in DOMAIN ipcMeta
        PROVE  ipcMeta[k].at[2] + sizes[ipcMeta[k].w] <= ipcBucket
    <3>1. ipcMeta[k].at[2] \in Nat /\ sizes[ipcMeta[k].w] \in Nat
      BY <1>12, <2>1, <2>2, <2>4
    <3> QED BY <2>3, <2>5, <3>1
  <2> QED BY <1>12, <2>1, <2>2, <2>4, <2>5, <2>6
<1>16. \A k, l \in DOMAIN ipcMeta :
         k = l \/ ipcMeta[k].at[2] + sizes[ipcMeta[k].w] <= ipcMeta[l].at[2]
               \/ ipcMeta[l].at[2] + sizes[ipcMeta[l].w] <= ipcMeta[k].at[2]
  <2>1. \A k, l \in DOMAIN ipcMeta : k = l \/ k < l \/ l < k
    BY <1>15
  <2> QED BY <1>1, <2>1 DEF IpcInv
\* What is in the bucket of the ipc stage, or comes there, or has just come.
<1>17. ASSUME NEW k \in DOMAIN ipcMeta,
              \/ IsAt(ipcMeta[k].at, ipcMeta[k].w)
              \/ \E j \in DOMAIN stream : PacksEntry(stream[j], ipcMeta[k])
       PROVE  \/ IsAt(ipcMeta[k].at, ipcMeta[k].w)'
              \/ \E j \in DOMAIN stream' : PacksEntry(stream[j], ipcMeta[k])'
  <2>1. PICK e : e = ipcMeta[k]
    OBVIOUS
  <2>2. /\ e.w \in Weights /\ sizes[e.w] \in Nat /\ sizes[e.w] >= 1
        /\ e.at[1] = IpcBuffer /\ e.at[2] \in Nat /\ e.at[2] + sizes[e.w] <= ipcBucket
    BY <1>15, <2>1
  <2>3. ipcMeta'[k] = e
    BY <1>2, <2>1
  <2>4. IpcBuffer \in Buffers /\ IpcBuffer # MergeBuffer(w)
    BY BufferNames
  <2>5. \A i \in 0..(sizes[e.w] - 1) : e.at[2] + i \in DOMAIN mem[IpcBuffer] /\ i \in Int
    <3>1. DOMAIN mem[IpcBuffer] = 0..(ipcBucket - 1) /\ ipcBucket \in Nat
      BY <1>1 DEF TransferTypeOK, MemoryOK
    <3> QED BY <2>2, <3>1
  \* The entry that the copy packs is this one or does not overlap it.
  <2>6. ASSUME copy.to[1] = IpcBuffer
        PROVE  /\ lo = 0 /\ copy.size = sizes[w] /\ sizes[w] \in Nat /\ sizes[w] >= 1
               /\ \/ e.at = copy.to /\ e.w = w
                  \/ e.at[2] + sizes[e.w] <= copy.to[2]
                  \/ copy.to[2] + copy.size <= e.at[2]
    <3>1. PICK l \in DOMAIN ipcMeta : ipcMeta[l].at = copy.to /\ ipcMeta[l].w = w
      BY <1>4, <2>4, <2>6 DEF CopyOf
    <3>2. lo = 0 /\ copy.size = sizes[w]
      BY <1>4, <2>4, <2>6 DEF CopyOf
    <3> QED BY <1>12, <1>16, <2>1, <3>1, <3>2
  <2>7. ASSUME e.at = copy.to, e.w = w, copy.to[1] = IpcBuffer
        PROVE  \A i \in 0..(sizes[e.w] - 1) : mem'[e.at[1]][e.at[2] + i] = <<e.w, i>>
    <3>1. ASSUME NEW i \in 0..(sizes[e.w] - 1) PROVE mem'[e.at[1]][e.at[2] + i] = <<e.w, i>>
      <4>1. PICK x : x = copy.to[2] + i
        OBVIOUS
      <4>2. /\ x \in DOMAIN mem[IpcBuffer] /\ copy.to[2] <= x /\ x < copy.to[2] + copy.size
            /\ lo + (x - copy.to[2]) = i
        BY <1>6, <2>2, <2>5, <2>6, <2>7, <4>1
      <4>3. mem'[copy.to[1]][x] = <<w, lo + (x - copy.to[2])>>
        BY <1>6, <2>7, <4>2
      <4> QED BY <2>7, <4>1, <4>2, <4>3
    <3> QED BY <3>1
  <2>8. CASE IsAt(e.at, e.w)
    <3>1. \A i \in 0..(sizes[e.w] - 1) : mem[e.at[1]][e.at[2] + i] = <<e.w, i>>
      BY <2>8 DEF IsAt
    <3>2. \A i \in 0..(sizes[e.w] - 1) : mem'[e.at[1]][e.at[2] + i] = <<e.w, i>>
      <4>1. CASE copy.to[1] = MergeBuffer(w)
        <5>1. mem'[IpcBuffer] = mem[IpcBuffer]
          BY <1>6, <2>4, <4>1
        <5> QED BY <2>2, <3>1, <5>1
      <4>2. CASE copy.to[1] = IpcBuffer
        <5>1. CASE e.at = copy.to /\ e.w = w
          BY <2>7, <4>2, <5>1
        <5>2. CASE e.at[2] + sizes[e.w] <= copy.to[2] \/ copy.to[2] + copy.size <= e.at[2]
          <6>1. ASSUME NEW i \in 0..(sizes[e.w] - 1) PROVE mem'[e.at[1]][e.at[2] + i] = <<e.w, i>>
            <7>1. PICK x : x = e.at[2] + i
              OBVIOUS
            <7>2. x \in DOMAIN mem[IpcBuffer] /\ ~(copy.to[2] <= x /\ x < copy.to[2] + copy.size)
              BY <1>6, <2>2, <2>5, <2>6, <4>2, <5>2, <7>1
            <7>3. mem'[copy.to[1]][x] = mem[copy.to[1]][x]
              BY <1>6, <4>2, <7>2
            <7> QED BY <2>2, <3>1, <4>2, <7>1, <7>3
          <6> QED BY <6>1
        <5> QED BY <2>6, <4>2, <5>1, <5>2
      <4> QED BY <1>6, <4>1, <4>2
    <3> QED BY <1>2, <2>3, <3>2 DEF IsAt
  <2>9. CASE \E j \in DOMAIN stream : PacksEntry(stream[j], e)
    <3>1. PICK j \in DOMAIN stream : PacksEntry(stream[j], e)
      BY <2>9
    <3>2. CASE j = 1
      <4>1. e.at = copy.to /\ copy.to[1] = IpcBuffer /\ copy.size = sizes[e.w]
        BY <1>3, <2>2, <3>1, <3>2 DEF PacksEntry
      <4>2. e.w = w
        BY <1>6, <2>2, <2>6, <4>1
      <4>3. \A i \in 0..(sizes[e.w] - 1) : mem'[e.at[1]][e.at[2] + i] = <<e.w, i>>
        BY <2>7, <4>1, <4>2
      <4> QED BY <1>2, <2>3, <4>3 DEF IsAt
    <3>3. CASE j # 1
      <4>1. PICK l : l = j - 1
        OBVIOUS
      <4>2. l \in DOMAIN stream' /\ l \in 1..(Len(stream) - 1) /\ l + 1 = j
        BY <1>5, <3>3, <4>1
      <4>3. stream'[l] = stream[j]
        BY <1>5, <4>2
      <4>4. PacksEntry(stream[l], ipcMeta[k])'
        BY <1>2, <2>3, <3>1, <4>3 DEF PacksEntry
      <4> QED BY <4>2, <4>4
    <3> QED BY <3>2, <3>3
  <2> QED BY <1>17, <2>1, <2>8, <2>9
<1>18. TransferTypeOK'
  <2>1. MemoryOK'
    BY <1>1, <1>2, <1>6, MemoryKept DEF TransferTypeOK
  <2> QED BY <1>1, <1>2, <1>5, <1>9, <2>1 DEF TransferTypeOK, MetaOf, Copies
<1>19. ControlInv'
  BY <1>1, <1>2, <1>7, <1>9 DEF ControlInv, MetaOf
<1>20. OrderInv'
  BY <1>1, <1>2, <1>7, <1>11 DEF OrderInv
<1>21. StreamInv'
  <2>1. ASSUME NEW j \in DOMAIN stream' PROVE (Merges(stream[j]) \/ Packs(j))'
    <3>1. PICK l : l = j + 1
      OBVIOUS
    <3>2. l \in DOMAIN stream /\ l \in 1..Len(stream) /\ j \in 1..Len(stream) /\ j = l - 1 /\ stream'[j] = stream[l]
      BY <1>5, <3>1
    <3>3. CASE Merges(stream[l])
      <4>1. PICK d : d = stream[l]
        OBVIOUS
      <4>2. PICK v \in Weights :
              /\ d.to[1] = MergeBuffer(v) /\ d.to[2] + d.size <= sizes[v]
              /\ d.from[1] = <<"recv", 1 - recvBuf>>
              /\ \A i \in 0..(d.size - 1) : mem[d.from[1]][d.from[2] + i] = <<v, d.to[2] + i>>
        BY <3>3, <4>1 DEF Merges
      <4>3. mem'[<<"recv", 1 - recvBuf>>] = mem[<<"recv", 1 - recvBuf>>]
        <5>1. 1 - recvBuf \in {0, 1}
          BY <1>1 DEF TransferTypeOK
        <5> QED BY <1>8, <5>1, BufferNames
      <4>4. Merges(d)'
        BY <1>2, <1>9, <4>2, <4>3 DEF Merges, MergeBuffer
      <4> QED BY <3>2, <4>1, <4>4
    <3>4. CASE Packs(l)
      <4>1. PICK k \in DOMAIN ipcMeta :
              PacksEntry(stream[l], ipcMeta[k]) /\ ComesTo(stream[l].from, ipcMeta[k].w, l - 1)
        BY <3>4 DEF Packs
      <4>2. PICK place, v : place = stream[l].from /\ v = ipcMeta[k].w
        OBVIOUS
      <4>3. ComesTo(place, v, j) /\ v \in Weights
        BY <1>15, <3>2, <4>1, <4>2
      <4>4. ComesTo(place, v, j - 1)'
        BY <1>14, <3>2, <4>3
      <4>5. ComesTo(stream[j].from, ipcMeta[k].w, j - 1)'
        BY <1>2, <3>2, <4>2, <4>4
      <4>6. PacksEntry(stream[j], ipcMeta[k])'
        BY <1>2, <3>2, <4>1 DEF PacksEntry
      <4>7. k \in DOMAIN ipcMeta'
        BY <1>2
      <4> QED BY <4>5, <4>6, <4>7 DEF Packs
    <3> QED BY <1>1, <3>2, <3>3, <3>4 DEF StreamInv
  <2> QED BY <2>1 DEF StreamInv
<1>22. Len(stream) \in 1..Len(stream) /\ Len(stream)' = Len(stream) - 1
  BY <1>5
<1>23. MergeInv'
  <2>1. ASSUME NEW v \in Weights, NEW i \in 0..(sizes[v] - 1), MergeByte(v, i, Len(stream))
        PROVE  MergeByte(v, i, Len(stream))'
    <3>1. PICK n \in 1..Len(stream) : n = Len(stream)
      BY <1>22
    <3>2. MergeByte(v, i, n - 1)'
      BY <1>13, <2>1, <3>1
    <3> QED BY <1>22, <3>1, <3>2
  <2> QED BY <1>1, <1>2, <1>9, <1>11, <2>1 DEF MergeInv
<1>24. IpcInv'
  <2>1. weight' # NoOp => ComesTo(weight.at, weight.w, Len(stream))'
    <3> SUFFICES ASSUME weight # NoOp PROVE ComesTo(weight.at, weight.w, Len(stream))'
      BY <1>2
    <3>1. PICK place, v : place = weight.at /\ v = weight.w
      OBVIOUS
    <3>2. PICK n \in 1..Len(stream) : n = Len(stream)
      BY <1>22
    <3>3. v \in Weights /\ ComesTo(place, v, n)
      BY <1>1, <3>1, <3>2, WeightsKnown DEF IpcInv
    <3>4. ComesTo(place, v, n - 1)'
      BY <1>14, <3>3
    <3> QED BY <1>2, <1>22, <3>1, <3>2, <3>4
  <2>2. /\ DOMAIN ipcMeta' = DOMAIN ipcMeta /\ ipcMeta' = ipcMeta /\ sizes' = sizes
        /\ ipcOffset' = ipcOffset /\ IpcBuffer' = IpcBuffer
    BY <1>2 DEF IpcBuffer
  <2>3. \A k \in DOMAIN ipcMeta :
          \/ IsAt(ipcMeta[k].at, ipcMeta[k].w)'
          \/ \E j \in DOMAIN stream' : PacksEntry(stream[j], ipcMeta[k])'
    BY <1>1, <1>17 DEF IpcInv
  <2> QED BY <1>1, <2>1, <2>2, <2>3 DEF IpcInv
<1>25. MessageInv'
  BY <1>7 DEF MessageInv
<1> QED BY <1>10, <1>18, <1>19, <1>20, <1>21, <1>23, <1>24, <1>25 DEF TransferInv

-----------------------------------------------------------------------------
(* The invariant *)

\* At the beginning nothing is under way.
LEMMA TransferInitInv ==
  ASSUME TransferInit
  PROVE  TransferInv
<1>1. /\ sizes \in Seq(Nat \ {0}) /\ ipcBucket \in Nat \ {0} /\ EngineBucket \in Nat \ {0}
      /\ mem = FreshMemory
      /\ sndPc = "fill" /\ nextChunk = 1 /\ fill = 0 /\ bucketMeta = <<>> /\ offset = 0 /\ op = NoOp
      /\ rcvPc = "first" /\ recvBuf = 0 /\ posted = NoOp /\ metadata = NoOp /\ index = 1
      /\ arrived = NoOp /\ weight = NoOp /\ ipcMeta = <<>> /\ ipcOffset = 0
      /\ stream = <<>> /\ message = NoOp /\ loaded = <<>> /\ received = FALSE
  BY TransferAssumption DEF TransferInit
<1>2. /\ MetaOf(op) = <<>> /\ MetaOf(arrived) = <<>> /\ MetaOf(metadata) = <<>> /\ Entries = <<>>
      /\ Len(<<>>) = 0 /\ DOMAIN <<>> = {} /\ \A S : <<>> \in Seq(S)
  <2>1. Len(<<>>) = 0 /\ DOMAIN <<>> = {} /\ \A S : <<>> \in Seq(S)
    BY EmptySeq
  <2> QED BY <1>1, <2>1 DEF MetaOf, Entries
<1>3. /\ Len(bucketMeta) = 0 /\ Len(MetaOf(op)) = 0 /\ Len(MetaOf(arrived)) = 0
      /\ Len(MetaOf(metadata)) = 0 /\ Len(Entries) = 0 /\ Len(ipcMeta) = 0 /\ Len(loaded) = 0
      /\ Len(stream) = 0
  BY <1>1, <1>2
<1>4. /\ BeyondBucket = 0 /\ BeyondOp = 0 /\ BeyondArrived = 0 /\ BeyondMetadata = 0 /\ Yielded = 0
  <2>1. BeyondBucket = 0
    <3>1. nextChunk = 1 /\ Len(bucketMeta) = 0
      BY <1>1, <1>3
    <3> QED BY <3>1 DEF BeyondBucket
  <2>2. BeyondOp = 0
    BY <1>3, <2>1 DEF BeyondOp
  <2>3. BeyondArrived = 0
    BY <1>3, <2>2 DEF BeyondArrived
  <2>4. BeyondMetadata = 0
    BY <1>3, <2>3 DEF BeyondMetadata
  <2> QED BY <1>1, <2>1, <2>2, <2>3, <2>4 DEF Yielded
<1>5. WholeAt(Yielded) = 0 /\ PartAt(Yielded) = 0
  BY <1>4 DEF WholeAt, PartAt
<1>6. MemoryOK
  <2>1. DOMAIN mem = Buffers
    BY <1>1 DEF FreshMemory
  <2>2. ASSUME NEW b \in Buffers
        PROVE  DOMAIN mem[b] = 0..((IF b = IpcBuffer THEN ipcBucket
                                    ELSE IF b \in EngineBuffers THEN EngineBucket ELSE sizes[b[2]]) - 1)
    BY <1>1 DEF FreshMemory
  <2>3. \A b \in EngineBuffers : b \in Buffers /\ b # IpcBuffer
    BY BufferNames DEF EngineBuffers
  <2>4. \A w \in Weights : /\ MergeBuffer(w) \in Buffers /\ MergeBuffer(w) # IpcBuffer
                           /\ MergeBuffer(w) \notin EngineBuffers /\ MergeBuffer(w)[2] = w
    <3>1. \A w \in Weights : MergeBuffer(w) \notin EngineBuffers
      BY BufferNames DEF EngineBuffers
    <3>2. \A w : MergeBuffer(w)[2] = w
      BY DEF MergeBuffer
    <3> QED BY <3>1, <3>2, BufferNames
  <2>5. IpcBuffer \in Buffers
    BY BufferNames
  <2>6. \A b \in EngineBuffers : DOMAIN mem[b] = 0..(EngineBucket - 1)
    BY <2>2, <2>3
  <2>7. \A w \in Weights : DOMAIN mem[MergeBuffer(w)] = 0..(sizes[w] - 1)
    BY <2>2, <2>4
  <2>8. DOMAIN mem[IpcBuffer] = 0..(ipcBucket - 1)
    BY <2>2, <2>5
  <2> QED BY <2>1, <2>6, <2>7, <2>8 DEF MemoryOK
<1>7. TransferTypeOK
  <2>1. Len(Chunks) \in Nat
    BY <1>1, ChunkFacts
  <2>2. 1 \in 1..(Len(Chunks) + 1) /\ 0 \in 0..EngineBucket /\ 0 \in 0..ipcBucket /\ 1 \in 1..(0 + 1)
    BY <1>1, <2>1
  <2> QED BY <1>1, <1>2, <1>3, <1>6, <2>2 DEF TransferTypeOK
<1>8. ControlInv
  BY <1>1, <1>2, <1>3 DEF ControlInv
<1>9. RunsInv
  BY <1>1, <1>2, <1>4 DEF RunsInv, Run
<1>10. EngineInv
  BY <1>1, <1>2 DEF EngineInv, AllHold
<1>11. OrderInv
  BY <1>1, <1>2, <1>3, <1>5 DEF OrderInv
<1>12. StreamInv
  BY <1>1, <1>2 DEF StreamInv
<1>13. MergeInv
  <2>1. \A w \in Weights : ~(w <= 0)
    BY <1>1, LenProperties DEF Weights
  <2>2. \A x : \A i \in 0..x : ~(i < 0)
    OBVIOUS
  <2> QED BY <1>5, <2>1, <2>2 DEF MergeInv
<1>14. IpcInv
  BY <1>1, <1>2 DEF IpcInv
<1>15. MessageInv
  BY <1>2 DEF MessageInv
<1> QED BY <1>7, <1>8, <1>9, <1>10, <1>11, <1>12, <1>13, <1>14, <1>15 DEF TransferInv

\* Every step keeps the invariant.
LEMMA TransferStepKeeps ==
  ASSUME TransferInv, [TransferNext]_transferVars
  PROVE  TransferInv'
<1>1. CASE TransferNext
  BY <1>1, FillKeeps, StartBroadcastKeeps, FinishSendKeeps, BroadcastKeeps, PostReceiveKeeps,
     SwapBuffersKeeps, YieldChunkKeeps, EndOfBucketKeeps, SendBucketKeeps, SendDirectKeeps,
     PackWeightKeeps, SendLastKeeps, RunCopyKeeps, LoadKeeps
     DEF TransferNext, SendStep, ReceiveStep
<1>2. CASE UNCHANGED transferVars
  <2>1. /\ UNCHANGED <<sizes, ipcBucket, mem, sndPc, nextChunk, fill, bucketMeta, offset, op>>
        /\ UNCHANGED <<rcvPc, recvBuf, posted, metadata, index, arrived, weight, ipcMeta, ipcOffset>>
        /\ UNCHANGED <<stream, message, loaded, received>>
    BY <1>2 DEF transferVars, sender, receiver, ipc, worker
  <2>2. /\ TransferTypeOK /\ ControlInv /\ RunsInv /\ EngineInv /\ OrderInv
        /\ StreamInv /\ MergeInv /\ IpcInv /\ MessageInv
    BY DEF TransferInv
  <2>3. /\ Chunks' = Chunks /\ Weights' = Weights /\ Buffers' = Buffers /\ LoadedWeights' = LoadedWeights
        /\ MetaOf(metadata)' = MetaOf(metadata) /\ MetaOf(op)' = MetaOf(op)
        /\ MetaOf(arrived)' = MetaOf(arrived)
    BY <2>1, SameModel DEF MetaOf
  <2>4. TransferTypeOK'
    <3>1. MemoryOK'
      BY <2>1, <2>2, MemoryKept DEF TransferTypeOK, MemoryOK
    <3> QED BY <2>1, <2>2, <2>3, <3>1 DEF TransferTypeOK
  <2>5. ControlInv'
    BY <2>1, <2>2, <2>3 DEF ControlInv
  <2>6. RunsInv' /\ EngineInv' /\ Yielded' = Yielded
    <3>1. RunsInv' /\ EngineInv' /\ BeyondMetadata' = BeyondMetadata
      BY <2>1, <2>2, UpstreamKept
    <3> QED BY <2>1, <3>1 DEF Yielded
  <2>7. OrderInv' /\ StreamInv' /\ MergeInv' /\ IpcInv' /\ MessageInv'
    BY <2>1, <2>2, <2>6, DownstreamKept
  <2> QED BY <2>4, <2>5, <2>6, <2>7 DEF TransferInv
<1> QED BY <1>1, <1>2

\* The model, the buffers and their metadata, the copies under way and what has
\* been handed on agree in every state of NCCLCheckpointEngine, BucketedWeightSender
\* and BucketedWeightReceiver.
THEOREM TransferInvHolds == TransferSpec => []TransferInv
<1>1. TransferInit => TransferInv
  BY TransferInitInv
<1>2. TransferInv /\ [TransferNext]_transferVars => TransferInv'
  BY TransferStepKeeps
<1> QED BY <1>1, <1>2, PTL DEF TransferSpec

\* The inference worker loads the weights of every model, split, merged and
\* packed into buckets of any size, in order, each once, with the trainer's bytes:
\* what update_weights promises whatever the timing of the copies.
THEOREM WeightsIntactHolds == TransferSpec => []WeightsIntact
<1>1. ASSUME TransferInv PROVE WeightsIntact
  <2>1. TransferTypeOK /\ RunsInv /\ OrderInv
    BY <1>1 DEF TransferInv
  <2>2. WholeAt(Yielded) \in 0..Len(sizes)
    BY <2>1, ChunkFacts, Counts DEF TransferTypeOK
  <2>3. /\ Len(loaded) \in Nat /\ Len(Entries) \in Nat /\ Len(ipcMeta) \in Nat /\ Len(sizes) \in Nat
        /\ WholeAt(Yielded) = Len(loaded) + Len(Entries) + Len(ipcMeta) + (IF weight = NoOp THEN 0 ELSE 1)
    BY <2>1, Counts DEF OrderInv
  <2>4. Len(loaded) <= Len(sizes)
    <3>1. PICK n : n = WholeAt(Yielded)
      OBVIOUS
    <3> QED BY <2>2, <2>3, <3>1
  <2>5. ASSUME NEW i \in DOMAIN loaded PROVE loaded[i] = [w |-> i, bytes |-> Content(i)]
    <3>1. loaded[i] \in LoadedWeights /\ loaded[i].w = i
      BY <2>1, ElementOfSeq, LenProperties DEF TransferTypeOK, OrderInv
    <3>2. PICK v \in Weights : loaded[i] = [w |-> v, bytes |-> Content(v)]
      BY <3>1 DEF LoadedWeights
    <3>3. v = i
      BY <3>1, <3>2
    <3> QED BY <3>2, <3>3
  <2>6. received => Len(loaded) = Len(sizes)
    BY <2>1 DEF OrderInv
  <2> QED BY <2>4, <2>5, <2>6 DEF WeightsIntact
<1> QED BY <1>1, TransferInvHolds, PTL

=============================================================================
