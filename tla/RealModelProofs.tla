--------------------------- MODULE RealModelProofs ---------------------------
(***************************************************************************)
(* Theorems about RealModelWorker, for every set of request ids, every     *)
(* batch size, every length of prompts and answers, every way the mode is  *)
(* switched, and however many calls of the model raise; and about          *)
(* RealBench, for every burst and every batch size.                        *)
(*                                                                         *)
(* That rows stay aligned is inductive together with what keeps requests   *)
(* apart (an id is at one place) and with what a wedged batch is: one that *)
(* outgrew its cache in a decode that raised, took rows in that belong to  *)
(* nobody, and from which no sequence can leave, for none is finished.     *)
(*                                                                         *)
(* In RealBench one run follows the other, and what the first leaves is    *)
(* its times: an answer takes a decode for each token but the first, and   *)
(* of two requests that are a batch or more apart in the burst the first   *)
(* is complete when the other one starts.  In the second run a full batch  *)
(* has such a one in it for everybody who waits.                           *)
(***************************************************************************)
EXTENDS RealBench, FiniteSetTheorems, SequenceTheorems, TLAPS

(* RowsAligned, of any batch that any number of failed decodes slipped.       *)
Aligned(b, s) ==
    /\ Len(b.rows) = Len(b.seqs) /\ Len(b.ones) >= Len(b.seqs)
    /\ \A i \in DOMAIN b.seqs :
         /\ b.rows[i] = [id |-> b.seqs[i].id, held |-> b.seqs[i].tokens - 1]
         /\ b.ones[i] = b.seqs[i].tokens - 1 + s
    /\ IF Wedged(b) THEN b.width + s <= b.mask ELSE b.width + s = b.mask

(* TokensWithinBudget, of any sequence.                                      *)
Budgeted(q, d) ==
    /\ q.generated = d[q.id]
    /\ q.generated <= q.max
    /\ q.generated = q.max => q.finished
    /\ q.tokens > 0

(* A batch as the steps leave it: aligned, no id twice, nobody over budget;    *)
(* an empty one starts afresh, and a wedged one keeps everybody.              *)
Sound(b, s, d) ==
    /\ Aligned(b, s)
    /\ \A i, j \in DOMAIN b.seqs : b.seqs[i].id = b.seqs[j].id => i = j
    /\ \A i \in DOMAIN b.seqs : Budgeted(b.seqs[i], d)
    /\ Len(b.seqs) <= MaxBatch
    /\ b.seqs = <<>> => b = NoBatch /\ s = 0
    /\ Wedged(b) => s > 0 /\ \A i \in DOMAIN b.seqs : ~b.seqs[i].finished

(* Who waits is at one place, has had nothing, and has a prompt of a length    *)
(* that was admitted.                                                        *)
Untouched ==
    /\ \A i, j \in DOMAIN waiting : waiting[i].id = waiting[j].id => i = j
    /\ \A i \in DOMAIN waiting :
         /\ waiting[i].tokens \in 1..MaxPrompt
         /\ waiting[i].generated = 0 /\ ~waiting[i].finished
         /\ delivered[waiting[i].id] = 0

Apart ==
    /\ Ids(waiting) \cap Ids(batch.seqs) = {}
    /\ lost \cap (Ids(waiting) \cup Ids(batch.seqs)) = {}

IInv ==
    /\ TypeOK
    /\ Sound(batch, slip, delivered)
    /\ Untouched
    /\ Apart
    /\ failures = 0 => lost = {}
    /\ Wedged(batch) => lost # {}

-------------------------------------------------------------------------------
(* A set of positions can be listed in increasing order.                      *)
LEMMA Listing ==
    ASSUME NEW n \in Nat, NEW I \in SUBSET (1..n)
    PROVE  \E f \in [1..Cardinality(I) -> I] :
               \A j, k \in 1..Cardinality(I) : j < k => f[j] < f[k]
<1> DEFINE Lists(f, J) == /\ f \in [1..Cardinality(J) -> J]
                          /\ \A j, k \in 1..Cardinality(J) : j < k => f[j] < f[k]
           bad == {m \in Nat : \E J \in SUBSET (1..m) : \A f : ~Lists(f, J)}
<1>1. SUFFICES bad = {}
  <2>1. n \notin bad
    BY <1>1
  <2>2. \E f : Lists(f, I)
    BY <2>1
  <2> QED
    BY <2>2
<1>2. SUFFICES ASSUME bad # {} PROVE FALSE
  OBVIOUS
<1>3. PICK m \in bad : \A x \in bad : ~ (x < m)
  <2>1. \E m \in bad : \A x \in bad : ~ (<<x, m>> \in OpToRel(<, Nat))
    <3>1. bad \subseteq Nat
      OBVIOUS
    <3> HIDE DEF bad
    <3> QED
      BY <1>2, <3>1, NatLessThanWellFounded, WFMin, Zenon
  <2>2. PICK m \in bad : \A x \in bad : ~ (<<x, m>> \in OpToRel(<, Nat))
    BY <2>1
  <2>3. bad \subseteq Nat
    OBVIOUS
  <2> HIDE DEF bad
  <2> QED
    BY <2>2, <2>3 DEF OpToRel
<1>4. PICK J \in SUBSET (1..m) : \A f : ~Lists(f, J)
  BY <1>3
<1>5. m \in Nat
  BY <1>3
<1>6. m \in J
  <2> SUFFICES ASSUME m \notin J PROVE FALSE
    OBVIOUS
  <2>1. CASE m = 0
    <3>1. J = {}
      BY <2>1
    <3>2. Cardinality(J) = 0 /\ 1..Cardinality(J) = {}
      BY <3>1, FS_EmptySet
    <3>3. Lists([j \in 1..Cardinality(J) |-> 0], J)
      BY <3>2
    <3> QED
      BY <1>4, <3>3
  <2>2. CASE m > 0
    <3>1. m - 1 \in Nat /\ J \in SUBSET (1..(m - 1))
      BY <1>5, <2>2
    <3>2. m - 1 \in bad
      BY <1>4, <3>1
    <3> HIDE DEF bad
    <3> QED
      BY <1>3, <1>5, <3>2
  <2> QED
    BY <1>5, <2>1, <2>2
<1>7. m > 0 /\ m - 1 \in Nat /\ J \ {m} \in SUBSET (1..(m - 1))
  BY <1>5, <1>6
<1>8. PICK f : Lists(f, J \ {m})
  <2>1. m - 1 \notin bad
    <3> HIDE DEF bad
    <3> QED
      BY <1>3, <1>5
  <2> QED
    BY <1>7, <2>1
<1> DEFINE k == Cardinality(J \ {m})
<1>9. k \in Nat /\ Cardinality(J) = k + 1
  <2>1. IsFiniteSet(J)
    <3>1. IsFiniteSet(1..m) /\ J \subseteq 1..m
      BY <1>4, <1>5, FS_Interval
    <3> QED
      BY <3>1, FS_Subset
  <2>2. IsFiniteSet(J \ {m}) /\ k = Cardinality(J) - 1
    BY <1>6, <2>1, FS_RemoveElement
  <2> QED
    BY <2>1, <2>2, FS_CardinalityType
<1> DEFINE g == [j \in 1..(k + 1) |-> IF j = k + 1 THEN m ELSE f[j]]
<1>10. f \in [1..k -> J \ {m}] /\ \A i, j \in 1..k : i < j => f[i] < f[j]
  BY <1>8
<1>11. Lists(g, J)
  <2> HIDE DEF k
  <2>1. g \in [1..(k + 1) -> J]
    BY <1>6, <1>9, <1>10
  <2>2. \A j \in 1..k : g[j] = f[j] /\ g[j] \in 1..(m - 1)
    <3>1. \A j \in 1..k : f[j] \in J \ {m}
      BY <1>10
    <3>2. \A j \in 1..k : f[j] \in 1..(m - 1)
      BY <1>7, <3>1
    <3>3. \A j \in 1..k : j \in 1..(k + 1) /\ j # k + 1
      BY <1>9
    <3> QED
      BY <3>2, <3>3
  <2>3. g[k + 1] = m
    BY <1>9
  <2>4. \A i, j \in 1..(k + 1) : i < j => g[i] < g[j]
    <3> HIDE DEF g
    <3> SUFFICES ASSUME NEW i \in 1..(k + 1), NEW j \in 1..(k + 1), i < j PROVE g[i] < g[j]
      OBVIOUS
    <3>1. i \in 1..k
      BY <1>9
    <3>2. CASE j = k + 1
      BY <1>5, <2>2, <2>3, <3>1, <3>2
    <3>3. CASE j \in 1..k
      BY <1>10, <2>2, <3>1, <3>3
    <3> QED
      BY <1>9, <3>2, <3>3
  <2> QED
    BY <1>9, <2>1, <2>4
<1> QED
  BY <1>4, <1>11

(* Cutting a tensor down to some rows keeps each of them once, in order: the   *)
(* same rows of every sequence that is cut down with it.                      *)
LEMMA SelectProperties ==
    ASSUME NEW n \in Nat, NEW I \in SUBSET (1..n)
    PROVE  \E c \in 0..n : \E order \in [1..c -> I] :
               /\ I # {} => c > 0
               /\ \A j, k \in 1..c : order[j] = order[k] => j = k
               /\ \A i \in I : \E j \in 1..c : order[j] = i
               /\ \A s : Select(s, I) = [k \in 1..c |-> s[order[k]]]
<1>1. IsFiniteSet(1..n) /\ Cardinality(1..n) = n
  BY FS_Interval
<1>2. IsFiniteSet(I) /\ Cardinality(I) \in Nat /\ Cardinality(I) <= n
  BY <1>1, FS_Subset, FS_CardinalityType
<1> DEFINE c == Cardinality(I)
           Increasing(f) == \A j, k \in 1..c : j < k => f[j] < f[k]
           order == CHOOSE f \in [1..c -> I] : Increasing(f)
<1>3. order \in [1..c -> I] /\ Increasing(order)
  <2>1. \E f \in [1..c -> I] : Increasing(f)
    BY Listing
  <2> HIDE DEF Increasing, c
  <2> QED
    BY <2>1
<1>4. \A s : Select(s, I) = [k \in 1..c |-> s[order[k]]]
  <2>1. DOMAIN order = 1..c
    BY <1>3
  <2> QED
    BY <2>1 DEF Select
<1> HIDE DEF order
<1>5. \A j, k \in 1..c : order[j] = order[k] => j = k
  <2>1. \A j \in 1..c : order[j] \in I
    BY <1>3
  <2>2. I \subseteq Nat
    OBVIOUS
  <2> SUFFICES ASSUME NEW j \in 1..c, NEW k \in 1..c, order[j] = order[k], j < k PROVE FALSE
    BY <1>2
  <2>3. order[j] < order[k] /\ order[j] \in Nat /\ order[k] \in Nat
    BY <1>3, <2>1, <2>2
  <2> QED
    BY <2>3
<1>6. \A i \in I : \E j \in 1..c : order[j] = i
  <2>1. order \in Injection(1..c, I)
    BY <1>3, <1>5 DEF Injection, IsInjective
  <2>2. IsFiniteSet(1..c) /\ Cardinality(1..c) = c
    BY <1>2, FS_Interval
  <2>3. order \in Surjection(1..c, I)
    BY <1>2, <2>1, <2>2, FS_Injection
  <2> QED
    BY <2>3 DEF Surjection
<1>7. (I # {} => c > 0) /\ c \in 0..n
  BY <1>2, FS_EmptySet
<1> HIDE DEF c
<1> QED
  BY <1>3, <1>4, <1>5, <1>6, <1>7

-------------------------------------------------------------------------------
(* The fields of a batch, and the lengths of its lists.                       *)
LEMMA BatchFields ==
    ASSUME NEW b \in Batch
    PROVE  /\ b.seqs \in Seq(Sequence) /\ b.rows \in Seq(Row) /\ b.ones \in Seq(Nat)
           /\ b.width \in Nat /\ b.mask \in Nat
           /\ Len(b.seqs) \in Nat /\ DOMAIN b.seqs = 1..Len(b.seqs)
           /\ Len(b.rows) \in Nat /\ DOMAIN b.rows = 1..Len(b.rows)
           /\ Len(b.ones) \in Nat /\ DOMAIN b.ones = 1..Len(b.ones)
           /\ \A i \in 1..Len(b.seqs) : b.seqs[i] \in Sequence
           /\ \A i \in 1..Len(b.rows) : b.rows[i] \in Row
           /\ \A i \in 1..Len(b.ones) : b.ones[i] \in Nat
<1>1. /\ b.seqs \in Seq(Sequence) /\ b.rows \in Seq(Row) /\ b.ones \in Seq(Nat)
      /\ b.width \in Nat /\ b.mask \in Nat
  BY DEF Batch
<1> QED
  BY <1>1, LenProperties, ElementOfSeq

(* The batch of a worker that holds nobody.                                   *)
LEMMA NoBatchSound ==
    ASSUME NEW d
    PROVE  /\ NoBatch \in Batch
           /\ Sound(NoBatch, 0, d)
           /\ Ids(NoBatch.seqs) = {}
           /\ NoBatch.width = NoBatch.mask
           /\ NoBatch.seqs = <<>> /\ DOMAIN NoBatch.seqs = {} /\ ~Wedged(NoBatch)
<1>1. <<>> \in Seq(Sequence) /\ <<>> \in Seq(Row) /\ <<>> \in Seq(Nat)
  BY EmptySeq
<1>2. Len(<<>>) = 0 /\ DOMAIN <<>> = {}
  OBVIOUS
<1>3. NoBatch \in Batch
  BY <1>1 DEF NoBatch, Batch
<1> QED
  BY <1>2, <1>3, RealModelAssumption DEF NoBatch, Sound, Aligned, Wedged, Ids

(* The positions of those who are not finished.                              *)
Kept(b) == {i \in DOMAIN b.seqs : ~b.seqs[i].finished}

(* What eviction leaves: a batch as sound as before, of those who are not      *)
(* finished.  A wedged batch it leaves alone.                                *)
LEMMA EvictSound ==
    ASSUME NEW b \in Batch, NEW s \in Nat, NEW d, Sound(b, s, d),
           NEW e, e = EvictFinished(b)
    PROVE  /\ e \in Batch
           /\ Sound(e, IF e.seqs = <<>> THEN 0 ELSE s, d)
           /\ \A i \in DOMAIN e.seqs : ~e.seqs[i].finished
           /\ Ids(e.seqs) = {b.seqs[i].id : i \in Kept(b)}
           /\ Wedged(b) => e = b
           /\ Wedged(e) => Wedged(b)
<1> DEFINE r == IF e.seqs = <<>> THEN 0 ELSE s
<1>1. /\ b.seqs \in Seq(Sequence) /\ Len(b.seqs) \in Nat /\ DOMAIN b.seqs = 1..Len(b.seqs)
      /\ b.width \in Nat /\ b.mask \in Nat
  BY BatchFields
<1>2. CASE Kept(b) = DOMAIN b.seqs
  <2>1. e = b
    BY <1>2 DEF EvictFinished, Kept
  <2>2. r = s
    BY <2>1 DEF Sound
  <2>3. Ids(e.seqs) = {b.seqs[i].id : i \in Kept(b)}
    BY <1>2, <2>1 DEF Ids
  <2>4. \A i \in DOMAIN e.seqs : ~e.seqs[i].finished
    BY <1>2, <2>1 DEF Kept
  <2> QED
    BY <2>1, <2>2, <2>3, <2>4
<1>3. CASE Kept(b) # DOMAIN b.seqs /\ Kept(b) = {}
  <2>1. e = NoBatch
    BY <1>3 DEF EvictFinished, Kept
  <2>2. ~Wedged(b)
    BY <1>3 DEF Sound, Kept
  <2>3. {b.seqs[i].id : i \in Kept(b)} = {}
    BY <1>3
  <2> QED
    <3>1. /\ e \in Batch /\ Sound(e, 0, d) /\ r = 0 /\ DOMAIN e.seqs = {} /\ ~Wedged(e)
          /\ Ids(e.seqs) = {b.seqs[i].id : i \in Kept(b)}
      BY <2>1, <2>3, NoBatchSound
    <3> QED
      BY <2>2, <3>1
<1>4. CASE Kept(b) # DOMAIN b.seqs /\ Kept(b) # {}
  <2>1. ~Wedged(b)
    BY <1>4 DEF Sound, Kept
  <2>2. Kept(b) \in SUBSET (1..Len(b.seqs))
    BY <1>1 DEF Kept
  <2>3. PICK c \in 0..Len(b.seqs) : \E order \in [1..c -> Kept(b)] :
            /\ Kept(b) # {} => c > 0
            /\ \A j, k \in 1..c : order[j] = order[k] => j = k
            /\ \A i \in Kept(b) : \E j \in 1..c : order[j] = i
            /\ \A t : Select(t, Kept(b)) = [k \in 1..c |-> t[order[k]]]
    <3>1. Len(b.seqs) \in Nat
      BY <1>1
    <3> QED
      BY ONLY <2>2, <3>1, SelectProperties, Zenon
  <2>4. PICK order \in [1..c -> Kept(b)] :
            /\ c \in 1..Len(b.seqs)
            /\ \A j, k \in 1..c : order[j] = order[k] => j = k
            /\ \A i \in Kept(b) : \E j \in 1..c : order[j] = i
            /\ \A t : Select(t, Kept(b)) = [k \in 1..c |-> t[order[k]]]
    <3>1. c > 0 => c \in 1..Len(b.seqs)
      BY <1>1
    <3> QED
      BY <1>4, <2>3, <3>1, Zenon
  <2>5. e = [b EXCEPT !.seqs = Select(@, Kept(b)), !.rows = Select(@, Kept(b)), !.ones = Select(@, Kept(b))]
    BY <1>4 DEF EvictFinished, Kept
  <2>6. /\ e.seqs = [k \in 1..c |-> b.seqs[order[k]]]
        /\ e.rows = [k \in 1..c |-> b.rows[order[k]]]
        /\ e.ones = [k \in 1..c |-> b.ones[order[k]]]
        /\ e.width = b.width /\ e.mask = b.mask
        /\ e = [seqs |-> e.seqs, rows |-> e.rows, width |-> e.width, ones |-> e.ones, mask |-> e.mask]
    BY <2>4, <2>5 DEF Batch
  <2>7. \A k \in 1..c : /\ order[k] \in 1..Len(b.seqs) /\ ~b.seqs[order[k]].finished
                        /\ b.seqs[order[k]] \in Sequence
                        /\ b.rows[order[k]] \in Row /\ b.ones[order[k]] \in Nat
    <3>1. Len(b.rows) = Len(b.seqs) /\ Len(b.ones) = Len(b.seqs)
      BY <2>1 DEF Sound, Aligned, Wedged
    <3>2. \A k \in 1..c : order[k] \in Kept(b)
      BY <2>4
    <3>3. \A k \in 1..c : order[k] \in 1..Len(b.seqs) /\ ~b.seqs[order[k]].finished
      BY <1>1, <3>2 DEF Kept
    <3> QED
      BY <3>1, <3>3, BatchFields
  <2>8. e.seqs \in Seq(Sequence) /\ e.rows \in Seq(Row) /\ e.ones \in Seq(Nat)
    <3>1. /\ e.seqs \in [1..c -> Sequence] /\ e.rows \in [1..c -> Row] /\ e.ones \in [1..c -> Nat]
      BY <2>6, <2>7
    <3> QED
      BY <2>4, <3>1, SeqDef
  <2>9. /\ Len(e.seqs) = c /\ Len(e.rows) = c /\ Len(e.ones) = c
        /\ DOMAIN e.seqs = 1..c
    BY <2>4, <2>6
  <2>10. e \in Batch
    BY <1>1, <2>6, <2>8 DEF Batch
  <2>11. ~Wedged(e) /\ r = s
    BY <2>4, <2>9, EmptySeq DEF Wedged
  <2>12. Aligned(e, s)
    <3>1. b.width + s = b.mask
      BY <2>1 DEF Sound, Aligned
    <3>2. \A i \in 1..c : /\ e.rows[i] = [id |-> e.seqs[i].id, held |-> e.seqs[i].tokens - 1]
                          /\ e.ones[i] = e.seqs[i].tokens - 1 + s
      BY <1>1, <2>6, <2>7 DEF Sound, Aligned
    <3> QED
      BY <2>4, <2>6, <2>9, <2>11, <3>1, <3>2 DEF Aligned
  <2>13. /\ \A i, j \in DOMAIN e.seqs : e.seqs[i].id = e.seqs[j].id => i = j
         /\ \A i \in DOMAIN e.seqs : Budgeted(e.seqs[i], d)
         /\ Len(e.seqs) <= MaxBatch
    <3>1. /\ \A i, j \in 1..Len(b.seqs) : b.seqs[i].id = b.seqs[j].id => i = j
          /\ \A i \in 1..Len(b.seqs) : Budgeted(b.seqs[i], d)
          /\ Len(b.seqs) <= MaxBatch
      BY <1>1 DEF Sound
    <3>2. \A i \in 1..c : e.seqs[i] = b.seqs[order[i]] /\ order[i] \in 1..Len(b.seqs)
      BY <2>6, <2>7
    <3>3. \A i, j \in 1..c : e.seqs[i].id = e.seqs[j].id => i = j
      <4>1. \A i, j \in 1..c : e.seqs[i].id = e.seqs[j].id => order[i] = order[j]
        <5> SUFFICES ASSUME NEW i \in 1..c, NEW j \in 1..c, e.seqs[i].id = e.seqs[j].id
                     PROVE  order[i] = order[j]
          OBVIOUS
        <5>1. b.seqs[order[i]].id = b.seqs[order[j]].id
          BY <3>2
        <5>2. order[i] \in 1..Len(b.seqs) /\ order[j] \in 1..Len(b.seqs)
          BY <3>2
        <5> QED
          BY ONLY <3>1, <5>1, <5>2
      <4> QED
        BY <2>4, <4>1, Zenon
    <3>4. \A i \in 1..c : Budgeted(e.seqs[i], d)
      BY <3>1, <3>2
    <3> QED
      BY <1>1, <2>4, <2>9, <3>1, <3>3, <3>4, RealModelAssumption
  <2>14. Sound(e, r, d)
    <3>1. e.seqs # <<>>
      BY <2>4, <2>9, EmptySeq
    <3> QED
      BY <2>11, <2>12, <2>13, <3>1 DEF Sound
  <2>15. \A i \in DOMAIN e.seqs : ~e.seqs[i].finished
    BY <2>6, <2>7, <2>9
  <2>16. Ids(e.seqs) = {b.seqs[i].id : i \in Kept(b)}
    <3>1. \A i \in 1..c : order[i] \in Kept(b) /\ e.seqs[i].id = b.seqs[order[i]].id
      BY <2>4, <2>6
    <3>2. \A i \in Kept(b) : \E j \in 1..c : order[j] = i
      BY <2>4
    <3>3. \A i \in Kept(b) : \E j \in 1..c : e.seqs[j].id = b.seqs[i].id
      BY <3>1, <3>2
    <3>4. Ids(e.seqs) = {e.seqs[i].id : i \in 1..c}
      BY <2>9 DEF Ids
    <3>5. \A x \in Ids(e.seqs) : \E i \in Kept(b) : x = b.seqs[i].id
      BY <3>1, <3>4
    <3>6. \A i \in Kept(b) : b.seqs[i].id \in Ids(e.seqs)
      BY <3>3, <3>4
    <3> QED
      BY <3>5, <3>6
  <2> QED
    BY <2>1, <2>10, <2>11, <2>14, <2>15, <2>16
<1> QED
  BY <1>2, <1>3, <1>4

-------------------------------------------------------------------------------
(* A set of numbers with a bound has a greatest element.                      *)
LEMMA Greatest ==
    ASSUME NEW bound \in Nat, NEW S \in SUBSET (0..bound), S # {}
    PROVE  Max(S) \in S /\ \A x \in S : Max(S) >= x
<1> DEFINE above == {u \in 0..bound : \A x \in S : u >= x}
<1>1. above # {} /\ above \subseteq Nat
  <2>1. \A x \in S : bound >= x
    OBVIOUS
  <2>2. bound \in above
    BY <2>1
  <2> QED
    BY <2>2
<1>2. PICK u \in above : \A v \in above : ~ (v < u)
  <2>1. \E u \in above : \A v \in above : ~ (<<v, u>> \in OpToRel(<, Nat))
    <3> HIDE DEF above
    <3> QED
      BY <1>1, NatLessThanWellFounded, WFMin, Zenon
  <2> HIDE DEF above
  <2> QED
    BY <1>1, <2>1 DEF OpToRel
<1>3. u \in S
  <2> SUFFICES ASSUME u \notin S PROVE FALSE
    OBVIOUS
  <2>1. \A x \in S : x \in Nat /\ u > x
    BY <1>2
  <2>2. PICK x \in S : TRUE
    OBVIOUS
  <2>3. u > x /\ x \in Nat /\ u \in 0..bound
    BY <1>2, <2>1
  <2>4. u - 1 \in 0..bound /\ \A y \in S : u - 1 >= y
    BY <2>1, <2>3
  <2>5. u - 1 \in above
    BY <2>4
  <2> HIDE DEF above
  <2> QED
    BY <1>2, <2>3, <2>5
<1>4. \A x \in S : u >= x
  BY <1>2
<1> QED
  BY <1>3, <1>4 DEF Max

(* The sequences a prefill takes, and those it leaves in the queue.           *)
LEMMA ChunkProperties ==
    ASSUME NEW q \in Seq(Sequence), q # <<>>, NEW free \in Nat \ {0}
    PROVE  LET chunk == Chunk(q, free)
               rest  == SubSeq(q, Len(chunk) + 1, Len(q))
           IN  /\ chunk \in Seq(Sequence) /\ Len(chunk) \in 1..free /\ Len(chunk) <= Len(q)
               /\ DOMAIN chunk = 1..Len(chunk)
               /\ \A i \in 1..Len(chunk) : chunk[i] = q[i]
               /\ rest \in Seq(Sequence) /\ DOMAIN rest = 1..(Len(q) - Len(chunk))
               /\ \A i \in 1..(Len(q) - Len(chunk)) : rest[i] = q[Len(chunk) + i]
<1> DEFINE chunk == Chunk(q, free)
           rest  == SubSeq(q, Len(chunk) + 1, Len(q))
<1>1. Len(q) \in Nat \ {0} /\ \A i \in 1..Len(q) : q[i] \in Sequence
  BY EmptySeq, ElementOfSeq, LenProperties
<1>2. PICK m \in 1..Len(q) : m <= free /\ chunk = SubSeq(q, 1, m)
  <2>1. Min({free, Len(q)}) \in {free, Len(q)} /\ Min({free, Len(q)}) <= free
        /\ Min({free, Len(q)}) <= Len(q)
    BY <1>1 DEF Min
  <2> DEFINE least == Min({free, Len(q)})
  <2>2. least \in 1..Len(q) /\ least <= free /\ chunk = SubSeq(q, 1, least)
    <3>1. chunk = SubSeq(q, 1, least)
      BY DEF Chunk
    <3> HIDE DEF least, chunk
    <3> QED
      BY <1>1, <2>1, <3>1 DEF least
  <2> HIDE DEF least, chunk
  <2> QED
    BY <2>2
<1> HIDE DEF chunk
<1>3. /\ chunk \in Seq(Sequence) /\ Len(chunk) = m /\ \A i \in 1..m : chunk[i] = q[i]
  BY <1>1, <1>2, SubSeqProperties
<1>4. /\ rest \in Seq(Sequence) /\ Len(rest) = Len(q) - m
      /\ \A i \in 1..(Len(q) - m) : rest[i] = q[m + i]
  <2>1. rest = SubSeq(q, m + 1, Len(q)) /\ m + 1 \in Int /\ Len(q) \in Int
    BY <1>1, <1>2, <1>3
  <2>2. \A i \in (m + 1)..Len(q) : q[i] \in Sequence
    BY <1>1, <1>2
  <2> HIDE DEF rest
  <2>3. /\ rest \in Seq(Sequence)
        /\ Len(rest) = IF m + 1 <= Len(q) THEN Len(q) - (m + 1) + 1 ELSE 0
        /\ \A i \in 1..(Len(q) - (m + 1) + 1) : rest[i] = q[(m + 1) + i - 1]
    BY <2>1, <2>2, SubSeqProperties
  <2> QED
    BY <1>1, <1>2, <2>3
<1>5. DOMAIN chunk = 1..m /\ DOMAIN rest = 1..(Len(q) - m)
  BY <1>3, <1>4, LenProperties
<1> HIDE DEF rest
<1>6. /\ chunk \in Seq(Sequence) /\ Len(chunk) \in 1..free /\ Len(chunk) <= Len(q)
      /\ DOMAIN chunk = 1..Len(chunk)
      /\ \A i \in 1..Len(chunk) : chunk[i] = q[i]
  BY <1>2, <1>3, <1>5, <1>1
<1>7. /\ rest \in Seq(Sequence) /\ DOMAIN rest = 1..(Len(q) - Len(chunk))
      /\ \A i \in 1..(Len(q) - Len(chunk)) : rest[i] = q[Len(chunk) + i]
  BY <1>3, <1>4, <1>5
<1> QED
  BY <1>6, <1>7 DEF chunk, rest

(* A token for a sequence that has not had all of its own.                    *)
LEMMA SampledProperties ==
    ASSUME NEW q \in Sequence, NEW ended
    PROVE  /\ Sampled(q, ended) \in Sequence
           /\ Sampled(q, ended).id = q.id
           /\ Sampled(q, ended).tokens = q.tokens + 1
           /\ Sampled(q, ended).max = q.max
           /\ Sampled(q, ended).generated = q.generated + 1
           /\ Sampled(q, ended).finished <=> q.id \in ended \/ q.generated + 1 >= q.max
<1> DEFINE over == q.id \in ended \/ q.generated + 1 >= q.max
           new  == [id |-> q.id, tokens |-> q.tokens + 1, max |-> q.max,
                    generated |-> q.generated + 1, finished |-> over]
<1>1. q.id \in SeqIds /\ q.tokens \in Nat /\ q.max \in 1..MaxNew /\ q.generated \in Nat
  BY DEF Sequence
<1>2. over \in BOOLEAN
  OBVIOUS
<1>3. Sampled(q, ended) = [q EXCEPT !.tokens = @ + 1, !.generated = @ + 1, !.finished = over]
  BY Zenon DEF Sampled
<1> HIDE DEF over
<1>4. Sampled(q, ended) = new
  BY <1>3 DEF Sequence
<1>5. new \in Sequence
  BY <1>1, <1>2 DEF Sequence
<1>6. Sampled(q, ended).finished <=> over
  BY <1>4
<1> QED
  BY <1>4, <1>5, <1>6 DEF over

(* What a chunk of the queue is when it gets into a batch.                    *)
Joining(chunk, b, d) ==
    /\ chunk \in Seq(Sequence) /\ Len(chunk) \in 1..(MaxBatch - Len(b.seqs))
    /\ DOMAIN chunk = 1..Len(chunk)
    /\ \A i \in 1..Len(chunk) :
         /\ chunk[i].tokens \in 1..MaxPrompt /\ chunk[i].generated = 0
         /\ d[chunk[i].id] = 0
    /\ \A i, j \in 1..Len(chunk) : chunk[i].id = chunk[j].id => i = j
    /\ Ids(chunk) \cap Ids(b.seqs) = {}

(* Events for these sequences and for nobody else.                            *)
Counted(d, e, seqs) ==
    \A id \in SeqIds : e[id] = IF id \in Ids(seqs) THEN d[id] + 1 ELSE d[id]

(* The rows of a chunk, as the prefill makes them, all of one width.           *)
LEMMA ChunkRows ==
    ASSUME NEW b \in Batch, NEW d, NEW chunk, Joining(chunk, b, d)
    PROVE  /\ [i \in DOMAIN chunk |-> [id |-> chunk[i].id, held |-> chunk[i].tokens]] \in Seq(Row)
           /\ [i \in DOMAIN chunk |-> chunk[i].tokens] \in Seq(Nat)
           /\ Max({chunk[i].tokens : i \in DOMAIN chunk}) \in Nat
           /\ \A i \in 1..Len(chunk) : chunk[i] \in Sequence /\ chunk[i].id \in SeqIds
           /\ Len(chunk) \in Nat \ {0}
<1>1. Len(chunk) \in Nat \ {0} /\ \A i \in 1..Len(chunk) : chunk[i] \in Sequence
  BY BatchFields, ElementOfSeq, RealModelAssumption DEF Joining
<1>2. \A i \in 1..Len(chunk) : chunk[i].id \in SeqIds /\ chunk[i].tokens \in 1..MaxPrompt
  BY <1>1 DEF Joining, Sequence
<1>3. DOMAIN chunk = 1..Len(chunk)
  BY DEF Joining
<1>4. /\ [i \in DOMAIN chunk |-> [id |-> chunk[i].id, held |-> chunk[i].tokens]]
            \in [1..Len(chunk) -> Row]
      /\ [i \in DOMAIN chunk |-> chunk[i].tokens] \in [1..Len(chunk) -> Nat]
  BY <1>2, <1>3, RealModelAssumption DEF Row
<1>5. Max({chunk[i].tokens : i \in DOMAIN chunk}) \in Nat
  <2> DEFINE T == {chunk[i].tokens : i \in DOMAIN chunk}
  <2>1. T \in SUBSET (0..MaxPrompt) /\ T # {}
    <3>1. \A i \in 1..Len(chunk) : chunk[i].tokens \in 0..MaxPrompt
      BY <1>2, RealModelAssumption
    <3>2. 1 \in DOMAIN chunk
      BY <1>1, <1>3
    <3> QED
      BY <1>3, <3>1, <3>2
  <2> HIDE DEF T
  <2>2. Max(T) \in T
    BY <2>1, Greatest, RealModelAssumption
  <2> QED
    BY <2>1, <2>2 DEF T
<1> QED
  BY <1>1, <1>2, <1>4, <1>5, SeqDef

(* Rows put behind rows.                                                     *)
LEMMA Joined ==
    ASSUME NEW S, NEW f \in Seq(S), NEW g \in Seq(S), NEW h, h = f \o g,
           NEW n, n = Len(f), NEW m, m = Len(g)
    PROVE  /\ h \in Seq(S) /\ Len(h) = n + m /\ DOMAIN h = 1..(n + m)
           /\ \A i \in 1..(n + m) : h[i] = IF i <= n THEN f[i] ELSE g[i - n]
<1>1. h \in Seq(S) /\ Len(h) = n + m
      /\ \A i \in 1..(n + m) : h[i] = IF i <= n THEN f[i] ELSE g[i - n]
  BY ConcatProperties
<1> QED
  BY <1>1, LenProperties

(* A chunk that may join a batch, and the batch p it has then joined.          *)
MayJoin(b, s, d, e, chunk) ==
    /\ b \in Batch /\ s \in Nat /\ Sound(b, s, d)
    /\ Joining(chunk, b, d) /\ Counted(d, e, chunk) /\ b.width = b.mask

HasJoined(p, b, s, e, chunk, ended) ==
    /\ p \in Batch /\ Sound(p, s, e) /\ p.seqs # <<>> /\ ~Wedged(p)
    /\ DOMAIN p.seqs = 1..(Len(b.seqs) + Len(chunk))
    /\ \A i \in 1..Len(b.seqs) : p.seqs[i] = b.seqs[i]
    /\ \A i \in 1..Len(chunk) : p.seqs[Len(b.seqs) + i] = Sampled(chunk[i], ended)

(* Rows that are joined to a cache as wide as its mask: the batch that runs    *)
(* stays as it is, and the newcomers stand behind it with their first token.  *)
LEMMA PrefillJoins ==
    ASSUME NEW b, NEW s, NEW d, NEW e, NEW chunk, NEW ended, MayJoin(b, s, d, e, chunk)
    PROVE  HasJoined(Prefilled(b, chunk, ended), b, s, e, chunk, ended)
<1> SUFFICES ASSUME b \in Batch, s \in Nat, Sound(b, s, d), Joining(chunk, b, d),
                    Counted(d, e, chunk), b.width = b.mask,
                    NEW p, p = Prefilled(b, chunk, ended)
             PROVE  /\ p \in Batch /\ Sound(p, s, e) /\ p.seqs # <<>> /\ ~Wedged(p)
                    /\ DOMAIN p.seqs = 1..(Len(b.seqs) + Len(chunk))
                    /\ \A i \in 1..Len(b.seqs) : p.seqs[i] = b.seqs[i]
                    /\ \A i \in 1..Len(chunk) : p.seqs[Len(b.seqs) + i] = Sampled(chunk[i], ended)
  BY DEF MayJoin, HasJoined
<1> DEFINE width == Max({chunk[i].tokens : i \in DOMAIN chunk})
           rows  == [i \in DOMAIN chunk |-> [id |-> chunk[i].id, held |-> chunk[i].tokens]]
           ones  == [i \in DOMAIN chunk |-> chunk[i].tokens]
           news  == [i \in DOMAIN chunk |-> Sampled(chunk[i], ended)]
<1>a. PICK n \in Nat : n = Len(b.seqs)
  BY BatchFields
<1>b. PICK m \in Nat \ {0} : m = Len(chunk)
  BY ChunkRows
<1>1. /\ b.seqs \in Seq(Sequence) /\ b.rows \in Seq(Row) /\ b.ones \in Seq(Nat)
      /\ b.width \in Nat /\ b.mask \in Nat /\ DOMAIN b.seqs = 1..n
      /\ \A i \in 1..n : b.seqs[i] \in Sequence
  BY <1>a, BatchFields
<1>2. /\ rows \in Seq(Row) /\ ones \in Seq(Nat) /\ width \in Nat
      /\ DOMAIN chunk = 1..m
      /\ \A i \in 1..m : chunk[i] \in Sequence /\ chunk[i].id \in SeqIds
  <2>1. DOMAIN chunk = 1..m
    BY <1>b DEF Joining
  <2> QED
    BY <1>b, <2>1, ChunkRows
<1>3. s = 0 /\ ~Wedged(b) /\ Len(b.rows) = n /\ Len(b.ones) = n
  BY <1>1, <1>a DEF Sound, Aligned, Wedged
<1>4. /\ news \in Seq(Sequence) /\ Len(news) = m
      /\ rows \in Seq(Row) /\ Len(rows) = m
      /\ ones \in Seq(Nat) /\ Len(ones) = m
  <2>1. news \in [1..m -> Sequence]
    BY <1>2, SampledProperties
  <2>2. news \in Seq(Sequence)
    BY <2>1, SeqDef
  <2>3. Len(news) = m /\ Len(rows) = m /\ Len(ones) = m
    BY <1>2
  <2> HIDE DEF news, rows, ones
  <2> QED
    BY <1>2, <2>2, <2>3
<1>5. PICK wide \in Nat :
        p = [seqs |-> b.seqs \o news, rows |-> b.rows \o rows, width |-> wide,
             ones |-> b.ones \o ones, mask |-> wide]
  <2> HIDE DEF rows, ones, width, news
  <2>1. CASE b.seqs = <<>>
    <3>1. b = NoBatch
      BY <2>1 DEF Sound
    <3>2. b.rows \o rows = rows /\ b.ones \o ones = ones
      BY <1>2, <3>1, ConcatEmptySeq DEF NoBatch
    <3>3. p = [[b EXCEPT !.rows = rows, !.width = width, !.ones = ones, !.mask = width]
                 EXCEPT !.seqs = @ \o news]
      BY <2>1 DEF Prefilled, rows, ones, width, news
    <3> QED
      BY <1>2, <3>2, <3>3 DEF Batch
  <2>2. CASE b.seqs # <<>>
    <3> DEFINE wide == Max({b.mask, width})
    <3>1. wide \in Nat
      <4>1. {b.mask, width} \in SUBSET (0..(b.mask + width)) /\ b.mask + width \in Nat
        BY <1>1, <1>2
      <4>2. wide \in {b.mask, width}
        BY <4>1, Greatest
      <4> HIDE DEF wide
      <4> QED
        BY <1>1, <1>2, <4>2
    <3>2. p = [Merge(b, rows, ones, width) EXCEPT !.seqs = @ \o news]
      BY <2>2 DEF Prefilled, rows, ones, width, news
    <3>3. Merge(b, rows, ones, width) =
            [b EXCEPT !.ones = @ \o ones, !.mask = wide, !.width = wide, !.rows = @ \o rows]
      BY DEF Merge
    <3> HIDE DEF wide
    <3> DEFINE merged == Merge(b, rows, ones, width)
    <3>4. /\ merged.ones = b.ones \o ones /\ merged.mask = wide /\ merged.width = wide
          /\ merged.rows = b.rows \o rows /\ merged.seqs = b.seqs
          /\ merged = [seqs |-> merged.seqs, rows |-> merged.rows, width |-> merged.width,
                        ones |-> merged.ones, mask |-> merged.mask]
      BY <3>3 DEF Batch
    <3> HIDE DEF merged
    <3>5. p = [seqs |-> b.seqs \o news, rows |-> b.rows \o rows, width |-> wide,
               ones |-> b.ones \o ones, mask |-> wide]
      BY <3>2, <3>4 DEF merged
    <3> QED
      BY <3>1, <3>5
  <2> QED
    BY <2>1, <2>2
<1> HIDE DEF width
<1>6. /\ p.seqs = b.seqs \o news /\ p.rows = b.rows \o rows /\ p.ones = b.ones \o ones
      /\ p.width = wide /\ p.mask = wide
  BY ONLY <1>5
<1>7. /\ p.seqs \in Seq(Sequence) /\ p.rows \in Seq(Row) /\ p.ones \in Seq(Nat)
      /\ Len(p.seqs) = n + m /\ Len(p.rows) = n + m /\ Len(p.ones) = n + m
      /\ DOMAIN p.seqs = 1..(n + m)
      /\ \A i \in 1..(n + m) : p.seqs[i] = IF i <= n THEN b.seqs[i] ELSE news[i - n]
      /\ \A i \in 1..(n + m) : p.rows[i] = IF i <= n THEN b.rows[i] ELSE rows[i - n]
      /\ \A i \in 1..(n + m) : p.ones[i] = IF i <= n THEN b.ones[i] ELSE ones[i - n]
  <2> HIDE DEF news, rows, ones
  <2>1. /\ b.seqs \in Seq(Sequence) /\ news \in Seq(Sequence) /\ p.seqs = b.seqs \o news
        /\ n = Len(b.seqs) /\ m = Len(news)
    BY <1>1, <1>4, <1>6, <1>a
  <2>2. /\ p.seqs \in Seq(Sequence) /\ Len(p.seqs) = n + m /\ DOMAIN p.seqs = 1..(n + m)
        /\ \A i \in 1..(n + m) : p.seqs[i] = IF i <= n THEN b.seqs[i] ELSE news[i - n]
    BY ONLY <2>1, Joined
  <2>3. /\ b.rows \in Seq(Row) /\ rows \in Seq(Row) /\ p.rows = b.rows \o rows
        /\ n = Len(b.rows) /\ m = Len(rows)
    BY <1>1, <1>3, <1>4, <1>6
  <2>4. /\ p.rows \in Seq(Row) /\ Len(p.rows) = n + m
        /\ \A i \in 1..(n + m) : p.rows[i] = IF i <= n THEN b.rows[i] ELSE rows[i - n]
    BY ONLY <2>3, Joined
  <2>5. /\ b.ones \in Seq(Nat) /\ ones \in Seq(Nat) /\ p.ones = b.ones \o ones
        /\ n = Len(b.ones) /\ m = Len(ones)
    BY <1>1, <1>3, <1>4, <1>6
  <2>6. /\ p.ones \in Seq(Nat) /\ Len(p.ones) = n + m
        /\ \A i \in 1..(n + m) : p.ones[i] = IF i <= n THEN b.ones[i] ELSE ones[i - n]
    BY ONLY <2>5, Joined
  <2> QED
    BY <2>2, <2>4, <2>6
<1>9. \A i \in 1..n : p.seqs[i] = b.seqs[i] /\ p.rows[i] = b.rows[i] /\ p.ones[i] = b.ones[i]
  <2> HIDE DEF news, rows, ones
  <2> QED
    BY <1>7
<1>10. \A i \in 1..m : /\ p.seqs[n + i] = Sampled(chunk[i], ended)
                       /\ p.rows[n + i] = [id |-> chunk[i].id, held |-> chunk[i].tokens]
                       /\ p.ones[n + i] = chunk[i].tokens
  <2>1. \A i \in 1..m : p.seqs[n + i] = news[i] /\ p.rows[n + i] = rows[i] /\ p.ones[n + i] = ones[i]
    <3> HIDE DEF news, rows, ones
    <3>1. \A i \in 1..m : n + i \in 1..(n + m) /\ ~ (n + i <= n) /\ (n + i) - n = i
      OBVIOUS
    <3> QED
      BY <1>7, <3>1
  <2> QED
    BY <1>2, <2>1
<1>c. \A i \in 1..m : /\ p.seqs[n + i].id = chunk[i].id
                      /\ p.seqs[n + i].tokens = chunk[i].tokens + 1
                      /\ p.seqs[n + i].max = chunk[i].max
                      /\ p.seqs[n + i].generated = chunk[i].generated + 1
                      /\ chunk[i].generated + 1 >= chunk[i].max => p.seqs[n + i].finished
  <2> SUFFICES ASSUME NEW i \in 1..m
               PROVE  /\ p.seqs[n + i].id = chunk[i].id
                      /\ p.seqs[n + i].tokens = chunk[i].tokens + 1
                      /\ p.seqs[n + i].max = chunk[i].max
                      /\ p.seqs[n + i].generated = chunk[i].generated + 1
                      /\ chunk[i].generated + 1 >= chunk[i].max => p.seqs[n + i].finished
    OBVIOUS
  <2>1. chunk[i] \in Sequence /\ p.seqs[n + i] = Sampled(chunk[i], ended)
    BY <1>2, <1>10
  <2> QED
    BY <2>1, SampledProperties
<1> HIDE DEF news, rows, ones
<1>11. p \in Batch
  BY <1>5, <1>6, <1>7 DEF Batch
<1>12. \A i \in 1..(n + m) : i \in 1..n \/ \E k \in 1..m : i = n + k
  <2>1. \A i \in 1..(n + m) : i \in 1..n \/ (i - n \in 1..m /\ i = n + (i - n))
    OBVIOUS
  <2> QED
    BY <2>1
<1>13. /\ Len(p.rows) = Len(p.seqs) /\ Len(p.ones) = Len(p.seqs) /\ ~Wedged(p)
       /\ p.seqs # <<>> /\ p.width + s = p.mask
  BY <1>3, <1>6, <1>7, EmptySeq DEF Wedged
<1>14. Aligned(p, s)
  <2>1. \A i \in 1..n : /\ p.rows[i] = [id |-> p.seqs[i].id, held |-> p.seqs[i].tokens - 1]
                        /\ p.ones[i] = p.seqs[i].tokens - 1 + s
    BY <1>1, <1>9 DEF Sound, Aligned
  <2>2. \A i \in 1..m : /\ p.rows[n + i] = [id |-> p.seqs[n + i].id, held |-> p.seqs[n + i].tokens - 1]
                        /\ p.ones[n + i] = p.seqs[n + i].tokens - 1 + s
    <3> SUFFICES ASSUME NEW i \in 1..m
                 PROVE  /\ p.rows[n + i] = [id |-> p.seqs[n + i].id, held |-> p.seqs[n + i].tokens - 1]
                        /\ p.ones[n + i] = p.seqs[n + i].tokens - 1 + s
      OBVIOUS
    <3>1. /\ p.seqs[n + i].id = chunk[i].id /\ p.seqs[n + i].tokens = chunk[i].tokens + 1
          /\ chunk[i].tokens \in Nat
      BY <1>2, <1>c DEF Sequence
    <3> QED
      BY <1>3, <1>10, <3>1
  <2>3. \A i \in 1..(n + m) : /\ p.rows[i] = [id |-> p.seqs[i].id, held |-> p.seqs[i].tokens - 1]
                              /\ p.ones[i] = p.seqs[i].tokens - 1 + s
    BY <1>12, <2>1, <2>2
  <2>4. DOMAIN p.seqs = 1..(n + m)
    BY <1>7
  <2> QED
    BY ONLY <1>13, <2>3, <2>4 DEF Aligned
<1>15. \A i \in DOMAIN p.seqs : Budgeted(p.seqs[i], e)
  <2>1. ASSUME NEW i \in 1..n PROVE Budgeted(p.seqs[i], e)
    <3>1. Budgeted(b.seqs[i], d) /\ b.seqs[i].id \in SeqIds
      BY <1>1 DEF Sound, Sequence
    <3>2. b.seqs[i].id \notin Ids(chunk)
      <4>1. b.seqs[i].id \in Ids(b.seqs)
        BY <1>1 DEF Ids
      <4> QED
        BY <4>1 DEF Joining
    <3> QED
      BY <1>9, <3>1, <3>2 DEF Budgeted, Counted
  <2>2. ASSUME NEW i \in 1..m PROVE Budgeted(p.seqs[n + i], e)
    <3>1. /\ chunk[i].id \in SeqIds /\ chunk[i].id \in Ids(chunk) /\ chunk[i].tokens \in Nat
          /\ chunk[i].max \in Nat \ {0} /\ chunk[i].generated = 0 /\ d[chunk[i].id] = 0
      <4>1. chunk[i] \in Sequence /\ chunk[i].generated = 0 /\ d[chunk[i].id] = 0
        BY <1>2, <1>b DEF Joining
      <4>2. chunk[i].id \in Ids(chunk)
        BY <1>2 DEF Ids
      <4> QED
        BY <4>1, <4>2, RealModelAssumption DEF Sequence
    <3>2. /\ p.seqs[n + i].id = chunk[i].id /\ p.seqs[n + i].tokens = chunk[i].tokens + 1
          /\ p.seqs[n + i].max = chunk[i].max /\ p.seqs[n + i].generated = 1
          /\ 1 >= chunk[i].max => p.seqs[n + i].finished
      BY <1>c, <3>1
    <3>3. e[chunk[i].id] = 1
      BY <3>1 DEF Counted
    <3> QED
      BY <3>1, <3>2, <3>3 DEF Budgeted
  <2> QED
    BY <1>7, <1>12, <2>1, <2>2
<1>16. \A i, j \in DOMAIN p.seqs : p.seqs[i].id = p.seqs[j].id => i = j
  <2>1. /\ \A i, j \in 1..n : p.seqs[i].id = p.seqs[j].id => i = j
        /\ \A i, j \in 1..m : p.seqs[n + i].id = p.seqs[n + j].id => i = j
        /\ \A i \in 1..n, j \in 1..m : p.seqs[i].id # p.seqs[n + j].id
    <3>1. \A i \in 1..m : p.seqs[n + i].id = chunk[i].id /\ chunk[i].id \in Ids(chunk)
      BY <1>2, <1>c DEF Ids
    <3>2. \A i \in 1..n : p.seqs[i].id = b.seqs[i].id /\ b.seqs[i].id \in Ids(b.seqs)
      BY <1>1, <1>9 DEF Ids
    <3>3. \A i, j \in 1..n : b.seqs[i].id = b.seqs[j].id => i = j
      BY <1>1 DEF Sound
    <3>4. \A i, j \in 1..m : chunk[i].id = chunk[j].id => i = j
      BY <1>b DEF Joining
    <3>5. Ids(chunk) \cap Ids(b.seqs) = {}
      BY DEF Joining
    <3>6. \A i, j \in 1..n : p.seqs[i].id = p.seqs[j].id => i = j
      BY ONLY <3>2, <3>3
    <3>7. \A i, j \in 1..m : p.seqs[n + i].id = p.seqs[n + j].id => i = j
      BY ONLY <3>1, <3>4
    <3>8. \A i \in 1..n, j \in 1..m : p.seqs[i].id # p.seqs[n + j].id
      BY ONLY <3>1, <3>2, <3>5
    <3> QED
      BY ONLY <3>6, <3>7, <3>8
  <2> SUFFICES ASSUME NEW i \in 1..(n + m), NEW j \in 1..(n + m), p.seqs[i].id = p.seqs[j].id
               PROVE  i = j
    BY <1>7
  <2>2. CASE i \in 1..n
    BY <1>12, <2>1, <2>2
  <2>3. CASE i \notin 1..n
    <3>1. PICK k \in 1..m : i = n + k
      BY <1>12, <2>3
    <3> QED
      BY <1>12, <2>1, <3>1
  <2> QED
    BY <2>2, <2>3
<1>17. Len(p.seqs) <= MaxBatch
  BY <1>7, <1>a, <1>b, RealModelAssumption DEF Joining
<1> QED
  BY <1>7, <1>9, <1>10, <1>11, <1>13, <1>14, <1>15, <1>16, <1>17, <1>a, <1>b DEF Sound

(* Rows that cannot be joined: the batch is wedged, and keeps its sequences.   *)
LEMMA PrefillWedges ==
    ASSUME NEW b \in Batch, NEW s \in Nat, NEW d, NEW chunk, NEW ended,
           Sound(b, s, d), Joining(chunk, b, d), b.width # b.mask,
           \A i \in DOMAIN b.seqs : ~b.seqs[i].finished,
           NEW p, p = Prefilled(b, chunk, ended)
    PROVE  p \in Batch /\ Sound(p, s, d) /\ Wedged(p) /\ p.seqs = b.seqs /\ b.seqs # <<>>
<1> DEFINE width == Max({chunk[i].tokens : i \in DOMAIN chunk})
           rows  == [i \in DOMAIN chunk |-> [id |-> chunk[i].id, held |-> chunk[i].tokens]]
           ones  == [i \in DOMAIN chunk |-> chunk[i].tokens]
           wide  == Max({b.mask, width})
<1>1. b.seqs # <<>>
  BY DEF Sound, NoBatch
<1>2. /\ b.seqs \in Seq(Sequence) /\ b.rows \in Seq(Row) /\ b.ones \in Seq(Nat)
      /\ b.width \in Nat /\ b.mask \in Nat /\ Len(b.ones) \in Nat /\ Len(b.seqs) \in Nat
  BY BatchFields
<1>3. ones \in Seq(Nat) /\ Len(ones) = Len(chunk) /\ width \in Nat /\ Len(chunk) \in Nat \ {0}
  <2>1. Len(ones) = Len(chunk)
    BY ChunkRows DEF Joining
  <2>2. ones \in Seq(Nat)
    BY ChunkRows
  <2>3. width \in Nat
    BY ChunkRows
  <2>4. Len(chunk) \in Nat \ {0}
    BY ChunkRows
  <2> HIDE DEF ones, width
  <2> QED
    BY <2>1, <2>2, <2>3, <2>4
<1>4. wide \in Nat /\ wide >= b.mask
  <2> HIDE DEF width
  <2>1. {b.mask, width} \in SUBSET (0..(b.mask + width)) /\ b.mask + width \in Nat
    BY <1>2, <1>3
  <2>2. wide \in {b.mask, width} /\ wide >= b.mask
    BY <2>1, Greatest
  <2> HIDE DEF wide
  <2> QED
    BY <1>2, <1>3, <2>2
<1>5. p = [b EXCEPT !.ones = @ \o ones, !.mask = wide]
  <2>1. p = Merge(b, rows, ones, width)
    BY <1>1 DEF Prefilled
  <2> HIDE DEF rows, ones, width
  <2>2. Merge(b, rows, ones, width) =
          [b EXCEPT !.ones = @ \o ones, !.mask = wide, !.width = @, !.rows = @]
    BY DEF Merge
  <2> HIDE DEF wide
  <2> QED
    BY <2>1, <2>2 DEF Batch
<1> HIDE DEF rows, ones, width, wide
<1>6. /\ p.seqs = b.seqs /\ p.rows = b.rows /\ p.width = b.width /\ p.mask = wide
      /\ p.ones = b.ones \o ones
      /\ p = [seqs |-> b.seqs, rows |-> b.rows, width |-> b.width,
              ones |-> b.ones \o ones, mask |-> wide]
  BY <1>5 DEF Batch
<1>7. /\ p.ones \in Seq(Nat) /\ Len(p.ones) = Len(b.ones) + Len(chunk)
      /\ \A i \in 1..(Len(b.ones) + Len(chunk)) :
            p.ones[i] = IF i <= Len(b.ones) THEN b.ones[i] ELSE ones[i - Len(b.ones)]
  <2>1. /\ b.ones \in Seq(Nat) /\ ones \in Seq(Nat) /\ p.ones = b.ones \o ones
        /\ Len(chunk) = Len(ones)
    BY <1>2, <1>3, <1>6
  <2> QED
    BY ONLY <2>1, Joined
<1>8. p \in Batch
  BY <1>2, <1>4, <1>6, <1>7 DEF Batch
<1>9. Len(b.ones) >= Len(b.seqs) /\ b.width + s <= b.mask /\ s > 0
  BY <1>2 DEF Sound, Aligned
<1>10. Wedged(p)
  BY <1>2, <1>3, <1>6, <1>7, <1>9 DEF Wedged
<1>11. Aligned(p, s)
  <2>1. \A i \in DOMAIN b.seqs : p.ones[i] = b.ones[i]
    <3>1. \A i \in DOMAIN b.seqs : i \in 1..(Len(b.ones) + Len(chunk)) /\ i <= Len(b.ones)
      <4>1. DOMAIN b.seqs = 1..Len(b.seqs)
        BY BatchFields
      <4>2. /\ Len(b.seqs) \in Nat /\ Len(b.ones) \in Nat /\ Len(chunk) \in Nat
            /\ Len(b.ones) >= Len(b.seqs)
        BY <1>2, <1>3, <1>9
      <4> QED
        BY ONLY <4>1, <4>2
    <3> QED
      BY <1>7, <3>1
  <2>2. \A i \in DOMAIN p.seqs : /\ p.rows[i] = [id |-> p.seqs[i].id, held |-> p.seqs[i].tokens - 1]
                                 /\ p.ones[i] = p.seqs[i].tokens - 1 + s
    BY <1>6, <2>1 DEF Sound, Aligned
  <2>3. Len(p.rows) = Len(p.seqs) /\ Len(p.ones) >= Len(p.seqs)
    BY <1>2, <1>3, <1>6, <1>7, <1>9 DEF Sound, Aligned
  <2>4. p.width + s <= p.mask
    BY <1>2, <1>4, <1>6, <1>9
  <2> QED
    BY <1>10, <2>2, <2>3, <2>4 DEF Aligned
<1>12. Sound(p, s, d)
  BY <1>1, <1>6, <1>9, <1>11 DEF Sound
<1> QED
  BY <1>1, <1>6, <1>8, <1>10, <1>12

-------------------------------------------------------------------------------
(* A decode that raised: one column more in the mask, and none in the cache.   *)
LEMMA WidenedSound ==
    ASSUME NEW b \in Batch, NEW s \in Nat, NEW d, Sound(b, s, d), ~Wedged(b), b.seqs # <<>>,
           NEW p, p = Widened(b)
    PROVE  p \in Batch /\ Sound(p, s + 1, d) /\ ~Wedged(p) /\ p.seqs = b.seqs
<1>1. /\ b.seqs \in Seq(Sequence) /\ b.rows \in Seq(Row) /\ b.ones \in Seq(Nat)
      /\ b.width \in Nat /\ b.mask \in Nat
      /\ Len(b.seqs) \in Nat /\ DOMAIN b.seqs = 1..Len(b.seqs)
  BY BatchFields
<1>2. Len(b.ones) = Len(b.seqs) /\ DOMAIN b.ones = 1..Len(b.seqs)
  BY BatchFields DEF Wedged
<1> DEFINE ones == [i \in DOMAIN b.ones |-> b.ones[i] + 1]
<1>3. ones \in Seq(Nat) /\ Len(ones) = Len(b.seqs)
  <2>1. \A i \in 1..Len(b.seqs) : b.ones[i] \in Nat
    BY <1>2, BatchFields
  <2>2. ones \in [1..Len(b.seqs) -> Nat]
    BY <1>2, <2>1
  <2>3. Len(ones) = Len(b.seqs)
    BY <1>1, <1>2
  <2> HIDE DEF ones
  <2> QED
    <3>1. PICK n \in Nat : n = Len(b.seqs)
      BY <1>1
    <3> QED
      BY <2>2, <2>3, <3>1, SeqDef
<1>4. p = [seqs |-> b.seqs, rows |-> b.rows, width |-> b.width, ones |-> ones, mask |-> b.mask + 1]
  BY DEF Widened, Batch
<1>5. /\ p.seqs = b.seqs /\ p.rows = b.rows /\ p.width = b.width /\ p.ones = ones
      /\ p.mask = b.mask + 1
  BY <1>4
<1>6. \A i \in 1..Len(b.seqs) : p.ones[i] = b.ones[i] + 1
  BY <1>2, <1>5
<1> HIDE DEF ones
<1>7. p \in Batch
  BY <1>1, <1>3, <1>4 DEF Batch
<1>8. ~Wedged(p)
  BY <1>3, <1>5 DEF Wedged
<1>9. Aligned(p, s + 1)
  <2>1. \A i \in 1..Len(b.seqs) :
          /\ b.rows[i] = [id |-> b.seqs[i].id, held |-> b.seqs[i].tokens - 1]
          /\ b.ones[i] = b.seqs[i].tokens - 1 + s /\ b.seqs[i].tokens \in Nat
    BY <1>1, BatchFields DEF Sound, Aligned, Sequence
  <2>2. \A i \in 1..Len(b.seqs) : p.ones[i] = p.seqs[i].tokens - 1 + (s + 1)
    <3> SUFFICES ASSUME NEW i \in 1..Len(b.seqs) PROVE p.ones[i] = p.seqs[i].tokens - 1 + (s + 1)
      OBVIOUS
    <3>1. PICK x \in Nat : x = b.seqs[i].tokens
      BY <2>1
    <3>2. p.seqs[i].tokens = x
      BY <1>5, <3>1
    <3>3. p.ones[i] = (x - 1 + s) + 1
      BY <1>6, <2>1, <3>1
    <3>4. (x - 1 + s) + 1 = x - 1 + (s + 1)
      BY ONLY x \in Nat, s \in Nat
    <3> QED
      BY <3>2, <3>3, <3>4
  <2>3. b.width + s = b.mask /\ Len(b.rows) = Len(b.seqs)
    BY DEF Sound, Aligned
  <2>4. p.width + (s + 1) = p.mask /\ Len(p.rows) = Len(p.seqs) /\ Len(p.ones) >= Len(p.seqs)
    BY <1>1, <1>3, <1>5, <2>3
  <2> QED
    BY <1>1, <1>5, <1>8, <2>1, <2>2, <2>4 DEF Aligned
<1> QED
  BY <1>5, <1>7, <1>8, <1>9 DEF Sound

(* What the two halves of a decode make of a batch, field by field.           *)
LEMMA WidenedFields ==
    ASSUME NEW b \in Batch
    PROVE  Widened(b) = [seqs |-> b.seqs, rows |-> b.rows, width |-> b.width,
                         ones |-> [i \in DOMAIN b.ones |-> b.ones[i] + 1], mask |-> b.mask + 1]
<1> DEFINE ones == [i \in DOMAIN b.ones |-> b.ones[i] + 1]
<1>1. Widened(b) = [b EXCEPT !.ones = ones, !.mask = b.mask + 1]
  BY DEF Widened
<1> HIDE DEF ones
<1>2. Widened(b) = [seqs |-> b.seqs, rows |-> b.rows, width |-> b.width,
                    ones |-> ones, mask |-> b.mask + 1]
  BY <1>1 DEF Batch
<1> QED
  BY <1>2 DEF ones

LEMMA DecodedFields ==
    ASSUME NEW b \in Batch, NEW ended
    PROVE  Decoded(b, ended) =
             [seqs  |-> [i \in DOMAIN b.seqs |-> Sampled(b.seqs[i], ended)],
              rows  |-> [i \in DOMAIN b.rows |-> [id |-> b.rows[i].id, held |-> b.rows[i].held + 1]],
              width |-> b.width + 1,
              ones  |-> [i \in DOMAIN b.ones |-> b.ones[i] + 1],
              mask  |-> b.mask + 1]
<1> DEFINE ones == [i \in DOMAIN b.ones |-> b.ones[i] + 1]
           rows == [i \in DOMAIN b.rows |-> [id |-> b.rows[i].id, held |-> b.rows[i].held + 1]]
           news == [i \in DOMAIN b.seqs |-> Sampled(b.seqs[i], ended)]
           widened == Widened(b)
           grown == [i \in DOMAIN widened.rows |-> [id |-> widened.rows[i].id, held |-> widened.rows[i].held + 1]]
           next == [i \in DOMAIN widened.seqs |-> Sampled(widened.seqs[i], ended)]
<1>1. widened = [seqs |-> b.seqs, rows |-> b.rows, width |-> b.width,
                 ones |-> ones, mask |-> b.mask + 1]
  BY WidenedFields
<1>2. Decoded(b, ended) =
        [widened EXCEPT !.rows = grown, !.width = @ + 1, !.seqs = next]
  BY DEF Decoded
<1> HIDE DEF widened, ones
<1>3. /\ widened.seqs = b.seqs /\ widened.rows = b.rows /\ widened.width = b.width
  BY <1>1
<1>4. grown = rows /\ next = news
  BY <1>3, Zenon
<1> HIDE DEF rows, news, grown, next
<1>5. Decoded(b, ended) = [widened EXCEPT !.rows = rows, !.width = b.width + 1, !.seqs = news]
  BY <1>2, <1>3, <1>4
<1>6. Decoded(b, ended) = [seqs |-> news, rows |-> rows, width |-> b.width + 1,
                           ones |-> ones, mask |-> b.mask + 1]
  BY <1>1, <1>5
<1> QED
  BY <1>6 DEF rows, news, ones

(* A decode: each sequence has one token more, and its row holds the one it    *)
(* had sampled before.                                                       *)
LEMMA DecodedSound ==
    ASSUME NEW b \in Batch, NEW s \in Nat, NEW d, NEW e, NEW ended,
           Sound(b, s, d), ~Wedged(b), b.seqs # <<>>,
           Kept(b) = DOMAIN b.seqs, Counted(d, e, b.seqs),
           NEW p, p = Decoded(b, ended)
    PROVE  p \in Batch /\ Sound(p, s, e) /\ ~Wedged(p)
<1>a. PICK n \in Nat : n = Len(b.seqs)
  BY BatchFields
<1>1. /\ b.seqs \in Seq(Sequence) /\ b.rows \in Seq(Row) /\ b.ones \in Seq(Nat)
      /\ b.width \in Nat /\ b.mask \in Nat /\ n # 0
      /\ DOMAIN b.seqs = 1..n /\ \A i \in 1..n : b.seqs[i] \in Sequence
  BY <1>a, BatchFields, EmptySeq
<1>2. /\ Len(b.ones) = n /\ Len(b.rows) = n /\ DOMAIN b.ones = 1..n /\ DOMAIN b.rows = 1..n
      /\ \A i \in 1..n : b.ones[i] \in Nat /\ b.rows[i] \in Row
  <2>1. Len(b.ones) = n /\ Len(b.rows) = n
    BY <1>a DEF Wedged, Sound, Aligned
  <2> QED
    BY <2>1, BatchFields
<1>3. \A i \in 1..n : /\ b.rows[i] = [id |-> b.seqs[i].id, held |-> b.seqs[i].tokens - 1]
                      /\ b.ones[i] = b.seqs[i].tokens - 1 + s
                      /\ b.seqs[i].tokens \in Nat /\ b.seqs[i].tokens > 0
                      /\ b.seqs[i].id \in SeqIds
  BY <1>1 DEF Sound, Aligned, Budgeted, Sequence
<1> DEFINE ones == [i \in DOMAIN b.ones |-> b.ones[i] + 1]
           rows == [i \in DOMAIN b.rows |-> [id |-> b.rows[i].id, held |-> b.rows[i].held + 1]]
           news == [i \in DOMAIN b.seqs |-> Sampled(b.seqs[i], ended)]
<1>4. p = [seqs |-> news, rows |-> rows, width |-> b.width + 1, ones |-> ones, mask |-> b.mask + 1]
  BY DecodedFields
<1>5. /\ p.seqs = news /\ p.rows = rows /\ p.width = b.width + 1 /\ p.ones = ones
      /\ p.mask = b.mask + 1
  <2> HIDE DEF news, rows, ones
  <2> QED
    BY <1>4
<1>6. \A i \in 1..n : news[i] = Sampled(b.seqs[i], ended)
  BY <1>1
<1>7. \A i \in 1..n : ones[i] = b.seqs[i].tokens + s
  <2> SUFFICES ASSUME NEW i \in 1..n PROVE ones[i] = b.seqs[i].tokens + s
    OBVIOUS
  <2>1. /\ b.seqs[i].tokens \in Nat /\ b.ones[i] = b.seqs[i].tokens - 1 + s
        /\ ones[i] = b.ones[i] + 1
    BY <1>2, <1>3
  <2> HIDE DEF ones
  <2> QED
    BY ONLY <2>1, s \in Nat
<1>8. \A i \in 1..n : rows[i] = [id |-> b.seqs[i].id, held |-> b.seqs[i].tokens]
  <2> SUFFICES ASSUME NEW i \in 1..n
               PROVE  rows[i] = [id |-> b.seqs[i].id, held |-> b.seqs[i].tokens]
    OBVIOUS
  <2>1. rows[i] = [id |-> b.rows[i].id, held |-> b.rows[i].held + 1]
    BY <1>2
  <2>2. PICK h \in Nat : h = b.seqs[i].tokens - 1 /\ h + 1 = b.seqs[i].tokens
    <3>1. b.seqs[i].tokens \in Nat /\ b.seqs[i].tokens > 0
      BY <1>3
    <3>2. b.seqs[i].tokens - 1 \in Nat /\ (b.seqs[i].tokens - 1) + 1 = b.seqs[i].tokens
      BY ONLY <3>1
    <3> QED
      BY ONLY <3>2
  <2>3. b.rows[i] = [id |-> b.seqs[i].id, held |-> h]
    BY <1>3, <2>2
  <2> HIDE DEF rows
  <2> QED
    BY ONLY <2>1, <2>2, <2>3
<1>9. /\ news \in Seq(Sequence) /\ Len(news) = n /\ DOMAIN news = 1..n
      /\ rows \in Seq(Row) /\ Len(rows) = n
      /\ ones \in Seq(Nat) /\ Len(ones) = n
  <2>1. news \in [1..n -> Sequence]
    BY <1>1, SampledProperties
  <2>2. \A i \in 1..n : rows[i] \in Row
    <3> HIDE DEF rows
    <3> SUFFICES ASSUME NEW i \in 1..n PROVE rows[i] \in Row
      OBVIOUS
    <3>1. /\ rows[i] = [id |-> b.seqs[i].id, held |-> b.seqs[i].tokens]
          /\ b.seqs[i].id \in SeqIds /\ b.seqs[i].tokens \in Nat
      BY <1>3, <1>8
    <3> QED
      BY ONLY <3>1 DEF Row
  <2>3. rows \in [1..n -> Row]
    BY <1>2, <2>2
  <2>4. ones \in [1..n -> Nat]
    BY <1>2
  <2> HIDE DEF news, rows, ones
  <2>5. news \in Seq(Sequence) /\ rows \in Seq(Row) /\ ones \in Seq(Nat)
    BY <2>1, <2>3, <2>4, SeqDef
  <2>6. DOMAIN news = 1..n /\ DOMAIN rows = 1..n /\ DOMAIN ones = 1..n
    BY <2>1, <2>3, <2>4
  <2> QED
    BY <2>5, <2>6, LenProperties, <1>a
<1> HIDE DEF news, rows, ones
<1>10. p \in Batch
  BY <1>1, <1>4, <1>9 DEF Batch
<1>11. \A i \in 1..n : /\ p.seqs[i].id = b.seqs[i].id /\ p.seqs[i].tokens = b.seqs[i].tokens + 1
                       /\ p.seqs[i].max = b.seqs[i].max
                       /\ p.seqs[i].generated = b.seqs[i].generated + 1
                       /\ b.seqs[i].generated + 1 >= b.seqs[i].max => p.seqs[i].finished
  <2> SUFFICES ASSUME NEW i \in 1..n
               PROVE  /\ p.seqs[i].id = b.seqs[i].id /\ p.seqs[i].tokens = b.seqs[i].tokens + 1
                      /\ p.seqs[i].max = b.seqs[i].max
                      /\ p.seqs[i].generated = b.seqs[i].generated + 1
                      /\ b.seqs[i].generated + 1 >= b.seqs[i].max => p.seqs[i].finished
    OBVIOUS
  <2>1. p.seqs[i] = Sampled(b.seqs[i], ended) /\ b.seqs[i] \in Sequence
    BY <1>1, <1>5, <1>6
  <2> QED
    BY <2>1, SampledProperties
<1>12. ~Wedged(p) /\ p.seqs # <<>> /\ Len(p.rows) = Len(p.seqs) /\ Len(p.ones) = Len(p.seqs)
       /\ DOMAIN p.seqs = 1..n /\ Len(p.seqs) = n
  BY <1>1, <1>5, <1>9, EmptySeq DEF Wedged
<1>13. Aligned(p, s)
  <2>1. \A i \in 1..n : /\ p.rows[i] = [id |-> p.seqs[i].id, held |-> p.seqs[i].tokens - 1]
                        /\ p.ones[i] = p.seqs[i].tokens - 1 + s
    <3> SUFFICES ASSUME NEW i \in 1..n
                 PROVE  /\ p.rows[i] = [id |-> p.seqs[i].id, held |-> p.seqs[i].tokens - 1]
                        /\ p.ones[i] = p.seqs[i].tokens - 1 + s
      OBVIOUS
    <3>1. p.seqs[i].tokens - 1 = b.seqs[i].tokens /\ p.seqs[i].id = b.seqs[i].id
      <4>1. /\ b.seqs[i].tokens \in Nat /\ p.seqs[i].tokens = b.seqs[i].tokens + 1
            /\ p.seqs[i].id = b.seqs[i].id
        BY <1>3, <1>11
      <4> QED
        BY ONLY <4>1
    <3> QED
      BY <1>5, <1>7, <1>8, <3>1
  <2>2. p.width + s = p.mask
    <3>1. b.width + s = b.mask
      BY DEF Sound, Aligned
    <3> QED
      BY <1>1, <1>5, <3>1
  <2> QED
    BY <1>12, <2>1, <2>2 DEF Aligned
<1>14. \A i \in 1..n : Budgeted(p.seqs[i], e)
  <2> SUFFICES ASSUME NEW i \in 1..n PROVE Budgeted(p.seqs[i], e)
    OBVIOUS
  <2>1. b.seqs[i] \in Sequence /\ ~b.seqs[i].finished /\ Budgeted(b.seqs[i], d)
    BY <1>1 DEF Sound, Kept
  <2>2. /\ b.seqs[i].generated \in Nat /\ b.seqs[i].max \in Nat
        /\ b.seqs[i].generated < b.seqs[i].max
    BY <2>1, RealModelAssumption DEF Sequence, Budgeted
  <2>3. b.seqs[i].id \in Ids(b.seqs)
    BY <1>1 DEF Ids
  <2>4. e[b.seqs[i].id] = b.seqs[i].generated + 1
    BY <1>3, <2>1, <2>3 DEF Counted, Budgeted
  <2>5. /\ p.seqs[i].id = b.seqs[i].id /\ p.seqs[i].tokens = b.seqs[i].tokens + 1
        /\ p.seqs[i].max = b.seqs[i].max /\ b.seqs[i].tokens \in Nat
        /\ p.seqs[i].generated = b.seqs[i].generated + 1
        /\ b.seqs[i].generated + 1 >= b.seqs[i].max => p.seqs[i].finished
    BY <1>3, <1>11
  <2> QED
    BY ONLY <2>2, <2>4, <2>5 DEF Budgeted
<1>15. \A i, j \in 1..n : p.seqs[i].id = p.seqs[j].id => i = j
  <2>1. \A i, j \in 1..n : b.seqs[i].id = b.seqs[j].id => i = j
    BY <1>1 DEF Sound
  <2>2. \A i \in 1..n : p.seqs[i].id = b.seqs[i].id
    BY <1>11
  <2> QED
    BY ONLY <2>1, <2>2
<1>16. Sound(p, s, e)
  <2>1. n <= MaxBatch
    BY <1>a DEF Sound
  <2> QED
    BY <1>12, <1>13, <1>14, <1>15, <2>1 DEF Sound
<1> QED
  BY <1>10, <1>12, <1>16

-------------------------------------------------------------------------------
(* What every step starts from: the batch after the eviction.                 *)
LEMMA Evicted ==
    ASSUME IInv, NEW b, b = EvictFinished(batch)
    PROVE  /\ b \in Batch /\ Sound(b, SlipOf(b), delivered) /\ SlipOf(b) \in 0..failures
           /\ \A i \in DOMAIN b.seqs : ~b.seqs[i].finished
           /\ Ids(b.seqs) = {batch.seqs[i].id : i \in Kept(batch)}
           /\ Ids(b.seqs) \subseteq Ids(batch.seqs)
           /\ Resident = Ids(waiting) \cup Ids(b.seqs)
           /\ Wedged(batch) => b = batch /\ Wedged(b)
           /\ Wedged(b) => Wedged(batch)
<1>1. /\ batch \in Batch /\ slip \in Nat /\ slip \in 0..failures /\ failures \in Nat
      /\ Sound(batch, slip, delivered)
  BY DEF IInv, TypeOK
<1>2. /\ b \in Batch
      /\ Sound(b, IF b.seqs = <<>> THEN 0 ELSE slip, delivered)
      /\ \A i \in DOMAIN b.seqs : ~b.seqs[i].finished
      /\ Ids(b.seqs) = {batch.seqs[i].id : i \in Kept(batch)}
      /\ Wedged(batch) => b = batch
      /\ Wedged(b) => Wedged(batch)
  BY <1>1, EvictSound
<1>3. SlipOf(b) = (IF b.seqs = <<>> THEN 0 ELSE slip)
  BY DEF SlipOf
<1>4. SlipOf(b) \in 0..failures
  BY <1>1, <1>3
<1>5. Ids(b.seqs) \subseteq Ids(batch.seqs)
  BY <1>2 DEF Ids, Kept
<1>6. Resident = Ids(waiting) \cup Ids(b.seqs)
  BY <1>2 DEF Resident, Kept
<1> QED
  BY <1>2, <1>3, <1>4, <1>5, <1>6

(* A queue of which this much was taken for the batch, and this is left.      *)
Split(chunk, rest, b) ==
    /\ Joining(chunk, b, delivered)
    /\ rest \in Seq(Sequence)
    /\ Ids(waiting) = Ids(chunk) \cup Ids(rest) /\ Ids(chunk) \cap Ids(rest) = {}
    /\ Ids(chunk) # {} /\ Ids(chunk) \subseteq SeqIds
    /\ \A i, j \in DOMAIN rest : rest[i].id = rest[j].id => i = j
    /\ \A i \in DOMAIN rest : /\ rest[i].tokens \in 1..MaxPrompt /\ rest[i].generated = 0
                              /\ ~rest[i].finished /\ delivered[rest[i].id] = 0

(* What a prefill takes from the queue, and what it leaves there.             *)
LEMMA Taken ==
    ASSUME IInv, NEW b, b = EvictFinished(batch), MayPrefill(b),
           NEW chunk, chunk = Chunk(waiting, MaxBatch - Len(b.seqs)),
           NEW rest, rest = SubSeq(waiting, Len(chunk) + 1, Len(waiting))
    PROVE  Split(chunk, rest, b)
<1>1. PICK free \in Nat \ {0} : free = MaxBatch - Len(b.seqs)
  <2>1. Len(b.seqs) \in Nat /\ MaxBatch > Len(b.seqs) /\ MaxBatch \in Nat
    BY Evicted, BatchFields, RealModelAssumption DEF MayPrefill
  <2>2. MaxBatch - Len(b.seqs) \in Nat \ {0}
    BY <2>1
  <2> QED
    BY <2>2
<1>2. waiting \in Seq(Sequence) /\ waiting # <<>> /\ Untouched /\ Apart
  BY DEF MayPrefill, IInv, TypeOK
<1>3. PICK n \in Nat : n = Len(waiting)
  BY <1>2, LenProperties
<1>4. /\ chunk \in Seq(Sequence) /\ Len(chunk) \in 1..free /\ Len(chunk) <= n
      /\ DOMAIN chunk = 1..Len(chunk)
      /\ \A i \in 1..Len(chunk) : chunk[i] = waiting[i]
      /\ rest \in Seq(Sequence) /\ DOMAIN rest = 1..(n - Len(chunk))
      /\ \A i \in 1..(n - Len(chunk)) : rest[i] = waiting[Len(chunk) + i]
  BY <1>1, <1>2, <1>3, ChunkProperties
<1>5. PICK m \in 1..n : m = Len(chunk)
  BY <1>1, <1>3, <1>4
<1>6. DOMAIN waiting = 1..n
  BY <1>2, <1>3, LenProperties
<1>7. /\ \A i, j \in 1..n : waiting[i].id = waiting[j].id => i = j
      /\ \A i \in 1..n : /\ waiting[i].tokens \in 1..MaxPrompt
                         /\ waiting[i].generated = 0 /\ ~waiting[i].finished
                         /\ delivered[waiting[i].id] = 0
  BY <1>2, <1>6 DEF Untouched
<1>8. /\ \A i \in 1..m : i \in 1..n /\ chunk[i] = waiting[i]
      /\ \A i \in 1..(n - m) : m + i \in 1..n /\ rest[i] = waiting[m + i]
  BY <1>3, <1>4, <1>5
<1>a. /\ Ids(waiting) = {waiting[i].id : i \in 1..n} /\ Ids(chunk) = {chunk[i].id : i \in 1..m}
      /\ Ids(rest) = {rest[i].id : i \in 1..(n - m)}
  <2>1. DOMAIN chunk = 1..m /\ DOMAIN rest = 1..(n - m)
    BY <1>4, <1>5
  <2> QED
    BY <1>6, <2>1 DEF Ids
<1>9. Ids(waiting) = Ids(chunk) \cup Ids(rest)
  <2>1. \A i \in 1..n : i \in 1..m \/ (i - m \in 1..(n - m) /\ m + (i - m) = i)
    OBVIOUS
  <2>2. \A i \in 1..n : \/ i \in 1..m /\ waiting[i].id = chunk[i].id
                        \/ \E k \in 1..(n - m) : waiting[i].id = rest[k].id
    BY <1>8, <2>1
  <2>3. \A i \in 1..n : waiting[i].id \in Ids(chunk) \cup Ids(rest)
    BY <1>4, <1>5, <2>2 DEF Ids
  <2>4. Ids(waiting) \subseteq Ids(chunk) \cup Ids(rest)
    BY <1>6, <2>3 DEF Ids
  <2>5. (\A i \in 1..m : chunk[i].id \in Ids(waiting)) /\ (\A i \in 1..(n - m) : rest[i].id \in Ids(waiting))
    BY <1>a, <1>8
  <2>6. Ids(chunk) \subseteq Ids(waiting) /\ Ids(rest) \subseteq Ids(waiting)
    BY <1>a, <2>5
  <2> QED
    BY <2>4, <2>6
<1>10. Ids(chunk) \cap Ids(rest) = {}
  <2> SUFFICES ASSUME NEW i \in 1..m, NEW j \in 1..(n - m), chunk[i].id = rest[j].id PROVE FALSE
    BY <1>a
  <2>1. waiting[i].id = waiting[m + j].id /\ i \in 1..n /\ m + j \in 1..n
    BY <1>8
  <2>2. i = m + j
    BY <1>7, <2>1
  <2> QED
    BY <2>2
<1>11. Ids(chunk) # {} /\ Ids(chunk) \subseteq SeqIds
  <2>1. 1 \in 1..m /\ \A i \in 1..m : chunk[i] \in Sequence
    BY <1>4, <1>5, ElementOfSeq
  <2>2. \A i \in 1..m : chunk[i].id \in SeqIds
    BY <2>1 DEF Sequence
  <2>3. chunk[1].id \in Ids(chunk)
    BY ONLY <1>a, <2>1
  <2>4. Ids(chunk) \subseteq SeqIds
    BY ONLY <1>a, <2>2
  <2> QED
    BY ONLY <2>3, <2>4
<1>12. Joining(chunk, b, delivered)
  <2>1. Ids(chunk) \cap Ids(b.seqs) = {}
    BY <1>2, <1>9, Evicted DEF Apart
  <2>2. \A i \in 1..m : /\ chunk[i].tokens \in 1..MaxPrompt /\ chunk[i].generated = 0
                        /\ delivered[chunk[i].id] = 0
    BY <1>7, <1>8
  <2>3. \A i, j \in 1..m : chunk[i].id = chunk[j].id => i = j
    BY <1>7, <1>8
  <2> QED
    BY <1>1, <1>4, <1>5, <2>1, <2>2, <2>3 DEF Joining
<1>13. \A i, j \in 1..(n - m) : rest[i].id = rest[j].id => i = j
  <2> SUFFICES ASSUME NEW i \in 1..(n - m), NEW j \in 1..(n - m), rest[i].id = rest[j].id
               PROVE  i = j
    OBVIOUS
  <2>1. waiting[m + i].id = waiting[m + j].id /\ m + i \in 1..n /\ m + j \in 1..n
    BY <1>8
  <2>2. m + i = m + j
    BY <1>7, <2>1
  <2> QED
    BY <2>2
<1>14. \A i \in 1..(n - m) : /\ rest[i].tokens \in 1..MaxPrompt /\ rest[i].generated = 0
                            /\ ~rest[i].finished /\ delivered[rest[i].id] = 0
  <2> SUFFICES ASSUME NEW i \in 1..(n - m)
               PROVE  /\ rest[i].tokens \in 1..MaxPrompt /\ rest[i].generated = 0
                      /\ ~rest[i].finished /\ delivered[rest[i].id] = 0
    OBVIOUS
  <2>1. rest[i] = waiting[m + i] /\ m + i \in 1..n
    BY <1>8
  <2> QED
    BY <1>7, <2>1
<1>15. rest \in Seq(Sequence) /\ DOMAIN rest = 1..(n - m)
  BY <1>4, <1>5
<1>16. \A i, j \in DOMAIN rest : rest[i].id = rest[j].id => i = j
  BY ONLY <1>13, <1>15
<1>17. \A i \in DOMAIN rest : /\ rest[i].tokens \in 1..MaxPrompt /\ rest[i].generated = 0
                             /\ ~rest[i].finished /\ delivered[rest[i].id] = 0
  BY ONLY <1>14, <1>15
<1> QED
  BY ONLY <1>9, <1>10, <1>11, <1>12, <1>15, <1>16, <1>17 DEF Split

(* Emit counts one event for each of these sequences.                         *)
LEMMA EmitCounts ==
    ASSUME IInv, NEW seqs, Emit(seqs), \A id \in Ids(seqs) : delivered[id] < MaxNew
    PROVE  /\ Counted(delivered, delivered', seqs)
           /\ delivered' \in [SeqIds -> 0..MaxNew]
<1>1. Counted(delivered, delivered', seqs)
  BY DEF Emit, Counted
<1>2. \A id \in SeqIds : delivered[id] \in 0..MaxNew
  BY DEF IInv, TypeOK
<1>3. \A id \in SeqIds : delivered'[id] \in 0..MaxNew
  BY <1>1, <1>2, RealModelAssumption DEF Counted
<1>4. delivered' = [id \in SeqIds |-> IF id \in Ids(seqs) THEN delivered[id] + 1 ELSE delivered[id]]
  BY DEF Emit
<1> QED
  BY <1>1, <1>3, <1>4

-------------------------------------------------------------------------------
(* The worker starts with nobody in it.                                       *)
LEMMA InitIInv == Init => IInv
<1> SUFFICES ASSUME Init PROVE IInv
  OBVIOUS
<1>1. /\ NoBatch \in Batch /\ Sound(NoBatch, 0, delivered) /\ Ids(NoBatch.seqs) = {} /\ ~Wedged(NoBatch)
  BY NoBatchSound
<1>2. TypeOK
  <2>1. waiting \in Seq(Sequence) /\ batch \in Batch /\ lost \subseteq SeqIds
    BY <1>1, EmptySeq DEF Init
  <2>2. continuous \in BOOLEAN
    BY RealModelAssumption DEF Init
  <2>3. delivered \in [SeqIds -> 0..MaxNew] /\ failures \in 0..MaxFailures /\ slip \in 0..failures
    BY RealModelAssumption DEF Init
  <2> QED
    BY <2>1, <2>2, <2>3 DEF TypeOK
<1>3. Untouched
  BY DEF Init, Untouched
<1>4. Apart
  BY <1>1 DEF Init, Apart
<1> QED
  BY <1>1, <1>2, <1>3, <1>4 DEF Init, IInv

(* A newcomer stands behind the others and owes all its events.               *)
LEMMA AdmitIInv ==
    ASSUME IInv, NEW id \in SeqIds, NEW prompt \in 1..MaxPrompt, NEW new \in 1..MaxNew,
           Admit(id, prompt, new)
    PROVE  IInv' /\ Ids(waiting') = Ids(waiting) \cup {id}
<1> DEFINE q == [id |-> id, tokens |-> prompt, max |-> new, generated |-> 0, finished |-> FALSE]
<1>1. q \in Sequence /\ q.id = id /\ q.tokens = prompt /\ q.generated = 0 /\ ~q.finished
  BY RealModelAssumption DEF Sequence
<1>2. waiting' = Append(waiting, q) /\ waiting \in Seq(Sequence)
  BY DEF Admit, IInv, TypeOK
<1> HIDE DEF q
<1>3. PICK n \in Nat : n = Len(waiting)
  BY <1>2, LenProperties
<1>4. /\ waiting' \in Seq(Sequence) /\ DOMAIN waiting = 1..n /\ DOMAIN waiting' = 1..(n + 1)
      /\ \A i \in 1..n : waiting'[i] = waiting[i]
      /\ waiting'[n + 1] = q
  BY <1>1, <1>2, <1>3, AppendProperties, LenProperties
<1>5. \A i \in 1..(n + 1) : i = n + 1 \/ i \in 1..n
  OBVIOUS
<1>6. Ids(waiting') = Ids(waiting) \cup {id}
  <2>1. Ids(waiting') = {waiting'[i].id : i \in 1..(n + 1)} /\ Ids(waiting) = {waiting[i].id : i \in 1..n}
    BY <1>4 DEF Ids
  <2>2. n + 1 \in 1..(n + 1) /\ \A i \in 1..n : i \in 1..(n + 1)
    OBVIOUS
  <2>3. \A x \in Ids(waiting') : x \in Ids(waiting) \cup {id}
    BY <1>1, <1>4, <1>5, <2>1
  <2>4. id \in Ids(waiting') /\ \A x \in Ids(waiting) : x \in Ids(waiting')
    BY <1>1, <1>4, <2>1, <2>2
  <2> QED
    BY <2>3, <2>4
<1>7. /\ id \notin Ids(waiting) /\ id \notin Ids(batch.seqs) /\ id \notin lost
      /\ batch' = batch /\ slip' = slip /\ lost' = lost /\ failures' = failures
      /\ continuous' = continuous
  BY DEF Admit, history
<1>8. /\ delivered' \in [SeqIds -> 0..MaxNew] /\ delivered'[id] = 0
      /\ \A x \in SeqIds \ {id} : delivered'[x] = delivered[x]
  BY RealModelAssumption DEF Admit, IInv, TypeOK
<1>9. TypeOK'
  BY <1>4, <1>7, <1>8 DEF IInv, TypeOK
<1>10. Sound(batch, slip, delivered)'
  <2>1. \A i \in DOMAIN batch.seqs : delivered'[batch.seqs[i].id] = delivered[batch.seqs[i].id]
    <3> SUFFICES ASSUME NEW i \in DOMAIN batch.seqs
                 PROVE  delivered'[batch.seqs[i].id] = delivered[batch.seqs[i].id]
      OBVIOUS
    <3>1. batch.seqs[i] \in Sequence
      BY BatchFields DEF IInv, TypeOK
    <3>2. batch.seqs[i].id \in SeqIds /\ batch.seqs[i].id \in Ids(batch.seqs)
      BY <3>1 DEF Sequence, Ids
    <3> QED
      BY <1>7, <1>8, <3>2
  <2>2. Sound(batch, slip, delivered)
    BY DEF IInv
  <2>3. Sound(batch, slip, delivered')
    BY <2>1, <2>2 DEF Sound, Budgeted
  <2> QED
    BY <1>7, <2>3
<1>11. Untouched'
  <2>1. /\ \A i, j \in 1..n : waiting[i].id = waiting[j].id => i = j
        /\ \A i \in 1..n : /\ waiting[i].tokens \in 1..MaxPrompt
                           /\ waiting[i].generated = 0 /\ ~waiting[i].finished
                           /\ delivered[waiting[i].id] = 0
    BY <1>4 DEF IInv, Untouched
  <2>2. \A i \in 1..n : waiting[i].id \in SeqIds /\ waiting[i].id # id
    <3>1. \A i \in 1..n : waiting[i] \in Sequence
      BY <1>2, <1>3, ElementOfSeq
    <3> QED
      BY <1>4, <1>7, <3>1 DEF Ids, Sequence
  <2>3. \A i \in 1..(n + 1) : /\ waiting'[i].tokens \in 1..MaxPrompt
                             /\ waiting'[i].generated = 0 /\ ~waiting'[i].finished
                             /\ delivered'[waiting'[i].id] = 0
    BY <1>1, <1>4, <1>5, <1>8, <2>1, <2>2
  <2>4. \A i, j \in 1..(n + 1) : waiting'[i].id = waiting'[j].id => i = j
    BY <1>1, <1>4, <1>5, <2>1, <2>2
  <2> QED
    BY <1>4, <2>3, <2>4 DEF Untouched
<1>12. Apart'
  BY <1>6, <1>7 DEF IInv, Apart
<1> QED
  BY <1>6, <1>7, <1>9, <1>10, <1>11, <1>12 DEF IInv

(* What the rest of the system sees of a step: these requests had one event    *)
(* each, and nobody else came or went.                                       *)
Handed(E) ==
    /\ E \subseteq Resident
    /\ Resident' \cup lost' \subseteq Resident \cup lost
    /\ Resident \cup lost \subseteq Resident' \cup lost' \cup E
    /\ delivered' = [id \in SeqIds |-> IF id \in E THEN delivered[id] + 1 ELSE delivered[id]]

(* A set of requests that had no event is what a step without events hands     *)
(* back.                                                                     *)
LEMMA NothingHanded ==
    ASSUME IInv, delivered' = delivered
    PROVE  delivered' = [id \in SeqIds |-> IF id \in {} THEN delivered[id] + 1 ELSE delivered[id]]
BY DEF IInv, TypeOK

(* The newcomers join the batch.                                              *)
LEMMA PrefillStepJoins ==
    ASSUME IInv, PrefillStep, NEW b, b = EvictFinished(batch), b.width = b.mask
    PROVE  /\ IInv' /\ ~Wedged(batch') /\ \E E : Handed(E)
           /\ Ids(batch'.seqs) = Ids(b.seqs) \cup Ids(Chunk(waiting, MaxBatch - Len(b.seqs)))
<1> DEFINE chunk == Chunk(waiting, MaxBatch - Len(b.seqs))
           rest  == SubSeq(waiting, Len(chunk) + 1, Len(waiting))
<1>a. chunk = Chunk(waiting, MaxBatch - Len(b.seqs)) /\ rest = SubSeq(waiting, Len(chunk) + 1, Len(waiting))
  OBVIOUS
<1>1. PICK ended : batch' = Prefilled(b, chunk, ended)
  BY DEF PrefillStep
<1>2. /\ MayPrefill(b) /\ waiting' = rest /\ slip' = SlipOf(b) /\ Emit(chunk) /\ lost' = lost
      /\ continuous' = continuous /\ failures' = failures
  BY DEF PrefillStep
<1> HIDE DEF chunk, rest
<1>3. /\ Joining(chunk, b, delivered)
      /\ rest \in Seq(Sequence)
      /\ Ids(waiting) = Ids(chunk) \cup Ids(rest) /\ Ids(chunk) \cap Ids(rest) = {}
      /\ Ids(chunk) # {} /\ Ids(chunk) \subseteq SeqIds
      /\ \A i, j \in DOMAIN rest : rest[i].id = rest[j].id => i = j
      /\ \A i \in DOMAIN rest : /\ rest[i].tokens \in 1..MaxPrompt /\ rest[i].generated = 0
                                /\ ~rest[i].finished /\ delivered[rest[i].id] = 0
  <2>1. Split(chunk, rest, b)
    BY <1>2, <1>a, Taken
  <2> QED
    BY ONLY <2>1 DEF Split
<1>4. /\ b \in Batch /\ Sound(b, SlipOf(b), delivered) /\ SlipOf(b) \in 0..failures
      /\ \A i \in DOMAIN b.seqs : ~b.seqs[i].finished
      /\ Ids(b.seqs) \subseteq Ids(batch.seqs)
      /\ Resident = Ids(waiting) \cup Ids(b.seqs)
  BY Evicted
<1>5. Counted(delivered, delivered', chunk) /\ delivered' \in [SeqIds -> 0..MaxNew]
  <2>1. \A id \in Ids(chunk) : delivered[id] = 0
    BY <1>3 DEF Joining, Ids
  <2> QED
    BY <1>2, <2>1, EmitCounts, RealModelAssumption
<1>6. SlipOf(b) \in Nat /\ failures \in Nat
  BY <1>4 DEF IInv, TypeOK
<1>7. /\ batch' \in Batch /\ Sound(batch', SlipOf(b), delivered') /\ ~Wedged(batch')
      /\ DOMAIN batch'.seqs = 1..(Len(b.seqs) + Len(chunk))
      /\ \A i \in 1..Len(b.seqs) : batch'.seqs[i] = b.seqs[i]
      /\ \A i \in 1..Len(chunk) : batch'.seqs[Len(b.seqs) + i] = Sampled(chunk[i], ended)
  <2>1. MayJoin(b, SlipOf(b), delivered, delivered', chunk)
    BY <1>3, <1>4, <1>5, <1>6 DEF MayJoin
  <2>2. HasJoined(batch', b, SlipOf(b), delivered', chunk, ended)
    BY <1>1, <2>1, PrefillJoins, Zenon
  <2> QED
    BY <2>2 DEF HasJoined
<1>8. PICK n \in Nat : n = Len(b.seqs) /\ DOMAIN b.seqs = 1..n
  BY <1>4, BatchFields
<1>9. PICK m \in Nat : m = Len(chunk) /\ DOMAIN chunk = 1..m
  BY <1>3, <1>4, ChunkRows DEF Joining
<1>10. /\ \A i \in 1..n : batch'.seqs[i].id = b.seqs[i].id /\ ~batch'.seqs[i].finished
       /\ \A i \in 1..m : batch'.seqs[n + i].id = chunk[i].id
  <2>1. \A i \in 1..n : batch'.seqs[i].id = b.seqs[i].id /\ ~batch'.seqs[i].finished
    BY <1>4, <1>7, <1>8
  <2>2. ASSUME NEW i \in 1..m PROVE batch'.seqs[n + i].id = chunk[i].id
    <3>1. chunk[i] \in Sequence
      BY <1>3, <1>4, <1>9, ChunkRows
    <3>2. batch'.seqs[n + i] = Sampled(chunk[i], ended)
      BY <1>7, <1>8, <1>9
    <3> QED
      BY <3>1, <3>2, SampledProperties
  <2> QED
    BY <2>1, <2>2
<1>11. \A i \in DOMAIN batch'.seqs : i \in 1..n \/ \E k \in 1..m : i = n + k
  <2>1. \A i \in 1..(n + m) : i \in 1..n \/ (i - n \in 1..m /\ i = n + (i - n))
    OBVIOUS
  <2>2. DOMAIN batch'.seqs = 1..(n + m)
    BY <1>7, <1>8, <1>9
  <2> QED
    BY <2>1, <2>2
<1>12. /\ Ids(batch'.seqs) = Ids(b.seqs) \cup Ids(chunk)
       /\ Ids(b.seqs) \subseteq {batch'.seqs[i].id : i \in {j \in DOMAIN batch'.seqs : ~batch'.seqs[j].finished}}
  <2>1. \A i \in 1..n : b.seqs[i].id \in Ids(b.seqs)
    BY <1>8 DEF Ids
  <2>2. \A i \in 1..m : chunk[i].id \in Ids(chunk)
    BY <1>9 DEF Ids
  <2>3. \A i \in DOMAIN batch'.seqs : batch'.seqs[i].id \in Ids(b.seqs) \cup Ids(chunk)
    BY <1>10, <1>11, <2>1, <2>2
  <2>4. \A i \in 1..n : i \in DOMAIN batch'.seqs
    BY <1>7, <1>8, <1>9
  <2>5. \A i \in DOMAIN b.seqs : /\ b.seqs[i].id = batch'.seqs[i].id
                                /\ i \in {j \in DOMAIN batch'.seqs : ~batch'.seqs[j].finished}
    BY <1>8, <1>10, <2>4
  <2>6. \A i \in DOMAIN chunk : \E k \in DOMAIN batch'.seqs : batch'.seqs[k].id = chunk[i].id
    <3>1. \A i \in 1..m : n + i \in 1..(n + m)
      OBVIOUS
    <3> QED
      BY <1>7, <1>8, <1>9, <1>10, <3>1
  <2> QED
    BY <2>3, <2>5, <2>6 DEF Ids
<1>13. Resident' \subseteq Ids(rest) \cup Ids(b.seqs) \cup Ids(chunk)
       /\ Ids(rest) \cup Ids(b.seqs) \subseteq Resident'
  <2>1. Ids(waiting)' = Ids(rest)
    BY <1>2 DEF Ids
  <2>2. {batch'.seqs[i].id : i \in {j \in DOMAIN batch'.seqs : ~batch'.seqs[j].finished}} \subseteq Ids(batch'.seqs)
    BY DEF Ids
  <2> QED
    BY <1>12, <2>1, <2>2 DEF Resident
<1>14. TypeOK'
  BY <1>2, <1>3, <1>4, <1>5, <1>7 DEF IInv, TypeOK
<1>15. Untouched'
  <2>1. \A i \in DOMAIN rest : delivered'[rest[i].id] = delivered[rest[i].id]
    <3> SUFFICES ASSUME NEW i \in DOMAIN rest PROVE delivered'[rest[i].id] = delivered[rest[i].id]
      OBVIOUS
    <3>1. rest[i] \in Sequence
      BY <1>3, ElementOfSeq, LenProperties
    <3>2. rest[i].id \in SeqIds /\ rest[i].id \in Ids(rest)
      BY <3>1 DEF Ids, Sequence
    <3> QED
      BY <1>3, <1>5, <3>2 DEF Counted
  <2> QED
    BY <1>2, <1>3, <2>1 DEF Untouched
<1>16. Apart'
  <2>1. Ids(waiting') = Ids(rest) /\ lost' = lost
    BY <1>2
  <2>2. Ids(waiting') \cap Ids(batch'.seqs) = {}
    BY <1>3, <1>4, <1>12, <2>1 DEF IInv, Apart
  <2>3. lost' \cap (Ids(waiting') \cup Ids(batch'.seqs)) = {}
    BY <1>3, <1>4, <1>12, <2>1 DEF IInv, Apart
  <2> QED
    BY <2>2, <2>3 DEF Apart
<1>17. IInv'
  <2>1. Sound(batch, slip, delivered)'
    BY <1>2, <1>7
  <2>2. ~Wedged(batch)'
    BY <1>7
  <2>3. (failures = 0 => lost = {})'
    BY <1>2 DEF IInv
  <2> QED
    BY <1>14, <1>15, <1>16, <2>1, <2>2, <2>3 DEF IInv
<1>18. Handed(Ids(chunk))
  <2>1. delivered' = [id \in SeqIds |-> IF id \in Ids(chunk) THEN delivered[id] + 1 ELSE delivered[id]]
    BY <1>2 DEF Emit
  <2> QED
    BY <1>2, <1>3, <1>4, <1>13, <2>1 DEF Handed
<1> QED
  BY <1>7, <1>12, <1>17, <1>18, <1>a

(* The newcomers are lost, for their rows cannot be joined.                   *)
LEMMA PrefillStepWedges ==
    ASSUME IInv, PrefillStep, NEW b, b = EvictFinished(batch), b.width # b.mask
    PROVE  /\ IInv' /\ Wedged(batch') /\ \E E : Handed(E)
           /\ delivered' = delivered /\ batch'.seqs = b.seqs /\ b.seqs # <<>>
<1> DEFINE chunk == Chunk(waiting, MaxBatch - Len(b.seqs))
           rest  == SubSeq(waiting, Len(chunk) + 1, Len(waiting))
<1>a. chunk = Chunk(waiting, MaxBatch - Len(b.seqs)) /\ rest = SubSeq(waiting, Len(chunk) + 1, Len(waiting))
  OBVIOUS
<1>1. PICK ended : batch' = Prefilled(b, chunk, ended)
  BY DEF PrefillStep
<1>2. /\ MayPrefill(b) /\ waiting' = rest /\ slip' = SlipOf(b) /\ lost' = lost \cup Ids(chunk)
      /\ continuous' = continuous /\ failures' = failures /\ delivered' = delivered
  BY DEF PrefillStep
<1> HIDE DEF chunk, rest
<1>3. /\ Joining(chunk, b, delivered)
      /\ rest \in Seq(Sequence)
      /\ Ids(waiting) = Ids(chunk) \cup Ids(rest) /\ Ids(chunk) \cap Ids(rest) = {}
      /\ Ids(chunk) # {} /\ Ids(chunk) \subseteq SeqIds
      /\ \A i, j \in DOMAIN rest : rest[i].id = rest[j].id => i = j
      /\ \A i \in DOMAIN rest : /\ rest[i].tokens \in 1..MaxPrompt /\ rest[i].generated = 0
                                /\ ~rest[i].finished /\ delivered[rest[i].id] = 0
  <2>1. Split(chunk, rest, b)
    BY <1>2, <1>a, Taken
  <2> QED
    BY ONLY <2>1 DEF Split
<1>4. /\ b \in Batch /\ Sound(b, SlipOf(b), delivered) /\ SlipOf(b) \in 0..failures
      /\ \A i \in DOMAIN b.seqs : ~b.seqs[i].finished
      /\ Ids(b.seqs) \subseteq Ids(batch.seqs)
      /\ Resident = Ids(waiting) \cup Ids(b.seqs)
  BY Evicted
<1>5. SlipOf(b) \in Nat /\ failures \in Nat
  BY <1>4 DEF IInv, TypeOK
<1>6. batch' \in Batch /\ Sound(batch', SlipOf(b), delivered) /\ Wedged(batch')
      /\ batch'.seqs = b.seqs /\ b.seqs # <<>>
  BY <1>1, <1>3, <1>4, <1>5, PrefillWedges
<1>7. SlipOf(b) > 0
  BY <1>6 DEF Sound
<1>8. TypeOK'
  BY <1>2, <1>3, <1>4, <1>6 DEF IInv, TypeOK
<1>9. Untouched'
  BY <1>2, <1>3 DEF Untouched
<1>10. Ids(waiting)' = Ids(rest) /\ Ids(batch'.seqs) = Ids(b.seqs)
  BY <1>2, <1>6 DEF Ids
<1>11. Apart'
  BY <1>2, <1>3, <1>4, <1>10 DEF IInv, Apart, Joining
<1>12. failures' # 0 /\ lost' # {}
  BY <1>2, <1>3, <1>4, <1>5, <1>7
<1>13. IInv'
  BY <1>2, <1>6, <1>8, <1>9, <1>11, <1>12 DEF IInv
<1>14. Resident' = Ids(rest) \cup Ids(b.seqs)
  <2>1. {batch'.seqs[i].id : i \in {j \in DOMAIN batch'.seqs : ~batch'.seqs[j].finished}} = Ids(b.seqs)
    BY <1>4, <1>6 DEF Ids
  <2> QED
    BY <1>10, <2>1 DEF Resident
<1>15. Handed({})
  BY <1>2, <1>3, <1>4, <1>14, NothingHanded DEF Handed
<1> QED
  BY <1>2, <1>6, <1>13, <1>15

(* A prefill that raised loses its chunk.                                     *)
LEMMA PrefillRaisesIInv ==
    ASSUME IInv, PrefillRaises, NEW b, b = EvictFinished(batch)
    PROVE  IInv' /\ batch' = b /\ \E E : Handed(E)
<1> DEFINE chunk == Chunk(waiting, MaxBatch - Len(b.seqs))
           rest  == SubSeq(waiting, Len(chunk) + 1, Len(waiting))
<1>a. chunk = Chunk(waiting, MaxBatch - Len(b.seqs)) /\ rest = SubSeq(waiting, Len(chunk) + 1, Len(waiting))
  OBVIOUS
<1>1. /\ MayPrefill(b) /\ waiting' = rest /\ slip' = SlipOf(b) /\ lost' = lost \cup Ids(chunk)
      /\ continuous' = continuous /\ delivered' = delivered /\ batch' = b
      /\ failures < MaxFailures /\ failures' = failures + 1
  BY DEF PrefillRaises
<1> HIDE DEF chunk, rest
<1>2. /\ Joining(chunk, b, delivered)
      /\ rest \in Seq(Sequence)
      /\ Ids(waiting) = Ids(chunk) \cup Ids(rest) /\ Ids(chunk) \cap Ids(rest) = {}
      /\ Ids(chunk) # {} /\ Ids(chunk) \subseteq SeqIds
      /\ \A i, j \in DOMAIN rest : rest[i].id = rest[j].id => i = j
      /\ \A i \in DOMAIN rest : /\ rest[i].tokens \in 1..MaxPrompt /\ rest[i].generated = 0
                                /\ ~rest[i].finished /\ delivered[rest[i].id] = 0
  <2>1. Split(chunk, rest, b)
    BY <1>1, <1>a, Taken
  <2> QED
    BY ONLY <2>1 DEF Split
<1>3. /\ b \in Batch /\ Sound(b, SlipOf(b), delivered) /\ SlipOf(b) \in 0..failures
      /\ \A i \in DOMAIN b.seqs : ~b.seqs[i].finished
      /\ Ids(b.seqs) \subseteq Ids(batch.seqs)
      /\ Resident = Ids(waiting) \cup Ids(b.seqs)
  BY Evicted
<1>4. failures \in Nat /\ failures' \in 0..MaxFailures /\ failures' # 0 /\ SlipOf(b) \in 0..failures'
  BY <1>1, <1>3, RealModelAssumption DEF IInv, TypeOK
<1>5. TypeOK'
  BY <1>1, <1>2, <1>3, <1>4 DEF IInv, TypeOK
<1>6. Untouched'
  BY <1>1, <1>2 DEF Untouched
<1>7. Ids(waiting)' = Ids(rest) /\ Ids(batch'.seqs) = Ids(b.seqs)
  BY <1>1 DEF Ids
<1>8. Apart'
  BY <1>1, <1>2, <1>3, <1>7 DEF IInv, Apart, Joining
<1>9. IInv'
  BY <1>1, <1>2, <1>3, <1>4, <1>5, <1>6, <1>8 DEF IInv
<1>10. Resident' = Ids(rest) \cup Ids(b.seqs)
  <2>1. {batch'.seqs[i].id : i \in {j \in DOMAIN batch'.seqs : ~batch'.seqs[j].finished}} = Ids(b.seqs)
    BY <1>1, <1>3 DEF Ids
  <2> QED
    BY <1>7, <2>1 DEF Resident
<1>11. Handed({})
  BY <1>1, <1>2, <1>3, <1>10, NothingHanded DEF Handed
<1> QED
  BY <1>1, <1>9, <1>11

(* The sequences of the batch have a token each.                              *)
LEMMA DecodeStepRuns ==
    ASSUME IInv, DecodeStep, NEW b, b = EvictFinished(batch), b.seqs # <<>>, ~Wedged(b)
    PROVE  IInv' /\ Ids(batch'.seqs) = Ids(b.seqs) /\ \E E : Handed(E)
<1>1. PICK ended : batch' = Decoded(b, ended)
  BY DEF DecodeStep
<1>2. /\ waiting' = waiting /\ slip' = SlipOf(b) /\ Emit(b.seqs) /\ lost' = lost
      /\ continuous' = continuous /\ failures' = failures
  BY DEF DecodeStep
<1>3. /\ b \in Batch /\ Sound(b, SlipOf(b), delivered) /\ SlipOf(b) \in 0..failures
      /\ \A i \in DOMAIN b.seqs : ~b.seqs[i].finished
      /\ Ids(b.seqs) \subseteq Ids(batch.seqs)
      /\ Resident = Ids(waiting) \cup Ids(b.seqs)
  BY Evicted
<1>4. /\ b.seqs \in Seq(Sequence) /\ DOMAIN b.seqs = 1..Len(b.seqs)
      /\ \A i \in DOMAIN b.seqs : b.seqs[i] \in Sequence
  BY <1>3, BatchFields
<1>5. SlipOf(b) \in Nat /\ failures \in Nat
  BY <1>3 DEF IInv, TypeOK
<1>6. \A id \in Ids(b.seqs) : delivered[id] < MaxNew
  <2> SUFFICES ASSUME NEW i \in DOMAIN b.seqs PROVE delivered[b.seqs[i].id] < MaxNew
    BY DEF Ids
  <2>1. b.seqs[i] \in Sequence /\ Budgeted(b.seqs[i], delivered) /\ ~b.seqs[i].finished
    BY <1>3, <1>4 DEF Sound
  <2> QED
    BY <2>1, RealModelAssumption DEF Sequence, Budgeted
<1>7. Counted(delivered, delivered', b.seqs) /\ delivered' \in [SeqIds -> 0..MaxNew]
  BY <1>2, <1>6, EmitCounts
<1>8. /\ batch' \in Batch /\ Sound(batch', SlipOf(b), delivered') /\ ~Wedged(batch')
      /\ DOMAIN batch'.seqs = DOMAIN b.seqs
      /\ \A i \in DOMAIN b.seqs : batch'.seqs[i] = Sampled(b.seqs[i], ended)
  <2>1. /\ b \in Batch /\ SlipOf(b) \in Nat /\ Sound(b, SlipOf(b), delivered)
        /\ ~Wedged(b) /\ b.seqs # <<>> /\ Counted(delivered, delivered', b.seqs)
        /\ batch' = Decoded(b, ended)
    BY <1>1, <1>3, <1>5, <1>7
  <2>2. Kept(b) = DOMAIN b.seqs
    BY <1>3 DEF Kept
  <2>3. batch' \in Batch
    BY ONLY <2>1, <2>2, DecodedSound
  <2>4. Sound(batch', SlipOf(b), delivered')
    BY ONLY <2>1, <2>2, DecodedSound
  <2>5. ~Wedged(batch')
    BY ONLY <2>1, <2>2, DecodedSound
  <2>6. batch'.seqs = [i \in DOMAIN b.seqs |-> Sampled(b.seqs[i], ended)]
    BY ONLY <2>1, DecodedFields
  <2> QED
    BY ONLY <2>3, <2>4, <2>5, <2>6
<1>9. \A i \in DOMAIN b.seqs : batch'.seqs[i].id = b.seqs[i].id
  BY <1>4, <1>8, SampledProperties
<1>10. Ids(batch'.seqs) = Ids(b.seqs)
  BY <1>8, <1>9 DEF Ids
<1>11. TypeOK'
  BY <1>2, <1>3, <1>7, <1>8 DEF IInv, TypeOK
<1>12. Untouched'
  <2>1. \A i \in DOMAIN waiting : delivered'[waiting[i].id] = delivered[waiting[i].id]
    <3> SUFFICES ASSUME NEW i \in DOMAIN waiting
                 PROVE  delivered'[waiting[i].id] = delivered[waiting[i].id]
      OBVIOUS
    <3>1. waiting[i] \in Sequence
      BY ElementOfSeq, LenProperties DEF IInv, TypeOK
    <3>2. waiting[i].id \in SeqIds /\ waiting[i].id \in Ids(waiting)
      BY <3>1 DEF Ids, Sequence
    <3>3. waiting[i].id \notin Ids(b.seqs)
      BY <1>3, <3>2 DEF IInv, Apart
    <3> QED
      BY <1>7, <3>2, <3>3 DEF Counted
  <2> QED
    BY <1>2, <2>1 DEF IInv, Untouched
<1>13. Apart'
  <2>1. Ids(waiting') = Ids(waiting) /\ lost' = lost /\ Ids(batch'.seqs) \subseteq Ids(batch.seqs)
    BY <1>2, <1>3, <1>10
  <2> QED
    BY <2>1 DEF IInv, Apart
<1>14. IInv'
  <2>1. Sound(batch, slip, delivered)' /\ ~Wedged(batch)'
    BY <1>2, <1>8
  <2>2. (failures = 0 => lost = {})'
    BY <1>2 DEF IInv
  <2> QED
    BY <1>11, <1>12, <1>13, <2>1, <2>2 DEF IInv
<1>15. Handed(Ids(b.seqs))
  <2>1. delivered' = [id \in SeqIds |-> IF id \in Ids(b.seqs) THEN delivered[id] + 1 ELSE delivered[id]]
    BY <1>2 DEF Emit
  <2>2. Ids(waiting)' = Ids(waiting)
    BY <1>2
  <2>3. {batch'.seqs[i].id : i \in {j \in DOMAIN batch'.seqs : ~batch'.seqs[j].finished}} \subseteq Ids(batch'.seqs)
    BY DEF Ids
  <2>4. Resident' \subseteq Ids(waiting) \cup Ids(b.seqs) /\ Ids(waiting) \subseteq Resident'
    BY <1>10, <2>2, <2>3 DEF Resident
  <2> QED
    BY <1>2, <1>3, <2>1, <2>4 DEF Handed
<1> QED
  BY <1>10, <1>14, <1>15

(* Nobody runs, or the batch is wedged: the step changes nothing but evicts.   *)
LEMMA DecodeStepIdles ==
    ASSUME IInv, DecodeStep, NEW b, b = EvictFinished(batch), b.seqs = <<>> \/ Wedged(b)
    PROVE  IInv' /\ batch' = b /\ delivered' = delivered /\ \E E : Handed(E)
<1>1. /\ waiting' = waiting /\ slip' = SlipOf(b) /\ Emit(<<>>) /\ lost' = lost
      /\ continuous' = continuous /\ failures' = failures /\ batch' = b
  BY DEF DecodeStep
<1>2. /\ b \in Batch /\ Sound(b, SlipOf(b), delivered) /\ SlipOf(b) \in 0..failures
      /\ \A i \in DOMAIN b.seqs : ~b.seqs[i].finished
      /\ Ids(b.seqs) \subseteq Ids(batch.seqs)
      /\ Resident = Ids(waiting) \cup Ids(b.seqs)
      /\ Wedged(b) => Wedged(batch)
  BY Evicted
<1>3. delivered' = delivered
  <2>1. Ids(<<>>) = {}
    BY DEF Ids
  <2>2. delivered' = [id \in SeqIds |-> delivered[id]]
    BY <1>1, <2>1 DEF Emit
  <2> QED
    BY <2>2 DEF IInv, TypeOK
<1>4. TypeOK'
  BY <1>1, <1>2, <1>3 DEF IInv, TypeOK
<1>5. Untouched'
  BY <1>1, <1>3 DEF IInv, Untouched
<1>6. Ids(waiting)' = Ids(waiting) /\ Ids(batch'.seqs) = Ids(b.seqs)
  BY <1>1
<1>7. Apart'
  BY <1>1, <1>2, <1>6 DEF IInv, Apart
<1>8. IInv'
  BY <1>1, <1>2, <1>3, <1>4, <1>5, <1>7 DEF IInv
<1>9. Resident' = Ids(waiting) \cup Ids(b.seqs)
  <2>1. {batch'.seqs[i].id : i \in {j \in DOMAIN batch'.seqs : ~batch'.seqs[j].finished}} = Ids(b.seqs)
    BY <1>1, <1>2 DEF Ids
  <2> QED
    BY <1>6, <2>1 DEF Resident
<1>10. Handed({})
  BY <1>1, <1>2, <1>3, <1>9, NothingHanded DEF Handed
<1> QED
  BY <1>1, <1>3, <1>8, <1>10

(* A decode that raised leaves the column behind.                             *)
LEMMA DecodeRaisesIInv ==
    ASSUME IInv, DecodeRaises, NEW b, b = EvictFinished(batch)
    PROVE  IInv' /\ ~Wedged(b) /\ batch'.seqs = b.seqs /\ \E E : Handed(E)
<1>1. /\ b.seqs # <<>> /\ ~Wedged(b) /\ batch' = Widened(b) /\ slip' = slip + 1
      /\ waiting' = waiting /\ lost' = lost /\ continuous' = continuous /\ delivered' = delivered
      /\ failures < MaxFailures /\ failures' = failures + 1
  BY DEF DecodeRaises
<1>2. /\ b \in Batch /\ Sound(b, SlipOf(b), delivered)
      /\ \A i \in DOMAIN b.seqs : ~b.seqs[i].finished
      /\ Ids(b.seqs) \subseteq Ids(batch.seqs)
      /\ Resident = Ids(waiting) \cup Ids(b.seqs)
  BY Evicted
<1>3. SlipOf(b) = slip /\ slip \in Nat
  BY <1>1 DEF SlipOf, IInv, TypeOK
<1>4. batch' \in Batch /\ Sound(batch', slip + 1, delivered) /\ ~Wedged(batch') /\ batch'.seqs = b.seqs
  <2>1. /\ b \in Batch /\ slip \in Nat /\ Sound(b, slip, delivered) /\ ~Wedged(b) /\ b.seqs # <<>>
        /\ batch' = Widened(b)
    BY <1>1, <1>2, <1>3
  <2> QED
    BY ONLY <2>1, WidenedSound
<1>5. failures' \in 0..MaxFailures /\ failures' # 0 /\ slip' \in 0..failures'
  BY <1>1, RealModelAssumption DEF IInv, TypeOK
<1>6. TypeOK'
  BY <1>1, <1>4, <1>5 DEF IInv, TypeOK
<1>7. Untouched'
  BY <1>1 DEF IInv, Untouched
<1>8. Ids(waiting)' = Ids(waiting) /\ Ids(batch'.seqs) = Ids(b.seqs)
  BY <1>1, <1>4
<1>9. Apart'
  BY <1>1, <1>2, <1>8 DEF IInv, Apart
<1>10. IInv'
  BY <1>1, <1>4, <1>5, <1>6, <1>7, <1>9 DEF IInv
<1>11. Resident' = Ids(waiting) \cup Ids(b.seqs)
  <2>1. {batch'.seqs[i].id : i \in {j \in DOMAIN batch'.seqs : ~batch'.seqs[j].finished}} = Ids(b.seqs)
    BY <1>2, <1>4 DEF Ids
  <2> QED
    BY <1>8, <2>1 DEF Resident
<1>12. Handed({})
  BY <1>1, <1>2, <1>11, NothingHanded DEF Handed
<1> QED
  BY <1>1, <1>4, <1>10, <1>12

-------------------------------------------------------------------------------
(* reset() leaves nobody, and if no call raised there is nothing to miss.      *)
LEMMA ResetIInv ==
    ASSUME IInv, Reset, failures = 0
    PROVE  IInv'
<1>1. /\ waiting' = <<>> /\ batch' = NoBatch /\ continuous' = continuous
      /\ delivered' = delivered /\ lost' = lost /\ failures' = failures /\ slip' = slip
  BY DEF Reset, history
<1>2. lost = {} /\ slip = 0
  BY DEF IInv, TypeOK
<1>3. /\ NoBatch \in Batch /\ Sound(NoBatch, 0, delivered)
      /\ Ids(NoBatch.seqs) = {} /\ ~Wedged(NoBatch)
  BY NoBatchSound
<1>4. <<>> \in Seq(Sequence) /\ DOMAIN <<>> = {} /\ Ids(<<>>) = {}
  BY EmptySeq DEF Ids
<1>5. TypeOK'
  BY <1>1, <1>3, <1>4 DEF IInv, TypeOK
<1>6. Untouched' /\ Apart'
  BY <1>1, <1>2, <1>3, <1>4 DEF Untouched, Apart
<1> QED
  BY <1>1, <1>2, <1>3, <1>5, <1>6 DEF IInv

(* Those of the batch who are to have more.                                   *)
Unfinished == {batch.seqs[i].id : i \in Kept(batch)}

(* A step as the loop around a worker sees it whose model never raised: the    *)
(* first m of the queue joined those who were not finished, and these had a    *)
(* token each.                                                               *)
Turn(m, these) ==
    /\ DOMAIN waiting' = 1..(Len(waiting) - m)
    /\ Len(waiting') = Len(waiting) - m
    /\ \A i \in 1..(Len(waiting) - m) : waiting'[i] = waiting[m + i]
    /\ Ids(batch'.seqs) = Unfinished \cup {waiting[i].id : i \in 1..m}
    /\ delivered' = [id \in SeqIds |-> IF id \in these THEN delivered[id] + 1 ELSE delivered[id]]
    /\ continuous' = continuous /\ failures' = failures /\ slip' = 0

(* A prefill serves newcomers only, no more than a batch holds; in static mode  *)
(* nobody else is there.                                                     *)
LEMMA PrefillServes ==
    ASSUME IInv, PrefillStep, slip = 0
    PROVE  /\ IInv'
           /\ continuous \/ Unfinished = {}
           /\ \E m \in 1..Len(waiting) : m <= MaxBatch /\ Turn(m, {waiting[i].id : i \in 1..m})
<1>1. PICK b : b = EvictFinished(batch)
  OBVIOUS
<1>2. /\ b \in Batch /\ Sound(b, SlipOf(b), delivered) /\ Ids(b.seqs) = Unfinished
      /\ Len(b.seqs) \in Nat /\ b.width \in Nat /\ b.mask \in Nat
  BY <1>1, Evicted, BatchFields DEF Unfinished
<1>3. SlipOf(b) = 0 /\ b.width = b.mask
  BY <1>2 DEF SlipOf, Sound, Aligned
<1>4. PICK chunk : chunk = Chunk(waiting, MaxBatch - Len(b.seqs))
  OBVIOUS
<1>5. PICK free \in Nat \ {0} : free = MaxBatch - Len(b.seqs) /\ free <= MaxBatch
  <2>1. MaxBatch > Len(b.seqs) /\ MaxBatch \in Nat
    BY <1>1, RealModelAssumption DEF PrefillStep, MayPrefill
  <2>2. MaxBatch - Len(b.seqs) \in Nat \ {0} /\ MaxBatch - Len(b.seqs) <= MaxBatch
    BY <1>2, <2>1
  <2> QED
    BY <2>2
<1>6. PICK n \in Nat : n = Len(waiting) /\ waiting # <<>> /\ waiting \in Seq(Sequence)
  BY <1>1, LenProperties DEF PrefillStep, MayPrefill, IInv, TypeOK
<1>7. PICK m \in 1..n : m = Len(chunk) /\ m <= MaxBatch
  <2>1. Len(chunk) \in 1..free /\ Len(chunk) <= n
    BY <1>4, <1>5, <1>6, ChunkProperties
  <2>2. Len(chunk) \in 1..n /\ Len(chunk) <= MaxBatch
    BY <1>5, <2>1, RealModelAssumption
  <2> QED
    BY <2>2
<1>8. /\ waiting' = SubSeq(waiting, m + 1, n) /\ slip' = SlipOf(b) /\ Emit(chunk)
      /\ continuous' = continuous /\ failures' = failures
      /\ continuous \/ b.seqs = <<>>
  BY <1>1, <1>3, <1>4, <1>6, <1>7 DEF PrefillStep, MayPrefill
<1>9. /\ DOMAIN chunk = 1..m /\ \A i \in 1..m : chunk[i] = waiting[i]
      /\ SubSeq(waiting, m + 1, n) \in Seq(Sequence)
      /\ DOMAIN SubSeq(waiting, m + 1, n) = 1..(n - m)
      /\ \A i \in 1..(n - m) : SubSeq(waiting, m + 1, n)[i] = waiting[m + i]
  BY <1>4, <1>5, <1>6, <1>7, ChunkProperties
<1>10. Ids(chunk) = {waiting[i].id : i \in 1..m}
  BY <1>9 DEF Ids
<1>11. Len(waiting') = n - m
  <2>1. Len(waiting') \in Nat /\ 1..Len(waiting') = 1..(n - m) /\ n - m \in Nat
    BY <1>7, <1>8, <1>9, LenProperties
  <2> QED
    BY ONLY <2>1
<1>12. IInv' /\ Ids(batch'.seqs) = Ids(b.seqs) \cup Ids(chunk)
  BY <1>1, <1>3, <1>4, PrefillStepJoins
<1>13. Turn(m, {waiting[i].id : i \in 1..m})
  <2>1. delivered' = [id \in SeqIds |-> IF id \in Ids(chunk) THEN delivered[id] + 1 ELSE delivered[id]]
    BY <1>8 DEF Emit
  <2> QED
    BY <1>2, <1>3, <1>6, <1>8, <1>9, <1>10, <1>11, <1>12, <2>1 DEF Turn
<1>14. continuous \/ Unfinished = {}
  BY <1>2, <1>8 DEF Ids
<1> QED
  BY <1>6, <1>7, <1>12, <1>13, <1>14

(* A decode serves those who are in the batch; somebody is if anybody waits,    *)
(* and in continuous mode the batch is full then.                             *)
LEMMA DecodeServes ==
    ASSUME IInv, DecodeStep, slip = 0
    PROVE  /\ IInv'
           /\ Turn(0, Unfinished) /\ waiting' = waiting
           /\ waiting # <<>> => Unfinished # {}
           /\ waiting # <<>> /\ continuous
                 => IsFiniteSet(Unfinished) /\ Cardinality(Unfinished) = MaxBatch
<1>1. PICK b : b = EvictFinished(batch)
  OBVIOUS
<1>2. /\ b \in Batch /\ Sound(b, SlipOf(b), delivered) /\ Ids(b.seqs) = Unfinished
      /\ Len(b.seqs) \in Nat /\ DOMAIN b.seqs = 1..Len(b.seqs)
      /\ b.seqs \in Seq(Sequence)
  BY <1>1, Evicted, BatchFields DEF Unfinished
<1>3. SlipOf(b) = 0 /\ ~Wedged(b)
  BY <1>2 DEF SlipOf, Sound
<1>4. /\ waiting' = waiting /\ slip' = SlipOf(b) /\ continuous' = continuous
      /\ failures' = failures /\ ~MayPrefill(b)
  BY <1>1 DEF DecodeStep
<1>5. /\ IInv' /\ Ids(batch'.seqs) = Ids(b.seqs)
      /\ delivered' = [id \in SeqIds |-> IF id \in Ids(b.seqs) THEN delivered[id] + 1 ELSE delivered[id]]
  <2>1. CASE b.seqs # <<>>
    <3>1. IInv' /\ Ids(batch'.seqs) = Ids(b.seqs)
      BY <1>1, <1>3, <2>1, DecodeStepRuns
    <3> QED
      BY <1>1, <1>3, <2>1, <3>1 DEF DecodeStep, Emit
  <2>2. CASE b.seqs = <<>>
    <3>1. IInv' /\ batch' = b /\ delivered' = delivered
      BY <1>1, <2>2, DecodeStepIdles
    <3>2. Ids(b.seqs) = {}
      BY <2>2 DEF Ids
    <3>3. delivered' = [id \in SeqIds |-> IF id \in {} THEN delivered[id] + 1 ELSE delivered[id]]
      BY <3>1, NothingHanded
    <3> QED
      BY <3>1, <3>2, <3>3
  <2> QED
    BY <2>1, <2>2
<1>6. Turn(0, Unfinished)
  <2>1. waiting \in Seq(Sequence)
    BY DEF IInv, TypeOK
  <2>2. PICK n \in Nat : n = Len(waiting) /\ DOMAIN waiting = 1..n
    BY <2>1, LenProperties
  <2>3. n - 0 = n /\ \A i \in 1..n : 0 + i = i
    OBVIOUS
  <2>4. {waiting[i].id : i \in 1..0} = {}
    OBVIOUS
  <2> QED
    BY <1>2, <1>3, <1>4, <1>5, <2>2, <2>3, <2>4 DEF Turn
<1>7. ASSUME waiting # <<>> PROVE Unfinished # {}
  <2>1. b.seqs # <<>>
    <3>1. CASE b.seqs = <<>>
      <4>1. Len(b.seqs) = 0
        BY <3>1
      <4> QED
        BY <1>4, <1>7, <3>1, <4>1, RealModelAssumption DEF MayPrefill
    <3> QED
      BY <3>1
  <2>2. 1 \in DOMAIN b.seqs
    BY <1>2, <2>1, EmptySeq
  <2> QED
    BY <1>2, <2>2 DEF Ids
<1>8. ASSUME waiting # <<>>, continuous
      PROVE  IsFiniteSet(Unfinished) /\ Cardinality(Unfinished) = MaxBatch
  <2>1. Len(b.seqs) = MaxBatch
    <3>1. ~(MaxBatch > Len(b.seqs)) /\ Len(b.seqs) <= MaxBatch
      BY <1>2, <1>4, <1>8 DEF MayPrefill, Sound
    <3> QED
      BY <1>2, <3>1, RealModelAssumption
  <2> DEFINE f == [i \in 1..MaxBatch |-> b.seqs[i].id]
  <2>2. f \in [1..MaxBatch -> Unfinished] /\ \A u \in Unfinished : \E i \in 1..MaxBatch : f[i] = u
    BY <1>2, <2>1 DEF Ids
  <2>3. \A i, j \in 1..MaxBatch : f[i] = f[j] => i = j
    BY <1>2, <2>1 DEF Sound
  <2> HIDE DEF f
  <2>4. f \in Surjection(1..MaxBatch, Unfinished) /\ f \in Injection(1..MaxBatch, Unfinished)
    BY <2>2, <2>3 DEF Injection, Surjection, IsInjective
  <2>5. IsFiniteSet(1..MaxBatch) /\ Cardinality(1..MaxBatch) = MaxBatch
    BY FS_Interval, RealModelAssumption
  <2> QED
    BY <2>4, <2>5, FS_Surjection
<1> QED
  BY <1>4, <1>5, <1>6, <1>7, <1>8

-------------------------------------------------------------------------------
(* Whatever step() does keeps the invariant, and hands events back as a        *)
(* worker does.                                                              *)
LEMMA StepIInv ==
    ASSUME IInv, Step
    PROVE  IInv' /\ \E E : Handed(E)
<1>1. PICK b : b = EvictFinished(batch)
  OBVIOUS
<1>2. CASE PrefillStep
  BY <1>1, <1>2, PrefillStepJoins, PrefillStepWedges
<1>3. CASE PrefillRaises
  BY <1>1, <1>3, PrefillRaisesIInv
<1>4. CASE DecodeStep
  BY <1>1, <1>4, DecodeStepRuns, DecodeStepIdles
<1>5. CASE DecodeRaises
  BY <1>1, <1>5, DecodeRaisesIInv
<1> QED
  BY <1>2, <1>3, <1>4, <1>5 DEF Step

(* Which policy the worker follows is all the same to the invariant.          *)
LEMMA ModeIInv ==
    ASSUME IInv, continuous' \in BOOLEAN,
           UNCHANGED <<waiting, batch, delivered, lost, failures, slip>>
    PROVE  IInv'
BY DEF IInv, TypeOK, Untouched, Apart

LEMMA NextIInv == IInv /\ [Next]_vars => IInv'
<1> SUFFICES ASSUME IInv, [Next]_vars PROVE IInv'
  OBVIOUS
<1>1. CASE Submit
  BY <1>1, AdmitIInv DEF Submit
<1>2. CASE SetContinuous
  <2>1. continuous' \in BOOLEAN
    BY <1>2, RealModelAssumption DEF SetContinuous
  <2>2. UNCHANGED <<waiting, batch, delivered, lost, failures, slip>>
    BY <1>2 DEF SetContinuous, history
  <2> QED
    BY <2>1, <2>2, ModeIInv
<1>3. CASE Step
  BY <1>3, StepIInv
<1>4. CASE UNCHANGED vars
  BY <1>4 DEF IInv, TypeOK, Untouched, Apart, vars
<1> QED
  BY <1>1, <1>2, <1>3, <1>4 DEF Next

(* IInv is an invariant of the worker.                                        *)
LEMMA InductiveInvariant == Spec => []IInv
<1>1. Init => IInv
  BY InitIInv
<1>2. IInv /\ [Next]_vars => IInv'
  BY NextIInv
<1> QED
  BY <1>1, <1>2, PTL DEF Spec

(* "Persistent batched DynamicCache, rows align to _running": whatever was     *)
(* spliced in, cut out or left behind by a decode that raised, row i of the    *)
(* cache and of the mask is that of sequence i.                              *)
THEOREM RowsStayAligned == Spec => []RowsAligned
<1>1. IInv => RowsAligned
  BY DEF IInv, Sound, Aligned, RowsAligned
<1> QED
  BY <1>1, InductiveInvariant, PTL

(* No request is lost by a worker whose model never raised, and a batch is     *)
(* wedged only by a decode that did; it never outgrows max_batch_size.         *)
THEOREM LossNeedsFailure == Spec => []LostOnlyByFailure
<1>1. IInv => LostOnlyByFailure
  BY DEF IInv, Sound, LostOnlyByFailure
<1> QED
  BY <1>1, InductiveInvariant, PTL

(* No request gets a token past its max_tokens, and none is counted twice.     *)
THEOREM WithinBudget == Spec => []TokensWithinBudget
<1>1. IInv => TokensWithinBudget
  BY DEF IInv, Sound, Budgeted, TokensWithinBudget
<1> QED
  BY <1>1, InductiveInvariant, PTL

(* A wedged batch stays wedged: the same sequences, and never another token.   *)
THEOREM WedgedStays == Spec => WedgedForEver
<1>1. ASSUME IInv, Step, Wedged(batch)
      PROVE  Wedged(batch') /\ delivered' = delivered /\ batch'.seqs = batch.seqs
  <2>1. PICK b : b = EvictFinished(batch)
    OBVIOUS
  <2>2. b = batch /\ Wedged(b)
    BY <1>1, <2>1, Evicted
  <2>3. CASE PrefillStep
    <3>1. b.width # b.mask
      <4>1. /\ b.width \in Nat /\ b.mask \in Nat /\ slip \in Nat /\ slip > 0
            /\ b.width + slip <= b.mask
        BY <1>1, <2>2, BatchFields DEF IInv, TypeOK, Sound, Aligned
      <4> QED
        BY ONLY <4>1
    <3> QED
      BY <1>1, <2>1, <2>2, <2>3, <3>1, PrefillStepWedges
  <2>4. CASE PrefillRaises
    BY <1>1, <2>1, <2>2, <2>4, PrefillRaisesIInv DEF PrefillRaises
  <2>5. CASE DecodeStep
    BY <1>1, <2>1, <2>2, <2>5, DecodeStepIdles
  <2>6. CASE DecodeRaises
    BY <1>1, <2>1, <2>2, <2>6, DecodeRaisesIInv
  <2> QED
    BY <1>1, <2>3, <2>4, <2>5, <2>6 DEF Step
<1> QED
  BY <1>1, InductiveInvariant, PTL DEF Spec, WedgedForEver

(* In static mode a request enters the batch only when everybody in it is      *)
(* finished, however often the mode was switched before.                     *)
THEOREM StaticDrains == Spec => StaticDrainsFirst
<1>1. ASSUME IInv, Step, ~continuous, Ids(batch'.seqs) \ Ids(batch.seqs) # {}
      PROVE  \A i \in DOMAIN batch.seqs : batch.seqs[i].finished
  <2>1. PICK b : b = EvictFinished(batch)
    OBVIOUS
  <2>2. /\ Ids(b.seqs) \subseteq Ids(batch.seqs)
        /\ Ids(b.seqs) = {batch.seqs[i].id : i \in Kept(batch)}
    BY <1>1, <2>1, Evicted
  <2>3. PrefillStep
    <3>1. ~PrefillRaises
      BY <1>1, <2>1, <2>2, PrefillRaisesIInv
    <3>2. ~DecodeStep
      BY <1>1, <2>1, <2>2, DecodeStepRuns, DecodeStepIdles
    <3>3. ~DecodeRaises
      BY <1>1, <2>1, <2>2, DecodeRaisesIInv
    <3> QED
      BY <1>1, <3>1, <3>2, <3>3 DEF Step
  <2>4. b.seqs = <<>>
    BY <1>1, <2>1, <2>3 DEF PrefillStep, MayPrefill
  <2>5. Kept(batch) = {}
    <3>1. Ids(b.seqs) = {}
      BY <2>4 DEF Ids
    <3>2. \A i \in Kept(batch) : batch.seqs[i].id \in Ids(b.seqs)
      BY <2>2
    <3> QED
      BY ONLY <3>1, <3>2
  <2> QED
    BY <2>5 DEF Kept
<1> QED
  BY <1>1, InductiveInvariant, PTL DEF Spec, StaticDrainsFirst

(* The worker is a Worker of workers/base.py: step() hands back one event for  *)
(* each request that had a token, the final one last, and none for a request   *)
(* that left; what a prefill that raised took never comes back.              *)
THEOREM RealModelImplementsWorkerProtocol == Spec => KeepsWorkerProtocol
<1> USE DEF Worker!Init, Worker!Next, Worker!Accept, Worker!Deliver, Worker!vars
<1>1. Init => Worker!Init
  <2> SUFFICES ASSUME Init PROVE Worker!Init
    OBVIOUS
  <2>1. Resident \cup lost = {}
    BY DEF Init, Resident, Ids, NoBatch
  <2> QED
    BY <2>1 DEF Init
<1>2. ASSUME IInv, Submit PROVE Worker!Next
  <2>1. PICK id \in SeqIds, prompt \in 1..MaxPrompt, new \in 1..MaxNew : Admit(id, prompt, new)
    BY <1>2 DEF Submit
  <2>2. /\ Ids(waiting') = Ids(waiting) \cup {id} /\ lost' = lost /\ batch' = batch
        /\ id \notin Ids(waiting) /\ id \notin Ids(batch.seqs) /\ id \notin lost
        /\ delivered' = [delivered EXCEPT ![id] = 0]
    BY <1>2, <2>1, AdmitIInv DEF Admit, history
  <2>3. Resident' = Resident \cup {id}
    BY <2>2 DEF Resident
  <2>4. id \notin Resident
    BY <2>2 DEF Resident, Ids
  <2> QED
    BY <2>2, <2>3, <2>4
<1>3. ASSUME IInv, Step PROVE Worker!Next
  <2>1. PICK E : Handed(E)
    BY <1>3, StepIInv
  <2> DEFINE n == [id \in Resident \cup lost |-> IF id \in E THEN 1 ELSE 0]
             finals == (Resident \cup lost) \ (Resident \cup lost)'
  <2>2. Resident \cup lost \subseteq SeqIds
    <3>1. Resident \subseteq Ids(waiting) \cup Ids(batch.seqs)
      BY DEF Resident, Ids
    <3>2. /\ \A i \in DOMAIN waiting : waiting[i] \in Sequence
          /\ \A i \in DOMAIN batch.seqs : batch.seqs[i] \in Sequence
      BY <1>3, BatchFields, ElementOfSeq, LenProperties DEF IInv, TypeOK
    <3>3. Ids(waiting) \subseteq SeqIds /\ Ids(batch.seqs) \subseteq SeqIds
      BY <3>2 DEF Ids, Sequence
    <3> QED
      BY <1>3, <3>1, <3>3 DEF IInv, TypeOK
  <2>3. n \in [Resident \cup lost -> 0..1]
    OBVIOUS
  <2>4. finals \in SUBSET {id \in Resident \cup lost : n[id] > 0}
    BY <2>1 DEF Handed
  <2>5. (Resident \cup lost)' = (Resident \cup lost) \ finals
    BY <2>1 DEF Handed
  <2>6. delivered' = [id \in SeqIds |-> IF id \in Resident \cup lost THEN delivered[id] + n[id]
                                        ELSE delivered[id]]
    <3>1. \A id \in SeqIds : delivered[id] \in Nat
      BY <1>3, RealModelAssumption DEF IInv, TypeOK
    <3>2. \A id \in SeqIds : (IF id \in E THEN delivered[id] + 1 ELSE delivered[id]) =
              (IF id \in Resident \cup lost THEN delivered[id] + n[id] ELSE delivered[id])
      BY <2>1, <3>1 DEF Handed
    <3> HIDE DEF n
    <3> QED
      BY <2>1, <3>2 DEF Handed
  <2> HIDE DEF n, finals
  <2>7. Worker!Deliver
    BY <2>3, <2>4, <2>5, <2>6
  <2> QED
    BY <2>7
<1>4. ASSUME SetContinuous \/ UNCHANGED vars PROVE UNCHANGED Worker!vars
  BY <1>4 DEF SetContinuous, history, vars, Resident
<1>5. IInv /\ [Next]_vars => [Worker!Next]_(Worker!vars)
  BY <1>2, <1>3, <1>4 DEF Next
<1> QED
  BY <1>1, <1>5, InductiveInvariant, PTL DEF Spec, KeepsWorkerProtocol, Worker!Spec

-------------------------------------------------------------------------------
(* How far a run is: the first so many requests have left the queue, and of    *)
(* them these are to have more.                                              *)
Started == Requests - Len(waiting)

Live == {i \in 1..Started : delivered[i] < workload[i].length}

(* The time of the last token that one of them had.                           *)
Last(i) == IF i \in Live THEN decodes ELSE completion[i]

Queued(n) == \A i \in DOMAIN waiting : waiting[i].id = n + i

Running ==
    /\ Queued(Started)
    /\ \A i \in 1..Started : delivered[i] \in 1..workload[i].length
    /\ Unfinished = Live
    /\ tokens = delivered

(* A step of the worker: the first m of the queue join, and these requests     *)
(* have a token each.                                                        *)
Serves(m, these) ==
    /\ Started' = Started + m
    /\ Live' = {i \in Live \cup ((Started + 1)..(Started + m)) : delivered'[i] < workload[i].length}
    /\ delivered' = [i \in SeqIds |-> IF i \in these THEN delivered[i] + 1 ELSE delivered[i]]
    /\ \A i \in (Started + 1)..Requests : delivered[i] = 0
    /\ completion' = [i \in SeqIds |->
           IF i \in (Live \cup ((Started + 1)..Requests)) \ (Live' \cup ((Started + m + 1)..Requests))
           THEN decodes' ELSE completion[i]]

(* What is in the queue, and what a run has so far.                            *)
LEMMA RunFields ==
    ASSUME Numbered, BenchTypeOK, IInv, Running
    PROVE  /\ Len(waiting) \in 0..Requests /\ DOMAIN waiting = 1..Len(waiting)
           /\ Started \in 0..Requests /\ Requests = Started + Len(waiting)
           /\ \A i \in 1..Len(waiting) : waiting[i].id = Started + i
           /\ Ids(waiting) = (Started + 1)..Requests
           /\ \A i \in (Started + 1)..Requests : delivered[i] = 0
           /\ \A i \in 1..Requests : workload[i].length \in Nat \ {0} /\ delivered[i] \in Nat
           /\ Live \subseteq 1..Started
<1>1. PICK n \in Nat : n = Len(waiting) /\ DOMAIN waiting = 1..n
                       /\ \A i \in 1..n : waiting[i].id \in 1..Requests
  <2>1. waiting \in Seq(Sequence)
    BY DEF IInv, TypeOK
  <2>2. \A i \in 1..Len(waiting) : waiting[i] \in Sequence
    BY <2>1, ElementOfSeq
  <2> QED
    BY <2>1, <2>2, LenProperties DEF Sequence, Numbered
<1>2. Requests \in Nat \ {0}
  BY RealBenchAssumption
<1>3. Started = Requests - n /\ \A i \in 1..n : waiting[i].id = Started + i
  BY <1>1 DEF Running, Queued, Started
<1>4. n <= Requests
  <2>1. CASE n > 0
    <3>1. 1 \in 1..n
      BY <2>1
    <3>2. waiting[1].id = Started + 1 /\ waiting[1].id >= 1
      BY <1>1, <1>3, <3>1
    <3> QED
      BY <1>2, <1>3, <3>2
  <2> QED
    BY <1>2, <2>1
<1>5. Started \in 0..Requests /\ Requests = Started + n /\ n \in 0..Requests
  BY <1>2, <1>3, <1>4
<1>6. Ids(waiting) = (Started + 1)..Requests
  <2>1. Ids(waiting) = {waiting[i].id : i \in 1..n}
    BY <1>1 DEF Ids
  <2>2. \A i \in 1..n : waiting[i].id \in (Started + 1)..Requests
    BY <1>3, <1>5
  <2>3. \A x \in (Started + 1)..Requests : x - Started \in 1..n /\ x = Started + (x - Started)
    BY <1>5
  <2>4. \A x \in (Started + 1)..Requests : \E i \in 1..n : x = waiting[i].id
    BY <1>3, <2>3
  <2> QED
    BY <2>1, <2>2, <2>4
<1>7. \A i \in (Started + 1)..Requests : delivered[i] = 0
  <2>1. \A i \in 1..n : delivered[waiting[i].id] = 0
    BY <1>1 DEF IInv, Untouched
  <2>2. \A x \in (Started + 1)..Requests : \E i \in 1..n : x = waiting[i].id
    BY <1>1, <1>6 DEF Ids
  <2> QED
    BY <2>1, <2>2
<1>8. \A i \in 1..Requests : workload[i].length \in Nat \ {0} /\ delivered[i] \in Nat
  <2>1. \A i \in 1..Requests : workload[i].length \in 1..MaxNew
    BY DEF BenchTypeOK, Job, Numbered
  <2>2. \A i \in 1..Requests : delivered[i] \in 0..MaxNew
    BY DEF IInv, TypeOK, Numbered
  <2> QED
    BY <2>1, <2>2, RealModelAssumption
<1> QED
  BY <1>1, <1>3, <1>5, <1>6, <1>7, <1>8 DEF Live

(* What is common to a prefill and a decode.                                  *)
LEMMA TurnServes ==
    ASSUME Numbered, BenchTypeOK, IInv, IInv', Running,
           BenchStep, phase # "warmup", NEW m \in 0..Len(waiting), NEW these,
           (Started + 1)..(Started + m) \subseteq these,
           these \subseteq Live \cup ((Started + 1)..(Started + m)),
           Turn(m, these)
    PROVE  Running' /\ Serves(m, these)
<1> DEFINE news == (Started + 1)..(Started + m)
<1>1. PICK n \in 0..Requests : n = Len(waiting) /\ DOMAIN waiting = 1..n
  BY RunFields
<1>2. PICK k \in 0..Requests : k = Started /\ Requests = k + n
  BY <1>1, RunFields
<1>3. /\ Requests \in Nat /\ m \in 0..n /\ k \in Nat /\ n \in Nat /\ m \in Nat
      /\ news = (k + 1)..(k + m) /\ news \subseteq 1..Requests
  BY <1>1, <1>2, RealBenchAssumption
<1>4. /\ \A i \in 1..n : waiting[i].id = k + i
      /\ Ids(waiting) = (k + 1)..Requests
      /\ \A i \in (k + 1)..Requests : delivered[i] = 0
      /\ \A i \in 1..Requests : workload[i].length \in Nat \ {0} /\ delivered[i] \in Nat
      /\ Live \subseteq 1..k
      /\ \A i \in 1..k : delivered[i] \in 1..workload[i].length
      /\ Live = {i \in 1..k : delivered[i] < workload[i].length}
  BY <1>1, <1>2, RunFields DEF Running, Live
<1> HIDE DEF news
<1>5. /\ DOMAIN waiting' = 1..(n - m) /\ Len(waiting') = n - m
      /\ \A i \in 1..(n - m) : waiting'[i] = waiting[m + i]
      /\ Ids(batch'.seqs) = Unfinished \cup {waiting[i].id : i \in 1..m}
      /\ delivered' = [i \in 1..Requests |-> IF i \in these THEN delivered[i] + 1 ELSE delivered[i]]
  BY <1>1 DEF Turn, Numbered
<1>6. Started' = k + m
  BY <1>1, <1>2, <1>3, <1>5 DEF Started
<1>7. \A i \in 1..(n - m) : waiting'[i].id = k + m + i
  <2> SUFFICES ASSUME NEW i \in 1..(n - m) PROVE waiting'[i].id = k + m + i
    OBVIOUS
  <2>1. waiting'[i] = waiting[m + i] /\ m + i \in 1..n
    BY <1>3, <1>5
  <2>2. waiting'[i].id = k + (m + i)
    BY <1>4, <2>1
  <2> QED
    BY <1>3, <2>2
<1>8. Ids(batch'.seqs) = Live \cup news
  <2>1. \A i \in 1..m : i \in 1..n /\ k + i \in news
    BY <1>3
  <2>2. \A i \in 1..m : waiting[i].id \in news
    BY <1>4, <2>1
  <2>3. \A x \in news : x - k \in 1..m /\ k + (x - k) = x
    BY <1>3
  <2>4. \A x \in news : \E i \in 1..m : waiting[i].id = x
    BY <1>4, <2>1, <2>3
  <2>5. {waiting[i].id : i \in 1..m} = news
    BY ONLY <2>2, <2>4
  <2>6. Unfinished = Live
    BY DEF Running
  <2> QED
    BY ONLY <1>5, <2>5, <2>6
<1>9. /\ \A i \in news : delivered'[i] = 1
      /\ \A i \in Live : delivered'[i] \in {delivered[i], delivered[i] + 1}
      /\ \A i \in (1..Requests) \ (Live \cup news) : delivered'[i] = delivered[i]
  <2>1. news \subseteq (k + 1)..Requests /\ news \subseteq these /\ these \subseteq Live \cup news
    BY <1>2, <1>3 DEF news
  <2>2. Live \subseteq 1..Requests /\ news \subseteq 1..Requests
    BY <1>2, <1>3, <1>4
  <2>3. \A i \in news : delivered'[i] = 1
    <3> SUFFICES ASSUME NEW i \in news PROVE delivered'[i] = 1
      OBVIOUS
    <3>1. delivered[i] = 0 /\ i \in 1..Requests /\ i \in these
      BY <1>4, <2>1, <2>2
    <3> QED
      BY <1>5, <3>1
  <2>4. \A i \in 1..Requests : i \notin these => delivered'[i] = delivered[i]
    BY <1>5
  <2>5. \A i \in Live : delivered'[i] \in {delivered[i], delivered[i] + 1}
    BY <1>5, <2>2
  <2> QED
    BY ONLY <2>1, <2>3, <2>4, <2>5
<1>10. workload' = workload
  BY DEF BenchStep
<1>11. \A i \in 1..(k + m) : delivered'[i] \in 1..workload[i].length
  <2> SUFFICES ASSUME NEW i \in 1..(k + m) PROVE delivered'[i] \in 1..workload[i].length
    OBVIOUS
  <2>1. i \in 1..Requests /\ (i \in news \/ i \in 1..k)
    BY <1>2, <1>3
  <2>2. workload[i].length \in Nat \ {0} /\ delivered[i] \in Nat
    BY <1>4, <2>1
  <2>3. CASE i \in news
    BY <1>9, <2>2, <2>3
  <2>4. CASE i \in Live
    <3>1. /\ delivered'[i] \in {delivered[i], delivered[i] + 1}
          /\ delivered[i] < workload[i].length /\ delivered[i] >= 1
      BY <1>4, <1>9, <2>4
    <3> QED
      BY ONLY <2>2, <3>1
  <2>5. CASE i \in 1..k /\ i \notin Live /\ i \notin news
    BY <1>4, <1>9, <2>1, <2>5
  <2> QED
    BY <2>1, <2>3, <2>4, <2>5
<1>12. Live' = {i \in Live \cup news : delivered'[i] < workload[i].length}
  <2>1. Live' = {i \in 1..(k + m) : delivered'[i] < workload[i].length}
    BY <1>6, <1>10 DEF Live
  <2>2. \A i \in 1..(k + m) : i \in 1..k \/ i \in news
    BY <1>2, <1>3
  <2>3. \A i \in 1..k : i \in 1..Requests /\ i \notin news
    BY <1>2, <1>3
  <2>4. \A i \in 1..k : i \notin Live => ~(delivered'[i] < workload[i].length)
    <3> SUFFICES ASSUME NEW i \in 1..k, i \notin Live PROVE ~(delivered'[i] < workload[i].length)
      OBVIOUS
    <3>1. delivered'[i] = delivered[i] /\ ~(delivered[i] < workload[i].length)
      BY <1>4, <1>9, <2>3
    <3> QED
      BY <3>1
  <2>5. Live \subseteq 1..(k + m) /\ news \subseteq 1..(k + m)
    BY <1>2, <1>3, <1>4
  <2> QED
    BY <2>1, <2>2, <2>4, <2>5
<1>13. Unfinished' = Live'
  <2>1. \A j \in DOMAIN batch'.seqs :
            LET s == batch'.seqs[j] IN s.finished <=> s.generated >= workload[s.id].length
    BY DEF BenchStep
  <2>2. \A j \in DOMAIN batch'.seqs : batch'.seqs[j].generated = delivered'[batch'.seqs[j].id]
    BY DEF IInv, Sound, Budgeted
  <2>3. Ids(batch'.seqs) = {batch'.seqs[j].id : j \in DOMAIN batch'.seqs}
    BY DEF Ids
  <2>4. Unfinished' =
            {batch'.seqs[j].id : j \in {h \in DOMAIN batch'.seqs : ~batch'.seqs[h].finished}}
    BY DEF Unfinished, Kept
  <2>5. \A i \in Live \cup news : delivered'[i] \in Nat /\ workload[i].length \in Nat
    <3> SUFFICES ASSUME NEW i \in Live \cup news
                 PROVE  delivered'[i] \in Nat /\ workload[i].length \in Nat
      OBVIOUS
    <3>1. i \in 1..Requests
      BY <1>2, <1>3, <1>4
    <3>2. delivered[i] \in Nat /\ workload[i].length \in Nat
      BY <1>4, <3>1
    <3>3. delivered'[i] \in {1, delivered[i], delivered[i] + 1}
      BY <1>9
    <3> QED
      BY ONLY <3>2, <3>3
  <2>6. \A j \in DOMAIN batch'.seqs :
            LET s == batch'.seqs[j]
            IN  s.id \in Live \cup news /\ (~s.finished <=> delivered'[s.id] < workload[s.id].length)
    <3> SUFFICES ASSUME NEW j \in DOMAIN batch'.seqs, NEW s, s = batch'.seqs[j]
                 PROVE  /\ s.id \in Live \cup news
                        /\ ~s.finished <=> delivered'[s.id] < workload[s.id].length
      OBVIOUS
    <3>1. s.id \in Live \cup news
      BY <1>8, <2>3
    <3> QED
      BY <2>1, <2>2, <2>5, <3>1
  <2>7. \A i \in Live \cup news : \E j \in DOMAIN batch'.seqs : batch'.seqs[j].id = i
    BY <1>8, <2>3
  <2> QED
    BY <1>12, <2>4, <2>6, <2>7
<1>14. tokens' = delivered'
  <2>1. tokens' = [i \in 1..Requests |-> tokens[i] + (delivered'[i] - delivered[i])]
    BY DEF BenchStep, Numbered
  <2>2. \A i \in 1..Requests : delivered[i] \in Nat /\ delivered'[i] \in Nat
    BY <1>4, <1>5
  <2>3. \A i \in 1..Requests : tokens[i] + (delivered'[i] - delivered[i]) = delivered'[i]
    BY <2>2 DEF Running
  <2>4. delivered' = [i \in 1..Requests |-> delivered'[i]]
    BY <1>5
  <2> QED
    BY <2>1, <2>3, <2>4
<1>15. Running'
  <2>1. Queued(Started)'
    BY <1>5, <1>6, <1>7 DEF Queued
  <2> QED
    BY <1>6, <1>10, <1>11, <1>13, <1>14, <2>1 DEF Running
<1>16. Resident = Live \cup ((k + 1)..Requests)
  BY <1>4 DEF Resident, Unfinished, Kept, Running
<1>17. Resident' = Live' \cup ((k + m + 1)..Requests)
  <2>1. Ids(waiting') = (k + m + 1)..Requests
    <3>1. Ids(waiting') = {waiting'[i].id : i \in 1..(n - m)}
      BY <1>5 DEF Ids
    <3>2. \A i \in 1..(n - m) : k + m + i \in (k + m + 1)..Requests
      BY <1>2, <1>3
    <3>3. \A x \in (k + m + 1)..Requests : x - (k + m) \in 1..(n - m) /\ k + m + (x - (k + m)) = x
      BY <1>2, <1>3
    <3>4. \A x \in (k + m + 1)..Requests : \E i \in 1..(n - m) : waiting'[i].id = x
      BY <1>7, <3>3
    <3>5. \A i \in 1..(n - m) : waiting'[i].id \in (k + m + 1)..Requests
      BY <1>7, <3>2
    <3> QED
      BY <3>1, <3>4, <3>5
  <2>2. Resident' = Ids(waiting') \cup Unfinished'
    BY DEF Resident, Unfinished, Kept
  <2> QED
    BY <1>13, <2>1, <2>2
<1>18. completion' = [i \in 1..Requests |->
           IF i \in Resident /\ i \notin Resident' THEN decodes' ELSE completion[i]]
  BY DEF BenchStep, Numbered
<1>19. Serves(m, these)
  <2>1. completion' = [i \in 1..Requests |->
            IF i \in (Live \cup ((k + 1)..Requests)) \ (Live' \cup ((k + m + 1)..Requests))
            THEN decodes' ELSE completion[i]]
    BY <1>16, <1>17, <1>18
  <2>2. Live' = {i \in Live \cup ((k + 1)..(k + m)) : delivered'[i] < workload[i].length}
    BY <1>3, <1>12
  <2> QED
    BY <1>2, <1>4, <1>5, <1>6, <2>1, <2>2 DEF Serves, Numbered
<1> QED
  BY <1>15, <1>19

(* The two kinds of step: newcomers have their first token, while no time      *)
(* passes, or all who run have another.                                      *)
Newcomers(m) == (Started + 1)..(Started + m)

Prefills(m) ==
    /\ m \in 1..Len(waiting) /\ m <= MaxBatch
    /\ decodes' = decodes /\ workload' = workload
    /\ continuous \/ Live = {}
    /\ Serves(m, Newcomers(m))

Decodes ==
    /\ decodes' = IF Live = {} THEN decodes ELSE decodes + 1
    /\ workload' = workload
    /\ Started < Requests => Live # {}
    /\ Started < Requests /\ continuous => IsFiniteSet(Live) /\ Cardinality(Live) = MaxBatch
    /\ Serves(0, Live)

(* Every step of the loop around the worker is one of the two.                *)
LEMMA StepServes ==
    ASSUME Numbered, BenchTypeOK, IInv, failures = 0, Running, BenchStep, phase # "warmup"
    PROVE  IInv' /\ Running' /\ (Decodes \/ \E m \in 1..Requests : Prefills(m))
<1>1. /\ Len(waiting) \in 0..Requests /\ DOMAIN waiting = 1..Len(waiting)
      /\ Started \in 0..Requests /\ Requests = Started + Len(waiting)
      /\ \A i \in 1..Len(waiting) : waiting[i].id = Started + i
      /\ Live \subseteq 1..Started /\ Requests \in Nat
      /\ \A i \in 1..Requests : delivered[i] \in Nat
  BY RunFields, RealBenchAssumption
<1>2. slip = 0 /\ Unfinished = Live /\ workload' = workload
  BY DEF IInv, TypeOK, Running, BenchStep
<1>3. CASE PrefillStep /\ decodes' = decodes
  <2>1. PrefillStep
    BY <1>3
  <2>2. /\ IInv'
        /\ continuous \/ Live = {}
        /\ \E m \in 1..Len(waiting) : m <= MaxBatch /\ Turn(m, {waiting[i].id : i \in 1..m})
    BY <1>2, <2>1, PrefillServes
  <2>3. PICK m \in 1..Len(waiting) : m <= MaxBatch /\ Turn(m, {waiting[i].id : i \in 1..m})
    BY <2>2
  <2>4. {waiting[i].id : i \in 1..m} = Newcomers(m)
    <3>1. /\ m \in Nat /\ Started \in Nat
          /\ \A i \in 1..m : i \in 1..Len(waiting) /\ Started + i \in Newcomers(m)
      BY <1>1, <2>3 DEF Newcomers
    <3>2. \A x \in Newcomers(m) : x - Started \in 1..m /\ Started + (x - Started) = x
      BY <3>1 DEF Newcomers
    <3>3. \A i \in 1..m : waiting[i].id = Started + i
      BY <1>1, <3>1
    <3>4. \A i \in 1..m : waiting[i].id \in Newcomers(m)
      BY <3>1, <3>3
    <3>5. \A x \in Newcomers(m) : \E i \in 1..m : waiting[i].id = x
      BY <3>2, <3>3
    <3> QED
      BY ONLY <3>4, <3>5
  <2>5. IInv' /\ Running' /\ Serves(m, Newcomers(m))
    <3>1. m \in 0..Len(waiting)
      BY <1>1, <2>3
    <3>2. Turn(m, Newcomers(m))
      BY <2>3, <2>4
    <3>3. /\ (Started + 1)..(Started + m) \subseteq Newcomers(m)
          /\ Newcomers(m) \subseteq Live \cup ((Started + 1)..(Started + m))
      BY DEF Newcomers
    <3> QED
      BY <2>2, <3>1, <3>2, <3>3, TurnServes
  <2>6. m \in 1..Requests
    BY <1>1, <2>3
  <2> QED
    BY <1>2, <1>3, <2>2, <2>3, <2>5, <2>6 DEF Prefills
<1>4. CASE /\ DecodeStep
           /\ decodes' = IF delivered' = delivered THEN decodes ELSE decodes + 1
  <2>1. DecodeStep
    BY <1>4
  <2>2. /\ IInv' /\ Turn(0, Live)
        /\ waiting # <<>> => Live # {}
        /\ waiting # <<>> /\ continuous => IsFiniteSet(Live) /\ Cardinality(Live) = MaxBatch
    BY <1>2, <2>1, DecodeServes
  <2>3. (Started + 1)..(Started + 0) = {} /\ 0 \in 0..Len(waiting)
    BY <1>1
  <2>4. Running' /\ Serves(0, Live)
    BY <2>2, <2>3, TurnServes
  <2>5. Started < Requests => waiting # <<>>
    BY <1>1
  <2>6. delivered' = delivered <=> Live = {}
    <3>1. delivered' = [i \in 1..Requests |-> IF i \in Live THEN delivered[i] + 1 ELSE delivered[i]]
      BY <2>4 DEF Serves, Numbered
    <3>2. delivered = [i \in 1..Requests |-> delivered[i]]
      BY DEF IInv, TypeOK, Numbered
    <3>3. CASE Live = {}
      BY <3>1, <3>2, <3>3
    <3>4. CASE Live # {}
      <4>1. PICK i \in Live : TRUE
        BY <3>4
      <4>2. i \in 1..Requests /\ delivered[i] \in Nat
        BY <1>1
      <4>3. delivered'[i] = delivered[i] + 1
        BY <3>1, <4>2
      <4> QED
        BY <3>4, <4>2, <4>3
    <3> QED
      BY <3>3, <3>4
  <2>7. Decodes
    BY <1>2, <1>4, <2>2, <2>4, <2>5, <2>6 DEF Decodes
  <2> QED
    BY <2>2, <2>4, <2>7
<1> QED
  BY <1>3, <1>4 DEF BenchStep

(* What a step does to the times.                                             *)
Moved(m, these) ==
    /\ Started' = Started + m
    /\ these \subseteq Live \cup Newcomers(m)
    /\ \A i \in these : Last(i)' = decodes' /\ delivered'[i] = delivered[i] + 1
    /\ \A i \in (1..Started) \ these : /\ Last(i)' = Last(i) /\ delivered'[i] = delivered[i]
                                       /\ i \in Live' <=> i \in Live
    /\ \A i \in (1..Started) \ Live : i \notin Live' /\ completion'[i] = completion[i]
    /\ \A i \in these \ Live' : completion'[i] = decodes'
    /\ \A i \in these : i \in Live' <=> delivered'[i] < workload[i].length

(* Who had a token had it now, and nothing is new about the others.           *)
LEMMA ServesMoves ==
    ASSUME Numbered, BenchTypeOK, IInv, Running, NEW m, NEW these,
           \/ Prefills(m) /\ these = Newcomers(m)
           \/ Decodes /\ m = 0 /\ these = Live
    PROVE  Moved(m, these)
<1>1. PICK k \in 0..Requests : k = Started /\ Requests = k + Len(waiting) /\ Len(waiting) \in 0..Requests
  BY RunFields
<1>2. /\ Live \subseteq 1..k /\ Requests \in Nat /\ k \in Nat
      /\ \A i \in (k + 1)..Requests : delivered[i] = 0
      /\ \A i \in 1..Requests : workload[i].length \in Nat \ {0} /\ delivered[i] \in Nat
      /\ Live = {i \in 1..k : delivered[i] < workload[i].length}
  BY <1>1, RunFields, RealBenchAssumption DEF Live
<1>3. m \in 0..Len(waiting) /\ m \in Nat /\ Serves(m, these) /\ workload' = workload
  BY <1>1 DEF Prefills, Decodes
<1>4. Newcomers(m) = (k + 1)..(k + m) /\ Newcomers(m) \subseteq (k + 1)..Requests
      /\ Newcomers(m) \subseteq 1..Requests /\ 1..k \subseteq 1..Requests
  BY <1>1, <1>2, <1>3 DEF Newcomers
<1>5. these \subseteq Live \cup Newcomers(m) /\ these \subseteq 1..Requests
  BY <1>2, <1>4
<1>6. /\ Started' = k + m
      /\ Live' = {i \in Live \cup Newcomers(m) : delivered'[i] < workload[i].length}
      /\ \A i \in 1..Requests : delivered'[i] = IF i \in these THEN delivered[i] + 1 ELSE delivered[i]
      /\ \A i \in 1..Requests : completion'[i] =
            IF i \in (Live \cup ((k + 1)..Requests)) \ (Live' \cup ((k + m + 1)..Requests))
            THEN decodes' ELSE completion[i]
  BY <1>1, <1>3 DEF Serves, Newcomers, Numbered
<1>7. \A i \in these : /\ delivered'[i] = delivered[i] + 1
                       /\ i \in Live' <=> delivered'[i] < workload[i].length
                       /\ i \notin Live' => completion'[i] = decodes'
  <2> SUFFICES ASSUME NEW i \in these
               PROVE  /\ delivered'[i] = delivered[i] + 1
                      /\ i \in Live' <=> delivered'[i] < workload[i].length
                      /\ i \notin Live' => completion'[i] = decodes'
    OBVIOUS
  <2>1. i \in 1..Requests /\ i \in Live \cup Newcomers(m)
    BY <1>5
  <2>2. i \notin (k + m + 1)..Requests /\ i \in Live \cup ((k + 1)..Requests)
    BY <1>1, <1>2, <1>3, <1>4, <2>1
  <2> QED
    BY <1>6, <2>1, <2>2
<1>8. \A i \in these : Last(i)' = decodes'
  BY <1>7 DEF Last
<1>9. ASSUME NEW i \in (1..k) \ these
      PROVE  /\ Last(i)' = Last(i) /\ delivered'[i] = delivered[i] /\ (i \in Live' <=> i \in Live)
             /\ i \notin Live => completion'[i] = completion[i]
  <2>1. /\ i \in 1..Requests /\ i \notin Newcomers(m) /\ i \notin (k + 1)..Requests
    BY <1>2, <1>4
  <2>2. delivered'[i] = delivered[i] /\ (i \in Live' <=> i \in Live)
    BY <1>2, <1>6, <2>1
  <2>3. completion'[i] = completion[i]
    BY <1>6, <2>1, <2>2
  <2>4. i \in Live => decodes' = decodes
    BY DEF Prefills, Decodes
  <2> QED
    BY <2>2, <2>3, <2>4 DEF Last
<1>10. \A i \in (1..k) \ Live : i \notin these
  BY <1>2, <1>4, <1>5
<1> QED
  BY <1>1, <1>5, <1>6, <1>7, <1>8, <1>9, <1>10 DEF Moved

-------------------------------------------------------------------------------
(* A run under static batching: nobody's last token is later than the clock or  *)
(* sooner than its tokens took, and who is a batch or more ahead was done when  *)
(* one had its first.                                                        *)
StaticRun ==
    /\ \A i \in 1..Started : delivered[i] <= Last(i) + 1 /\ Last(i) <= decodes
    /\ \A i, j \in 1..Started : j + MaxBatch <= i
           => j \notin Live /\ completion[j] + delivered[i] <= Last(i) + 1

(* In static mode newcomers find everybody before them done, and two of one    *)
(* batch are never max_batch_size apart.                                     *)
LEMMA StaticRunKept ==
    ASSUME Numbered, BenchTypeOK, IInv, Running, StaticRun, ~continuous,
           NEW m, NEW these,
           \/ Prefills(m) /\ these = Newcomers(m)
           \/ Decodes /\ m = 0 /\ these = Live
    PROVE  StaticRun'
<1>1. Moved(m, these)
  BY ServesMoves
<1>2. PICK k \in 0..Requests : k = Started
  BY RunFields
<1>3. /\ k \in Nat /\ Requests \in Nat /\ MaxBatch \in Nat \ {0} /\ decodes \in Nat
      /\ \A i \in 1..k : delivered[i] \in Nat /\ completion[i] \in Nat /\ Last(i) \in Nat
      /\ \A i \in (k + 1)..Requests : delivered[i] = 0
      /\ Live \subseteq 1..k
  <2>1. k \in Nat /\ Requests \in Nat /\ MaxBatch \in Nat \ {0} /\ decodes \in Nat
    BY <1>2, RealBenchAssumption, RealModelAssumption DEF BenchTypeOK
  <2>2. \A i \in 1..k : i \in 1..Requests
    BY <1>2, <2>1
  <2>3. \A i \in 1..Requests : completion[i] \in Nat
    BY DEF BenchTypeOK, Numbered
  <2> QED
    BY <1>2, <2>1, <2>2, <2>3, RunFields DEF Last
<1>4. \/ these = Newcomers(m) /\ decodes' = decodes /\ m \in 1..MaxBatch /\ Live = {}
         /\ Newcomers(m) = (k + 1)..(k + m) /\ k + m <= Requests
      \/ these = Live /\ decodes' \in {decodes, decodes + 1} /\ m = 0
         /\ (Live # {} => decodes' = decodes + 1)
  <2>1. Len(waiting) \in Nat /\ Requests = k + Len(waiting)
    BY <1>2, RunFields
  <2>2. CASE Prefills(m) /\ these = Newcomers(m)
    <3>1. m \in 1..Len(waiting) /\ m <= MaxBatch /\ decodes' = decodes /\ Live = {}
      BY <2>2 DEF Prefills
    <3>2. Newcomers(m) = (k + 1)..(k + m)
      BY <1>2 DEF Newcomers
    <3>3. m \in 1..MaxBatch /\ k + m <= Requests
      BY <1>3, <2>1, <3>1
    <3> QED
      BY <2>2, <3>1, <3>2, <3>3
  <2>3. CASE Decodes /\ m = 0 /\ these = Live
    BY <2>3 DEF Decodes
  <2> QED
    BY <2>2, <2>3
<1>5. /\ Started' = k + m /\ m \in Nat
      /\ \A i \in these : Last(i)' = decodes' /\ delivered'[i] = delivered[i] + 1
      /\ \A i \in (1..k) \ these : Last(i)' = Last(i) /\ delivered'[i] = delivered[i]
      /\ \A i \in (1..k) \ Live : i \notin Live' /\ completion'[i] = completion[i]
      /\ \A i \in 1..(k + m) : i \in 1..k \/ i \in these
  <2>1. m \in Nat /\ \A i \in 1..(k + m) : i \in 1..k \/ i \in these
    BY <1>3, <1>4
  <2> QED
    BY <1>1, <1>2, <2>1 DEF Moved
<1>6. /\ \A i \in these : delivered[i] <= decodes' /\ delivered[i] \in Nat
      /\ decodes' \in Nat /\ decodes <= decodes'
  <2>1. decodes' \in Nat /\ decodes <= decodes'
    BY <1>3, <1>4
  <2>2. CASE these = Newcomers(m) /\ Newcomers(m) = (k + 1)..(k + m) /\ k + m <= Requests
    <3>1. \A i \in these : i \in (k + 1)..Requests
      BY <1>3, <1>5, <2>2
    <3> QED
      BY <1>3, <2>1, <3>1
  <2>3. CASE these = Live /\ (Live # {} => decodes' = decodes + 1)
    <3> SUFFICES ASSUME NEW i \in Live PROVE delivered[i] <= decodes' /\ delivered[i] \in Nat
      BY <2>1, <2>3
    <3>1. i \in 1..k /\ delivered[i] \in Nat /\ decodes' = decodes + 1
      BY <1>3, <2>3
    <3>2. delivered[i] <= decodes + 1
      BY <1>2, <3>1 DEF StaticRun, Last
    <3> QED
      BY <3>1, <3>2
  <2> QED
    BY <1>4, <2>1, <2>2, <2>3
<1>7. \A i \in 1..k : delivered[i] <= Last(i) + 1 /\ Last(i) <= decodes
  BY <1>2 DEF StaticRun
<1>8. \A i, j \in 1..k : j + MaxBatch <= i => j \notin Live /\ completion[j] + delivered[i] <= Last(i) + 1
  BY <1>2 DEF StaticRun
<1>9. ASSUME NEW i \in 1..(k + m)
      PROVE  delivered'[i] <= Last(i)' + 1 /\ Last(i)' <= decodes'
  <2>1. CASE i \in these
    BY <1>5, <1>6, <2>1
  <2>2. CASE i \notin these
    BY <1>3, <1>5, <1>6, <1>7, <2>2
  <2> QED
    BY <2>1, <2>2
<1>10. ASSUME NEW i \in 1..(k + m), NEW j \in 1..(k + m), j + MaxBatch <= i
       PROVE  j \notin Live' /\ completion'[j] + delivered'[i] <= Last(i)' + 1
  <2>1. CASE i \in these /\ these = Newcomers(m) /\ Newcomers(m) = (k + 1)..(k + m)
             /\ m \in 1..MaxBatch /\ Live = {}
    <3>1. j \in 1..k /\ j \notin Live /\ i \in (k + 1)..(k + m)
      BY <1>3, <2>1, <1>10
    <3>2. j \notin Live' /\ completion'[j] = completion[j] /\ completion[j] = Last(j)
      BY <1>5, <3>1 DEF Last
    <3>3. completion[j] <= decodes /\ completion[j] \in Nat
      BY <1>3, <1>7, <3>1, <3>2
    <3>4. delivered'[i] = 1 /\ Last(i)' = decodes'
      <4>1. delivered[i] = 0
        BY <1>3, <1>4, <2>1, <3>1
      <4> QED
        BY <1>5, <2>1, <4>1
    <3> QED
      BY <1>3, <1>6, <3>2, <3>3, <3>4
  <2>2. CASE i \in these /\ these = Live /\ Live # {} /\ decodes' = decodes + 1 /\ m = 0
    <3>1. i \in 1..k /\ j \in 1..k /\ Last(i) = decodes
      BY <1>3, <2>2 DEF Last
    <3>2. j \notin Live /\ completion[j] + delivered[i] <= decodes + 1
      BY <1>8, <1>10, <3>1
    <3>3. j \notin Live' /\ completion'[j] = completion[j]
      BY <1>5, <3>1, <3>2
    <3>4. /\ delivered'[i] = delivered[i] + 1 /\ Last(i)' = decodes + 1
          /\ delivered[i] \in Nat /\ completion[j] \in Nat
      BY <1>3, <1>5, <2>2, <3>1
    <3> QED
      BY <1>3, <3>2, <3>3, <3>4
  <2>3. CASE i \notin these
    <3>1. i \in 1..k /\ j \in 1..k
      <4>1. i \in 1..k
        BY <1>5, <2>3
      <4> QED
        BY <1>3, <1>5, <1>10, <4>1
    <3>2. j \notin Live /\ completion[j] + delivered[i] <= Last(i) + 1
      BY <1>8, <1>10, <3>1
    <3> QED
      BY <1>5, <2>3, <3>1, <3>2
  <2> QED
    BY <1>4, <2>1, <2>2, <2>3
<1>11. Started' = k + m
  BY <1>5
<1> QED
  BY <1>9, <1>10, <1>11 DEF StaticRun

(* The times a static run ends with.                                          *)
StaticTimes(c) ==
    /\ \A i \in SeqIds : workload[i].length <= c[i] + 1
    /\ \A i, j \in SeqIds : j + MaxBatch <= i => c[j] + workload[i].length <= c[i] + 1

Answered(policy) == \A i \in SeqIds : stats[policy].tokens[i] = workload[i].length

(* A run under continuous batching: who waits, or still runs, would be done in  *)
(* time if it went on from here without a break, and who is done was in time.  *)
ContinuousRun ==
    LET c == stats["static"].completion
    IN  /\ \A i \in (Started + 1)..Requests : decodes + workload[i].length <= c[i] + 1
        /\ \A i \in Live : decodes + workload[i].length <= c[i] + delivered[i]
        /\ \A i \in (1..Started) \ Live : completion[i] <= c[i]

(* A full batch has somebody in it who is a batch or more ahead of who waits.    *)
LEMMA FullBatch ==
    ASSUME NEW L, NEW b \in Nat \ {0}, NEW k \in Nat, L \subseteq 1..k,
           IsFiniteSet(L), Cardinality(L) = b, NEW i \in Nat, i > k
    PROVE  \E j \in L : j + b <= i
<1> SUFFICES ASSUME \A j \in L : ~(j + b <= i) PROVE FALSE
  OBVIOUS
<1>1. L \subseteq (i - b + 1)..(i - 1)
  <2> SUFFICES ASSUME NEW j \in L PROVE j \in (i - b + 1)..(i - 1)
    OBVIOUS
  <2>1. j \in Nat /\ j <= k /\ ~(j + b <= i)
    OBVIOUS
  <2> QED
    BY ONLY <2>1, i > k, i \in Nat, k \in Nat, b \in Nat
<1>2. i - b + 1 \in Int /\ i - 1 \in Int /\ b \in Nat /\ b > 0
  OBVIOUS
<1>3. IsFiniteSet((i - b + 1)..(i - 1)) /\ Cardinality((i - b + 1)..(i - 1)) = b - 1
  <2>1. /\ IsFiniteSet((i - b + 1)..(i - 1))
        /\ Cardinality((i - b + 1)..(i - 1)) = IF i - b + 1 > i - 1 THEN 0 ELSE (i - 1) - (i - b + 1) + 1
    BY <1>2, FS_Interval
  <2> QED
    BY ONLY <2>1, <1>2, i \in Nat
<1>4. Cardinality(L) <= b - 1
  <2>1. PICK I : I = (i - b + 1)..(i - 1)
    OBVIOUS
  <2>2. IsFiniteSet(I) /\ Cardinality(I) = b - 1 /\ L \in SUBSET I
    BY <1>1, <1>3, <2>1
  <2>3. Cardinality(L) <= Cardinality(I)
    BY ONLY <2>2, FS_Subset
  <2> QED
    BY <2>2, <2>3
<1> QED
  BY <1>2, <1>4

(* Whoever has to wait through a decode does so for one who, in the static run,  *)
(* was complete before the waiting one started, and who is still in time.      *)
LEMMA ContinuousRunKept ==
    ASSUME Numbered, BenchTypeOK, IInv, Running, ContinuousRun, continuous,
           UNCHANGED stats, StaticTimes(stats["static"].completion),
           NEW m, NEW these,
           \/ Prefills(m) /\ these = Newcomers(m)
           \/ Decodes /\ m = 0 /\ these = Live
    PROVE  ContinuousRun'
<1>1. Moved(m, these)
  BY ServesMoves
<1>2. PICK c : c = stats["static"].completion
  OBVIOUS
<1>3. PICK k \in 0..Requests : k = Started /\ Requests = k + Len(waiting) /\ Len(waiting) \in Nat
  BY RunFields
<1>4. /\ k \in Nat /\ Requests \in Nat /\ MaxBatch \in Nat \ {0} /\ decodes \in Nat
      /\ Live \subseteq 1..k /\ 1..k \subseteq 1..Requests
      /\ \A i \in (k + 1)..Requests : delivered[i] = 0
      /\ \A i \in 1..Requests : /\ delivered[i] \in Nat /\ completion[i] \in Nat /\ c[i] \in Nat
                                /\ workload[i].length \in Nat \ {0}
  <2>1. k \in Nat /\ Requests \in Nat /\ MaxBatch \in Nat \ {0} /\ decodes \in Nat
    BY <1>3, RealBenchAssumption, RealModelAssumption DEF BenchTypeOK
  <2>2. 1..k \subseteq 1..Requests
    BY <1>3, <2>1
  <2>3. \A i \in 1..Requests : completion[i] \in Nat /\ c[i] \in Nat
    <3>1. stats["static"] \in [completion : [SeqIds -> Nat], tokens : [SeqIds -> Nat]]
      BY DEF BenchTypeOK, Policies
    <3> QED
      BY <1>2, <3>1 DEF BenchTypeOK, Numbered
  <2> QED
    BY <1>3, <2>1, <2>2, <2>3, RunFields
<1>5. /\ \A i \in (k + 1)..Requests : decodes + workload[i].length <= c[i] + 1
      /\ \A i \in Live : decodes + workload[i].length <= c[i] + delivered[i]
      /\ \A i \in (1..k) \ Live : completion[i] <= c[i]
      /\ \A i, j \in 1..Requests : j + MaxBatch <= i => c[j] + workload[i].length <= c[i] + 1
      /\ \A i \in Live : delivered[i] < workload[i].length
  BY <1>2, <1>3 DEF ContinuousRun, StaticTimes, Numbered, Live
<1>6. /\ Started' = k + m /\ stats' = stats /\ workload' = workload
      /\ \A i \in these : /\ delivered'[i] = delivered[i] + 1
                          /\ i \in Live' <=> delivered'[i] < workload[i].length
                          /\ i \notin Live' => completion'[i] = decodes'
      /\ \A i \in (1..k) \ these : delivered'[i] = delivered[i] /\ (i \in Live' <=> i \in Live)
      /\ \A i \in (1..k) \ Live : i \notin Live' /\ completion'[i] = completion[i]
  BY <1>1, <1>3 DEF Moved, Prefills, Decodes
<1>7. CASE Prefills(m) /\ these = Newcomers(m)
  <2>1. /\ decodes' = decodes /\ m \in Nat /\ these = (k + 1)..(k + m) /\ these \subseteq (k + 1)..Requests
        /\ \A i \in these : i \in 1..Requests /\ i \notin 1..k /\ delivered[i] = 0
        /\ \A i \in (k + m + 1)..Requests : i \in (k + 1)..Requests
        /\ \A i \in 1..(k + m) : i \in 1..k \/ i \in these
    <3>1. decodes' = decodes /\ m \in 1..Len(waiting) /\ these = (k + 1)..(k + m)
      BY <1>3, <1>7 DEF Prefills, Newcomers
    <3> QED
      BY <1>3, <1>4, <3>1
  <2>2. ASSUME NEW i \in (k + m + 1)..Requests PROVE decodes' + workload[i].length <= c[i] + 1
    BY <1>5, <2>1
  <2>3. ASSUME NEW i \in 1..(k + m), i \in Live'
        PROVE  decodes' + workload[i].length <= c[i] + delivered'[i]
    <3>1. CASE i \in these
      <4>1. delivered'[i] = delivered[i] + 1 /\ delivered[i] = 0
        BY <1>6, <2>1, <3>1
      <4> QED
        BY <1>5, <2>1, <3>1, <4>1
    <3>2. CASE i \in 1..k /\ i \notin these
      BY <1>5, <1>6, <2>1, <2>3, <3>2
    <3> QED
      BY <2>1, <3>1, <3>2
  <2>4. ASSUME NEW i \in 1..(k + m), i \notin Live' PROVE completion'[i] <= c[i]
    <3>1. CASE i \in these
      <4>1. /\ delivered'[i] = delivered[i] + 1 /\ delivered[i] = 0
            /\ ~(delivered'[i] < workload[i].length)
            /\ completion'[i] = decodes /\ i \in 1..Requests
        BY <1>6, <2>1, <2>4, <3>1
      <4>2. decodes + workload[i].length <= c[i] + 1 /\ workload[i].length \in Nat \ {0} /\ c[i] \in Nat
        BY <1>4, <1>5, <2>1, <3>1
      <4> QED
        BY <1>4, <4>1, <4>2
    <3>2. CASE i \in 1..k /\ i \notin these
      BY <1>5, <1>6, <2>4, <3>2
    <3> QED
      BY <2>1, <3>1, <3>2
  <2>5. Live' \subseteq 1..(k + m)
    BY <1>6 DEF Live
  <2> QED
    BY <1>2, <1>6, <2>2, <2>3, <2>4, <2>5 DEF ContinuousRun
<1>8. CASE Decodes /\ m = 0 /\ these = Live
  <2>1. /\ decodes' = IF Live = {} THEN decodes ELSE decodes + 1
        /\ k < Requests => IsFiniteSet(Live) /\ Cardinality(Live) = MaxBatch /\ Live # {}
        /\ k + m = k
    BY <1>3, <1>4, <1>8 DEF Decodes
  <2>2. ASSUME NEW i \in (k + 1)..Requests PROVE decodes' + workload[i].length <= c[i] + 1
    <3>1. k < Requests /\ i \in Nat /\ i > k /\ i \in 1..Requests
      BY <1>4
    <3>2. PICK j \in Live : j + MaxBatch <= i
      BY <1>4, <2>1, <3>1, FullBatch
    <3>3. j \in 1..Requests /\ decodes' = decodes + 1
      BY <1>4, <2>1, <3>1
    <3>4. c[j] + workload[i].length <= c[i] + 1
      BY <1>5, <3>1, <3>2, <3>3
    <3>5. decodes + workload[j].length <= c[j] + delivered[j] /\ delivered[j] < workload[j].length
      BY <1>5
    <3>6. /\ c[j] \in Nat /\ c[i] \in Nat /\ delivered[j] \in Nat
          /\ workload[i].length \in Nat /\ workload[j].length \in Nat
      BY <1>4, <3>1, <3>3
    <3> QED
      BY ONLY <1>4, <3>3, <3>4, <3>5, <3>6
  <2>3. ASSUME NEW i \in 1..k, i \in Live'
        PROVE  decodes' + workload[i].length <= c[i] + delivered'[i]
    <3>1. i \in Live /\ i \in 1..Requests
      BY <1>4, <1>6, <2>3
    <3>2. decodes' = decodes + 1 /\ delivered'[i] = delivered[i] + 1
      BY <1>6, <1>8, <2>1, <3>1
    <3>3. decodes + workload[i].length <= c[i] + delivered[i]
      BY <1>5, <3>1
    <3> QED
      BY <1>4, <3>1, <3>2, <3>3
  <2>4. ASSUME NEW i \in 1..k, i \notin Live' PROVE completion'[i] <= c[i]
    <3>1. CASE i \in Live
      <4>1. /\ decodes' = decodes + 1 /\ delivered'[i] = delivered[i] + 1
            /\ ~(delivered'[i] < workload[i].length) /\ completion'[i] = decodes'
        BY <1>6, <1>8, <2>1, <2>4, <3>1
      <4>2. /\ decodes + workload[i].length <= c[i] + delivered[i] /\ i \in 1..Requests
            /\ delivered[i] < workload[i].length
        BY <1>4, <1>5, <3>1
      <4> QED
        BY <1>4, <4>1, <4>2
    <3>2. CASE i \notin Live
      BY <1>5, <1>6, <3>2
    <3> QED
      BY <3>1, <3>2
  <2>5. Live' \subseteq 1..k
    BY <1>6, <2>1 DEF Live
  <2> QED
    BY <1>2, <1>6, <2>1, <2>2, <2>3, <2>4, <2>5 DEF ContinuousRun
<1> QED
  BY <1>7, <1>8

-------------------------------------------------------------------------------
(* What is true between any two steps of the benchmark.                       *)
Preparing ==
    /\ batch = NoBatch /\ tokens = Zero /\ decodes = 0
    /\ Len(waiting) < Burst /\ Queued(0)

BenchIInv ==
    /\ BenchTypeOK
    /\ IInv
    /\ failures = 0
    /\ at \in {"mode", "admit"} => Preparing
    /\ at \in {"admit", "loop"} /\ phase \in Policies => (continuous <=> phase = "continuous")
    /\ at = "loop" /\ phase \in Policies => Running
    /\ at = "loop" /\ phase = "static" => StaticRun
    /\ at = "loop" /\ phase = "continuous" => ContinuousRun
    /\ phase = "done" => at = "reset"
    /\ phase \in {"continuous", "done"} =>
         Answered("static") /\ StaticTimes(stats["static"].completion)
    /\ phase = "done" => Answered("continuous") /\ CompletesNoLater

(* A worker that stays as it is.                                              *)
LEMMA WorkerStays ==
    ASSUME IInv, UNCHANGED vars
    PROVE  IInv'
<1>1. /\ UNCHANGED <<waiting, batch, delivered, lost, failures, slip>>
      /\ continuous' \in BOOLEAN
  BY DEF vars, IInv, TypeOK
<1> QED
  BY <1>1, ModeIInv

(* The steps of the benchmark, one by one.                                    *)
LEMMA BenchInitIInv ==
    ASSUME Numbered, BenchInit
    PROVE  BenchIInv
<1>1. IInv /\ failures = 0
  BY InitIInv DEF BenchInit, Init
<1>2. BenchTypeOK
  <2>1. TypeOK
    BY <1>1 DEF IInv
  <2>2. Zero \in [SeqIds -> Nat]
    BY DEF Zero
  <2> QED
    BY <2>1, <2>2 DEF BenchTypeOK, BenchInit, Policies
<1> QED
  BY <1>1, <1>2 DEF BenchIInv, BenchInit, Policies

LEMMA StartIInv ==
    ASSUME Numbered, BenchIInv, Start
    PROVE  BenchIInv'
<1>1. /\ tokens' = Zero /\ at' = "mode" /\ decodes' = 0
      /\ completion' = Zero /\ workload' = workload /\ phase' = phase /\ stats' = stats
      /\ phase # "done"
  BY DEF Start, BenchReset
<1>2. Reset
  BY DEF Start, BenchReset
<1>3. IInv' /\ failures' = 0
  <2>1. IInv /\ failures = 0
    BY DEF BenchIInv
  <2> QED
    BY <1>2, <2>1, ResetIInv DEF Reset, history
<1>4. BenchTypeOK'
  <2>1. TypeOK'
    BY <1>3 DEF IInv
  <2>2. Zero \in [SeqIds -> Nat]
    BY DEF Zero
  <2> QED
    BY <1>1, <2>1, <2>2 DEF BenchIInv, BenchTypeOK
<1>5. Preparing'
  <2>1. waiting' = <<>> /\ batch' = NoBatch
    BY <1>2 DEF Reset
  <2>2. Len(<<>>) = 0 /\ DOMAIN <<>> = {}
    OBVIOUS
  <2>3. Burst' \in Nat \ {0}
    BY RealBenchAssumption DEF Burst
  <2> QED
    BY <1>1, <2>1, <2>2, <2>3 DEF Preparing, Queued
<1>6. phase \in {"continuous", "done"} => Answered("static")' /\ StaticTimes(stats["static"].completion)'
  BY <1>1 DEF BenchIInv, Answered, StaticTimes
<1> QED
  BY <1>1, <1>3, <1>4, <1>5, <1>6 DEF BenchIInv

LEMMA SetModeIInv ==
    ASSUME Numbered, BenchIInv, SetMode
    PROVE  BenchIInv'
<1>1. /\ at = "mode" /\ at' = "admit"
      /\ continuous' = IF phase = "warmup" THEN continuous ELSE phase = "continuous"
      /\ UNCHANGED <<waiting, batch, delivered, lost, failures, slip>>
      /\ UNCHANGED <<tokens, workload, phase, decodes, completion, stats>>
  BY DEF SetMode
<1>2. continuous' \in BOOLEAN
  BY <1>1 DEF BenchIInv, IInv, TypeOK
<1>3. IInv'
  BY <1>1, <1>2, ModeIInv DEF BenchIInv
<1>4. BenchTypeOK'
  BY <1>1, <1>2 DEF BenchIInv, BenchTypeOK, TypeOK
<1>5. Preparing'
  BY <1>1 DEF BenchIInv, Preparing, Queued, Burst
<1>6. phase \in Policies => (continuous' <=> phase = "continuous")
  BY <1>1 DEF Policies
<1>7. phase \in {"continuous", "done"} => Answered("static")' /\ StaticTimes(stats["static"].completion)'
  BY <1>1 DEF BenchIInv, Answered, StaticTimes
<1> QED
  BY <1>1, <1>3, <1>4, <1>5, <1>6, <1>7 DEF BenchIInv

LEMMA BenchAdmitIInv ==
    ASSUME Numbered, BenchIInv, BenchAdmit
    PROVE  BenchIInv'
<1>1. PICK i : i = Len(waiting) + 1
  OBVIOUS
<1>2. PICK job \in IF phase = "warmup" THEN Job ELSE {workload[i]} :
          Admit(i, job.prompt, job.max)
  BY <1>1 DEF BenchAdmit
<1>3. /\ at = "admit" /\ at' = IF i < Burst THEN "admit" ELSE "loop"
      /\ UNCHANGED <<tokens, workload, phase, decodes, completion, stats>>
  BY <1>1 DEF BenchAdmit
<1>4. /\ Preparing /\ IInv /\ BenchTypeOK
      /\ waiting \in Seq(Sequence) /\ Len(waiting) \in Nat /\ DOMAIN waiting = 1..Len(waiting)
  BY <1>3, LenProperties DEF BenchIInv, IInv, TypeOK
<1>5. /\ Requests \in Nat \ {0} /\ Burst \in 1..Requests
      /\ i \in Nat /\ i \in SeqIds /\ i <= Burst
  <2>1. Requests \in Nat \ {0} /\ Burst \in 1..Requests
    BY RealBenchAssumption DEF Burst
  <2>2. Len(waiting) < Burst
    BY <1>4 DEF Preparing
  <2> QED
    BY <1>1, <1>4, <2>1, <2>2 DEF Numbered
<1>6. Admit(i, job.prompt, job.max) /\ job.prompt \in 1..MaxPrompt /\ job.max \in 1..MaxNew
  <2>1. job \in Job
    BY <1>2, <1>4, <1>5 DEF BenchTypeOK
  <2> QED
    BY <1>2, <2>1 DEF Job
<1>7. IInv' /\ failures' = 0
  <2>1. IInv'
    BY <1>4, <1>5, <1>6, AdmitIInv
  <2> QED
    BY <1>3, <1>6, <2>1 DEF BenchIInv, Admit, history
<1>8. /\ batch' = batch /\ continuous' = continuous
      /\ waiting' \in Seq(Sequence) /\ Len(waiting') = i /\ DOMAIN waiting' = 1..i
      /\ \A j \in 1..i : waiting'[j].id = j
  <2> DEFINE q == [id |-> i, tokens |-> job.prompt, max |-> job.max, generated |-> 0, finished |-> FALSE]
  <2>1. batch' = batch /\ continuous' = continuous /\ waiting' = Append(waiting, q)
    BY <1>6 DEF Admit, history
  <2>2. waiting' \in Seq(Sequence)
    BY <1>7 DEF IInv, TypeOK
  <2>3. q.id = i
    OBVIOUS
  <2>4. q \in Sequence
    BY <1>5, <1>6, RealModelAssumption DEF Sequence
  <2> HIDE DEF q
  <2>5. /\ Len(waiting') = Len(waiting) + 1
        /\ \A j \in 1..Len(waiting) : waiting'[j] = waiting[j]
        /\ waiting'[Len(waiting) + 1] = q
    BY <1>4, <2>1, <2>4, AppendProperties
  <2>6. \A j \in 1..Len(waiting) : waiting[j].id = j
    BY <1>4 DEF Preparing, Queued
  <2>7. \A j \in 1..i : j \in 1..Len(waiting) \/ j = i
    BY <1>1, <1>4
  <2> QED
    BY <1>1, <2>1, <2>2, <2>3, <2>5, <2>6, <2>7, LenProperties
<1>9. BenchTypeOK'
  BY <1>3, <1>4, <1>7 DEF BenchTypeOK, IInv
<1>10. phase \in {"continuous", "done"} => Answered("static")' /\ StaticTimes(stats["static"].completion)'
  BY <1>3 DEF BenchIInv, Answered, StaticTimes
<1>11. Queued(0)'
  BY <1>8 DEF Queued
<1>12. CASE i < Burst
  <2>1. at' = "admit" /\ Burst' = Burst
    BY <1>3, <1>12 DEF Burst
  <2>2. Preparing'
    BY <1>3, <1>4, <1>8, <1>11, <1>12, <2>1 DEF Preparing
  <2> QED
    BY <1>3, <1>7, <1>8, <1>9, <1>10, <2>1, <2>2 DEF BenchIInv
<1>13. CASE ~(i < Burst)
  <2>1. at' = "loop" /\ i = Burst
    BY <1>3, <1>5, <1>13
  <2>2. ASSUME phase \in Policies
        PROVE  Running' /\ StaticRun' /\ (phase = "continuous" => ContinuousRun')
    <3>1. i = Requests
      BY <2>1, <2>2 DEF Burst, Policies
    <3>2. Started' = 0 /\ Live' = {}
      BY <1>5, <1>8, <3>1 DEF Started, Live
    <3>3. Unfinished' = {}
      BY <1>4, <1>8 DEF Unfinished, Kept, Preparing, NoBatch
    <3>4. tokens' = delivered'
      <4>1. tokens' = [j \in 1..Requests |-> 0]
        BY <1>3, <1>4 DEF Preparing, Zero, Numbered
      <4>2. delivered' = [j \in 1..Requests |-> delivered'[j]]
        BY <1>7 DEF IInv, TypeOK, Numbered
      <4>3. \A j \in 1..Requests : delivered'[j] = 0
        BY <1>7, <1>8, <3>1 DEF IInv, Untouched
      <4> QED
        BY <4>1, <4>2, <4>3
    <3>5. Running'
      BY <1>11, <3>2, <3>3, <3>4 DEF Running, Queued
    <3>6. StaticRun'
      BY <3>2 DEF StaticRun
    <3>7. ASSUME phase = "continuous" PROVE ContinuousRun'
      <4>1. decodes' = 0
        BY <1>3, <1>4 DEF Preparing
      <4>2. \A j \in 1..Requests : (workload[j].length <= stats["static"].completion[j] + 1)'
        BY <1>10, <3>7 DEF StaticTimes, Numbered
      <4>3. \A j \in 1..Requests : workload'[j].length \in Nat
        <5>1. workload' \in [1..Requests -> Job]
          BY <1>3, <1>4 DEF BenchTypeOK, Numbered
        <5>2. \A x \in Job : x.length \in Nat
          BY DEF Job
        <5> QED
          BY ONLY <5>1, <5>2
      <4>4. \A j \in 1..Requests : 0 + workload'[j].length = workload'[j].length
        BY <4>3
      <4> QED
        BY <3>2, <4>1, <4>2, <4>4 DEF ContinuousRun
    <3> QED
      BY <3>5, <3>6, <3>7
  <2>3. phase # "done"
    BY <1>3 DEF BenchIInv
  <2> QED
    BY <1>3, <1>7, <1>8, <1>9, <1>10, <2>1, <2>2, <2>3 DEF BenchIInv, Policies
<1> QED
  BY <1>12, <1>13

LEMMA BenchStepIInv ==
    ASSUME Numbered, BenchIInv, BenchStep
    PROVE  BenchIInv'
<1>1. /\ at = "loop" /\ at' = at /\ workload' = workload /\ phase' = phase /\ stats' = stats
      /\ phase # "done" /\ IInv /\ BenchTypeOK
  BY DEF BenchStep, BenchIInv
<1>2. /\ IInv' /\ failures' = 0 /\ continuous' = continuous
      /\ \A i \in SeqIds : delivered'[i] \in {delivered[i], delivered[i] + 1}
  <2>1. slip = 0 /\ failures = 0
    BY <1>1 DEF BenchIInv, IInv, TypeOK
  <2>2. PrefillStep \/ DecodeStep
    BY DEF BenchStep
  <2>3. IInv' /\ \E m, these : Turn(m, these)
    BY <1>1, <2>1, <2>2, PrefillServes, DecodeServes
  <2>4. PICK m, these : Turn(m, these)
    BY <2>3
  <2>5. failures' = failures
    BY <2>2 DEF PrefillStep, DecodeStep
  <2> QED
    BY <2>1, <2>3, <2>4, <2>5 DEF Turn
<1>3. BenchTypeOK'
  <2>1. tokens' \in [SeqIds -> Nat]
    <3>1. \A i \in SeqIds : tokens[i] \in Nat /\ delivered[i] \in Nat
      BY <1>1 DEF BenchTypeOK, IInv, TypeOK
    <3>2. \A i \in SeqIds : tokens[i] + (delivered'[i] - delivered[i]) \in Nat
      BY <1>2, <3>1
    <3> QED
      BY <3>2 DEF BenchStep
  <2>2. decodes' \in Nat
    BY <1>1 DEF BenchStep, BenchTypeOK
  <2>3. completion' \in [SeqIds -> Nat]
    BY <1>1, <2>2 DEF BenchStep, BenchTypeOK
  <2> QED
    BY <1>1, <1>2, <2>1, <2>2, <2>3 DEF BenchTypeOK, IInv
<1>4. phase \in {"continuous", "done"} => Answered("static")' /\ StaticTimes(stats["static"].completion)'
  BY <1>1 DEF BenchIInv, Answered, StaticTimes
<1>5. ASSUME phase # "warmup"
      PROVE  /\ Running'
             /\ phase = "static" => StaticRun'
             /\ phase = "continuous" => ContinuousRun'
  <2>1. phase \in Policies
    BY <1>1, <1>5 DEF BenchTypeOK
  <2>2. Running /\ (continuous <=> phase = "continuous")
    BY <1>1, <2>1 DEF BenchIInv
  <2>3. Running' /\ (Decodes \/ \E m \in 1..Requests : Prefills(m))
    BY <1>1, <1>5, <2>2, StepServes DEF BenchIInv
  <2>4. \E m, these : \/ Prefills(m) /\ these = Newcomers(m)
                      \/ Decodes /\ m = 0 /\ these = Live
    BY <2>3
  <2>5. ASSUME phase = "static" PROVE StaticRun'
    <3>1. StaticRun /\ ~continuous
      BY <1>1, <2>2, <2>5 DEF BenchIInv
    <3> QED
      BY <1>1, <2>2, <2>4, <3>1, StaticRunKept
  <2>6. ASSUME phase = "continuous" PROVE ContinuousRun'
    <3>1. ContinuousRun /\ continuous /\ StaticTimes(stats["static"].completion)
      BY <1>1, <2>2, <2>6 DEF BenchIInv
    <3> QED
      BY <1>1, <2>2, <2>4, <3>1, ContinuousRunKept
  <2> QED
    BY <2>3, <2>5, <2>6
<1> QED
  BY <1>1, <1>2, <1>3, <1>4, <1>5 DEF BenchIInv, Policies

(* A run ends with every answer complete; what run_policy returns of it is     *)
(* what the next run is measured by.                                         *)
LEMMA FinishIInv ==
    ASSUME Numbered, BenchIInv, Finish
    PROVE  BenchIInv'
<1>1. /\ at = "loop" /\ at' = "reset" /\ waiting = <<>> /\ batch.seqs = <<>>
      /\ UNCHANGED vars /\ UNCHANGED <<tokens, workload, decodes, completion>>
      /\ IInv /\ BenchTypeOK /\ phase # "done"
  BY DEF Finish, IsIdle, BenchIInv
<1>2. /\ phase = "warmup" => phase' = "static" /\ stats' = stats
      /\ phase = "static" => phase' = "continuous"
      /\ phase = "continuous" => phase' = "done"
      /\ phase \in Policies =>
           stats' = [stats EXCEPT ![phase] = [completion |-> completion, tokens |-> tokens]]
  BY DEF Finish, Policies
<1>3. IInv' /\ TypeOK' /\ failures' = 0
  BY <1>1, WorkerStays DEF BenchIInv, IInv, vars
<1>4. phase \in {"warmup", "static", "continuous"}
  BY <1>1 DEF BenchTypeOK, Policies
<1>5. BenchTypeOK'
  <2>1. /\ stats \in [Policies -> [completion : [SeqIds -> Nat], tokens : [SeqIds -> Nat]]]
        /\ completion \in [SeqIds -> Nat] /\ tokens \in [SeqIds -> Nat]
    BY <1>1 DEF BenchTypeOK
  <2>2. stats' \in [Policies -> [completion : [SeqIds -> Nat], tokens : [SeqIds -> Nat]]]
    BY <1>2, <1>4, <2>1 DEF Policies
  <2> QED
    BY <1>1, <1>2, <1>3, <1>4, <2>2 DEF BenchTypeOK, Policies
<1>6. ASSUME phase \in Policies
      PROVE  /\ Started = Requests /\ Live = {} /\ Running
             /\ \A i \in SeqIds : /\ delivered[i] = workload[i].length /\ Last(i) = completion[i]
                                    /\ tokens[i] = workload[i].length
                                    /\ completion[i] \in Nat /\ workload[i].length \in Nat
  <2>1. Running
    BY <1>1, <1>6 DEF BenchIInv
  <2>2. Started = Requests
    BY <1>1, RealBenchAssumption DEF Started
  <2>3. Live = {}
    <3>1. DOMAIN batch.seqs = {}
      BY <1>1
    <3> QED
      BY <2>1, <3>1 DEF Running, Unfinished, Kept
  <2>4. ASSUME NEW i \in SeqIds
        PROVE  /\ delivered[i] = workload[i].length /\ Last(i) = completion[i]
               /\ tokens[i] = workload[i].length
               /\ completion[i] \in Nat /\ workload[i].length \in Nat
    <3>1. i \in 1..Started /\ i \notin Live
      BY <2>2, <2>3 DEF Numbered
    <3>2. workload[i].length \in Nat /\ completion[i] \in Nat
      BY <1>1 DEF BenchTypeOK, Job
    <3>3. delivered[i] \in 1..workload[i].length /\ ~(delivered[i] < workload[i].length)
      BY <2>1, <3>1 DEF Running, Live
    <3>4. delivered[i] = workload[i].length
      BY <3>2, <3>3
    <3> QED
      BY <2>1, <3>1, <3>2, <3>4 DEF Running, Last
  <2> QED
    BY <2>1, <2>2, <2>3, <2>4
<1>7. CASE phase = "warmup"
  BY <1>1, <1>2, <1>3, <1>5, <1>7 DEF BenchIInv
<1>8. CASE phase = "static"
  <2>1. /\ stats'["static"].completion = completion /\ stats'["static"].tokens = tokens
        /\ workload' = workload /\ phase' = "continuous"
    BY <1>1, <1>2, <1>8 DEF Policies, BenchTypeOK
  <2>2. StaticRun /\ Started = Requests
    BY <1>1, <1>6, <1>8 DEF BenchIInv, Policies
  <2>3. Answered("static")'
    BY <1>6, <1>8, <2>1 DEF Answered, Policies
  <2>4. StaticTimes(completion)
    <3>1. /\ \A i \in SeqIds : delivered[i] <= Last(i) + 1
          /\ \A i, j \in SeqIds : j + MaxBatch <= i => completion[j] + delivered[i] <= Last(i) + 1
      BY <2>2 DEF StaticRun, Numbered
    <3> QED
      BY <1>6, <1>8, <3>1 DEF StaticTimes, Policies
  <2>5. StaticTimes(stats["static"].completion)'
    BY <2>1, <2>4 DEF StaticTimes
  <2> QED
    BY <1>1, <1>3, <1>5, <2>1, <2>3, <2>5 DEF BenchIInv
<1>9. CASE phase = "continuous"
  <2>1. /\ stats'["static"] = stats["static"]
        /\ stats'["continuous"].completion = completion /\ stats'["continuous"].tokens = tokens
        /\ workload' = workload /\ phase' = "done"
    BY <1>1, <1>2, <1>9 DEF Policies, BenchTypeOK
  <2>2. Answered("static")' /\ StaticTimes(stats["static"].completion)'
    BY <1>9, <2>1 DEF BenchIInv, Answered, StaticTimes
  <2>3. Answered("continuous")'
    BY <1>6, <1>9, <2>1 DEF Answered, Policies
  <2>4. CompletesNoLater'
    <3>1. ContinuousRun /\ Started = Requests /\ Live = {}
      BY <1>1, <1>6, <1>9 DEF BenchIInv, Policies
    <3>2. \A i \in SeqIds : completion[i] <= stats["static"].completion[i]
      BY <3>1 DEF ContinuousRun, Numbered
    <3> QED
      BY <2>1, <3>2 DEF CompletesNoLater
  <2> QED
    BY <1>1, <1>3, <1>5, <2>1, <2>2, <2>3, <2>4 DEF BenchIInv
<1> QED
  BY <1>4, <1>7, <1>8, <1>9

LEMMA BenchNextIInv ==
    ASSUME Numbered, BenchIInv, [BenchNext]_benchVars
    PROVE  BenchIInv'
<1>1. CASE BenchNext
  BY <1>1, StartIInv, SetModeIInv, BenchAdmitIInv, BenchStepIInv, FinishIInv DEF BenchNext
<1>2. CASE UNCHANGED benchVars
  <2>1. /\ UNCHANGED vars
        /\ UNCHANGED <<waiting, batch, continuous, delivered, lost, failures, slip>>
        /\ UNCHANGED <<tokens, workload, phase, at, decodes, completion, stats>>
    BY <1>2 DEF benchVars, vars
  <2>2. IInv' /\ BenchTypeOK' /\ failures' = 0
    BY <2>1, WorkerStays DEF BenchIInv, BenchTypeOK, IInv
  <2>3. /\ Preparing' <=> Preparing
        /\ Running' <=> Running
        /\ StaticRun' <=> StaticRun
        /\ ContinuousRun' <=> ContinuousRun
    BY <2>1 DEF Preparing, Running, StaticRun, ContinuousRun, Queued, Started, Live, Last,
                Burst, Unfinished, Kept
  <2>4. /\ \A policy : Answered(policy)' <=> Answered(policy)
        /\ StaticTimes(stats["static"].completion)' <=> StaticTimes(stats["static"].completion)
        /\ CompletesNoLater' <=> CompletesNoLater
    BY <2>1 DEF Answered, StaticTimes, CompletesNoLater
  <2> QED
    BY <2>1, <2>2, <2>3, <2>4 DEF BenchIInv
<1> QED
  BY <1>1, <1>2

LEMMA BenchInvariance == ASSUME Numbered PROVE BenchSpec => []BenchIInv
  BY BenchInitIInv, BenchNextIInv, PTL DEF BenchSpec

(* "Static batching changes timing, not greedy outputs": each run counts for    *)
(* each request the tokens of its own answer, although all runs, the warm-up   *)
(* too, use one worker and the same ids.                                       *)
THEOREM BothRunsAnswerAlike ==
    ASSUME Numbered
    PROVE  BenchSpec => []SameOutputs
<1>1. BenchIInv => SameOutputs
  BY DEF BenchIInv, SameOutputs, Answered, Policies
<1> QED
  BY <1>1, BenchInvariance, PTL

(* "The sim's structural story holds on a real model": no request completes     *)
(* after more decodes under continuous than under static batching.             *)
THEOREM NobodyCompletesLater ==
    ASSUME Numbered
    PROVE  BenchSpec => []CompletesNoLater
<1>1. BenchIInv => CompletesNoLater
  BY DEF BenchIInv, CompletesNoLater
<1> QED
  BY <1>1, BenchInvariance, PTL

(* reset() is no step of the worker's own specification.  Nor does it, or a     *)
(* change of the mode right after it, take anything from what is proved there. *)
THEOREM WorkerStaysSound ==
    ASSUME Numbered
    PROVE  BenchSpec => [](RowsAligned /\ TokensWithinBudget /\ LostOnlyByFailure)
<1>1. BenchIInv => RowsAligned /\ TokensWithinBudget /\ LostOnlyByFailure
  BY DEF BenchIInv, IInv, Sound, Aligned, Budgeted,
         RowsAligned, TokensWithinBudget, LostOnlyByFailure
<1> QED
  BY <1>1, BenchInvariance, PTL
===============================================================================
