--------------------------- MODULE SchedulerProofs ---------------------------
(***************************************************************************)
(* Theorems about Scheduler, for every set of sequence ids, every batch    *)
(* size, every bound on the workloads and both policies.                   *)
(*                                                                         *)
(* The inductive invariant adds to the properties proved that an id stands *)
(* at one place only: FreshEnqueue is what keeps that true; and that who   *)
(* is in the batch still has tokens to emit, so that a sequence leaves in  *)
(* the very step that hands back its last one.                             *)
(***************************************************************************)
EXTENDS Scheduler, Integers, FiniteSetTheorems, SequenceTheorems, TLAPS

OnePlace ==
    /\ \A i, j \in DOMAIN waiting : waiting[i].id = waiting[j].id => i = j
    /\ Queued \cap DOMAIN running = {}

(* Nobody stays in the batch with nothing left to emit.                      *)
Unfinished == \A id \in DOMAIN running : running[id].decode > 0

IInv ==
    /\ TypeOK
    /\ OnePlace
    /\ Unfinished
    /\ IsFiniteSet(DOMAIN running)
    /\ BatchBounded
    /\ BudgetExact

-------------------------------------------------------------------------------
(* A batch is a function from its domain, a set of ids, to slots, and such a *)
(* function is a batch.                                                      *)
LEMMA BatchIsFunction ==
    /\ \A r \in Batches : DOMAIN r \in SUBSET SeqIds /\ r \in [DOMAIN r -> Slot]
    /\ \A S \in SUBSET SeqIds : \A r \in [S -> Slot] : r \in Batches
  BY DEF Batches

(* Advancing a slot leaves a slot; a token is counted exactly when one is    *)
(* taken from what is left to decode.                                        *)
LEMMA AdvanceSlotCounts ==
    ASSUME NEW s \in Slot
    PROVE  /\ AdvanceSlot(s) \in Slot
           /\ (s.prefill = 0 /\ s.decode > 0) => AdvanceSlot(s).decode + 1 = s.decode
           /\ ~(s.prefill = 0 /\ s.decode > 0) => AdvanceSlot(s).decode = s.decode
  BY SchedulerAssumption DEF Slot, AdvanceSlot

(* What advance and evict leave of a batch: fewer sequences, each advanced   *)
(* by one step; those that left have nothing left to decode.                 *)
LEMMA LeftProperties ==
    ASSUME NEW r \in Batches, NEW left, left = Evict(Advance(r))
    PROVE  /\ left \in Batches
           /\ DOMAIN left \in SUBSET DOMAIN r
           /\ \A id \in DOMAIN left : left[id] = AdvanceSlot(r[id])
           /\ \A id \in DOMAIN r \ DOMAIN left : AdvanceSlot(r[id]).decode = 0
<1>1. DOMAIN r \in SUBSET SeqIds /\ r \in [DOMAIN r -> Slot]
  BY BatchIsFunction
<1>2. Advance(r) \in [DOMAIN r -> Slot]
  BY <1>1, AdvanceSlotCounts DEF Advance
<1>3. /\ DOMAIN left = DOMAIN r \ Finished(Advance(r))
      /\ \A id \in DOMAIN left : left[id] = AdvanceSlot(r[id])
  BY <1>2 DEF Evict, Advance, Finished
<1>4. left \in [DOMAIN left -> Slot]
  BY <1>1, <1>3, AdvanceSlotCounts DEF Evict
<1>5. left \in Batches
  BY <1>1, <1>3, <1>4, BatchIsFunction
<1>6. \A id \in DOMAIN r \ DOMAIN left : AdvanceSlot(r[id]).decode = 0
  BY <1>2, <1>3 DEF Finished, Advance
<1> QED
  BY <1>3, <1>5, <1>6

(* The loop of _fill_free_slots stops in time: however many sequences it     *)
(* pops, and whether their ids are new to the batch or not, the batch it     *)
(* leaves is finite and within max_batch_size.                               *)
LEMMA FillStopsInTime ==
    ASSUME NEW r, NEW q, Len(q) \in Nat, IsFiniteSet(DOMAIN r),
           Cardinality(DOMAIN r) <= MaxBatch, NEW n \in FillCounts(r, q)
    PROVE  /\ n \in 0..Len(q)
           /\ IsFiniteSet(Taken(r, q, n))
           /\ Cardinality(Taken(r, q, n)) <= MaxBatch
<1>1. n \in 0..Len(q) /\ \A m \in 0..(n - 1) : Cardinality(Taken(r, q, m)) < MaxBatch
  BY DEF FillCounts
<1> DEFINE Popped(m) == {q[i].id : i \in 1..m}
<1>2. \A m \in Nat : IsFiniteSet(Taken(r, q, m))
  <2> SUFFICES ASSUME NEW m \in Nat PROVE IsFiniteSet(Taken(r, q, m))
    OBVIOUS
  <2> DEFINE f == [i \in 1..m |-> q[i].id]
  <2>1. f \in Surjection(1..m, Popped(m))
    BY DEF Surjection
  <2>2. IsFiniteSet(1..m)
    BY FS_Interval
  <2>3. IsFiniteSet(Popped(m))
    BY <2>1, <2>2, FS_Surjection
  <2> QED
    BY <2>3, FS_Union DEF Taken
<1>3. CASE n = 0
  <2>1. Taken(r, q, 0) = DOMAIN r
    <3>1. 1..0 = {}
      OBVIOUS
    <3> QED
      BY <3>1 DEF Taken
  <2> QED
    BY <1>1, <1>3, <2>1
<1>4. CASE n > 0
  <2>1. n - 1 \in Nat /\ n \in Nat /\ n - 1 \in 0..(n - 1)
    BY <1>1, <1>4
  <2>2. Taken(r, q, n) = Taken(r, q, n - 1) \cup {q[n].id}
    BY <2>1 DEF Taken
  <2>3. IsFiniteSet(Taken(r, q, n - 1)) /\ IsFiniteSet(Taken(r, q, n))
    BY <1>2, <2>1
  <2>4. Cardinality(Taken(r, q, n - 1)) \in Nat /\ Cardinality(Taken(r, q, n - 1)) < MaxBatch
    BY <1>1, <2>1, <2>3, FS_CardinalityType
  <2>5. Cardinality(Taken(r, q, n)) <= Cardinality(Taken(r, q, n - 1)) + 1
    <3> DEFINE S == Taken(r, q, n - 1)
    <3>1. IsFiniteSet(S)
      BY <2>3
    <3> HIDE DEF S
    <3>2. Cardinality(S \cup {q[n].id}) =
              IF q[n].id \in S THEN Cardinality(S) ELSE Cardinality(S) + 1
      BY <3>1, FS_AddElement
    <3>3. Cardinality(S) \in Nat
      BY <3>1, FS_CardinalityType
    <3>4. Cardinality(S \cup {q[n].id}) <= Cardinality(S) + 1
      BY <3>2, <3>3
    <3> QED
      BY <2>2, <3>4 DEF S
  <2>6. Cardinality(Taken(r, q, n)) \in Nat
    BY <2>3, FS_CardinalityType
  <2> QED
    BY <1>1, <2>3, <2>4, <2>5, <2>6, SchedulerAssumption
<1> QED
  BY <1>1, <1>3, <1>4

(* Filling a batch from a queue without repeated ids, none of them in the    *)
(* batch: what ran keeps its slot, and every popped sequence gets the slot   *)
(* its work describes.                                                       *)
LEMMA FillProperties ==
    ASSUME NEW r \in Batches, NEW q \in Seq(SeqWork), NEW n \in 0..Len(q),
           \A i, j \in DOMAIN q : q[i].id = q[j].id => i = j,
           \A i \in DOMAIN q : q[i].id \notin DOMAIN r
    PROVE  /\ Fill(r, q, n) \in Batches
           /\ DOMAIN Fill(r, q, n) = Taken(r, q, n)
           /\ \A id \in DOMAIN r : Fill(r, q, n)[id] = r[id]
           /\ \A i \in 1..n : Fill(r, q, n)[q[i].id] =
                  [prefill |-> q[i].prefill, decode |-> q[i].decode]
<1>1. Len(q) \in Nat /\ DOMAIN q = 1..Len(q) /\ \A i \in 1..Len(q) : q[i] \in SeqWork
  BY LenProperties, ElementOfSeq
<1>2. 1..n \subseteq DOMAIN q
  BY <1>1
<1>3. DOMAIN Fill(r, q, n) = Taken(r, q, n)
  BY DEF Fill
<1>4. \A id \in DOMAIN r : Fill(r, q, n)[id] = r[id]
  BY <1>2 DEF Fill, Taken
<1>5. ASSUME NEW i \in 1..n
      PROVE  Fill(r, q, n)[q[i].id] = [prefill |-> q[i].prefill, decode |-> q[i].decode]
  <2> DEFINE P(k) == q[k].id = q[i].id /\ \A j \in (k + 1)..n : q[j].id # q[i].id
  <2>1. P(i)
    <3> SUFFICES ASSUME NEW j \in (i + 1)..n PROVE q[j].id # q[i].id
      OBVIOUS
    <3>1. j \in 1..n /\ j # i
      BY <1>1
    <3> QED
      BY <1>2, <3>1
  <2>2. \A k \in 1..n : P(k) => k = i
    BY <1>2
  <2>3. (CHOOSE k \in 1..n : P(k)) = i
    <3> HIDE DEF P
    <3> QED
      BY <2>1, <2>2
  <2>4. q[i].id \in Taken(r, q, n) /\ \E k \in 1..n : q[k].id = q[i].id
    BY DEF Taken
  <2> QED
    BY <2>3, <2>4 DEF Fill
<1>6. Taken(r, q, n) \in SUBSET SeqIds
  <2>1. \A i \in 1..n : q[i].id \in SeqIds
    BY <1>1, <1>2 DEF SeqWork
  <2> QED
    BY <2>1, BatchIsFunction DEF Taken
<1>7. \A id \in Taken(r, q, n) : Fill(r, q, n)[id] \in Slot
  <2>1. \A id \in DOMAIN r : r[id] \in Slot
    BY BatchIsFunction
  <2>2. \A i \in 1..n : [prefill |-> q[i].prefill, decode |-> q[i].decode] \in Slot
    BY <1>1, <1>2, SchedulerAssumption DEF SeqWork, Slot
  <2> SUFFICES ASSUME NEW id \in Taken(r, q, n) PROVE Fill(r, q, n)[id] \in Slot
    OBVIOUS
  <2>3. CASE id \in DOMAIN r
    BY <1>4, <2>1, <2>3
  <2>4. CASE id \notin DOMAIN r
    <3>1. PICK i \in 1..n : id = q[i].id
      BY <2>4 DEF Taken
    <3> QED
      BY <1>5, <2>2, <3>1
  <2> QED
    BY <2>3, <2>4
<1>8. Fill(r, q, n) \in [Taken(r, q, n) -> Slot]
  BY <1>7 DEF Fill
<1> QED
  BY <1>3, <1>4, <1>5, <1>6, <1>8, BatchIsFunction
-------------------------------------------------------------------------------
(* An empty scheduler satisfies the invariant.                               *)
LEMMA InitIInv == Init => IInv
<1> SUFFICES ASSUME Init PROVE IInv
  OBVIOUS
<1>1. DOMAIN running = {} /\ running \in Batches
  <2>1. DOMAIN running = {} /\ running \in [{} -> Slot]
    BY DEF Init
  <2> QED
    BY <2>1, BatchIsFunction
<1>2. DOMAIN waiting = {} /\ waiting \in Seq(SeqWork)
  BY DEF Init
<1>3. IsFiniteSet(DOMAIN running) /\ Cardinality(DOMAIN running) = 0
  BY <1>1, FS_EmptySet
<1>4. TypeOK
  BY <1>1, <1>2 DEF Init, TypeOK
<1>5. OnePlace /\ BudgetExact
  BY <1>1, <1>2 DEF Init, OnePlace, BudgetExact, Queued
<1> QED
  BY <1>1, <1>3, <1>4, <1>5, SchedulerAssumption DEF IInv, Unfinished, BatchBounded

(* Enqueueing an id that is not resident keeps it: the new entry is the only *)
(* one of its id, and its account starts at its decode_steps.                *)
LEMMA EnqueueIInv ==
    ASSUME IInv, NEW w \in SeqWork, w.id \notin Resident, Enqueue(w)
    PROVE  IInv'
<1> USE DEF Enqueue
<1>1. /\ Len(waiting) \in Nat
      /\ DOMAIN waiting = 1..Len(waiting)
      /\ waiting \in Seq(SeqWork)
  BY LenProperties DEF IInv, TypeOK
<1>2. /\ waiting' \in Seq(SeqWork)
      /\ Len(waiting') = Len(waiting) + 1
      /\ DOMAIN waiting' = 1..(Len(waiting) + 1)
      /\ \A i \in 1..Len(waiting) : waiting'[i] = waiting[i]
      /\ waiting'[Len(waiting) + 1] = w
  <2>1. /\ waiting' \in Seq(SeqWork)
        /\ Len(waiting') = Len(waiting) + 1
        /\ \A i \in 1..Len(waiting) : waiting'[i] = waiting[i]
        /\ waiting'[Len(waiting) + 1] = w
    BY <1>1, AppendProperties
  <2> QED
    BY <2>1, LenProperties
<1>3. w.id \in SeqIds /\ w.decode \in Nat
  BY SchedulerAssumption DEF SeqWork
<1>4. /\ owed' = [owed EXCEPT ![w.id] = w.decode]
      /\ emitted' = [emitted EXCEPT ![w.id] = 0]
      /\ owed \in [SeqIds -> Nat]
      /\ emitted \in [SeqIds -> Nat]
  <2>1. owed \in [SeqIds -> Nat] /\ emitted \in [SeqIds -> Nat]
    BY DEF IInv, TypeOK
  <2>2. 0 + w.decode = w.decode
    BY <1>3
  <2> QED
    BY <2>1, <2>2
<1>5. TypeOK'
  <2>1. owed' \in [SeqIds -> Nat] /\ emitted' \in [SeqIds -> Nat]
    BY <1>3, <1>4
  <2> QED
    BY <1>2, <2>1 DEF IInv, TypeOK
<1>6. w.id \notin DOMAIN running /\ \A i \in DOMAIN waiting : waiting[i].id # w.id
  BY DEF Resident, Queued
<1>7. OnePlace'
  <2>1. \A i, j \in DOMAIN waiting' : waiting'[i].id = waiting'[j].id => i = j
    BY <1>1, <1>2, <1>6 DEF IInv, OnePlace
  <2>2. \A i \in DOMAIN waiting' : waiting'[i].id \notin DOMAIN running
    BY <1>1, <1>2, <1>6 DEF IInv, OnePlace, Queued
  <2> QED
    BY <2>1, <2>2 DEF OnePlace, Queued
<1>8. BudgetExact'
  <2>1. \A i \in DOMAIN waiting' :
          emitted'[waiting'[i].id] = 0 /\ owed'[waiting'[i].id] = waiting'[i].decode
    <3> SUFFICES ASSUME NEW i \in DOMAIN waiting'
                 PROVE  emitted'[waiting'[i].id] = 0 /\ owed'[waiting'[i].id] = waiting'[i].decode
      OBVIOUS
    <3>1. CASE i = Len(waiting) + 1
      <4>1. waiting'[i] = w
        BY <1>2, <3>1
      <4>2. emitted'[w.id] = 0 /\ owed'[w.id] = w.decode
        BY <1>3, <1>4
      <4> QED
        BY <4>1, <4>2
    <3>2. CASE i \in DOMAIN waiting
      <4>1. waiting[i].id \in SeqIds /\ waiting'[i] = waiting[i] /\ waiting[i].id # w.id
        <5>1. waiting[i] \in SeqWork
          BY <1>1, <3>2, ElementOfSeq
        <5> QED
          BY <1>1, <1>2, <1>6, <3>2, <5>1 DEF SeqWork
      <4> QED
        BY <1>4, <3>2, <4>1 DEF IInv, BudgetExact
    <3> QED
      BY <1>1, <1>2, <3>1, <3>2
  <2>2. \A id \in DOMAIN running : emitted'[id] + running[id].decode = owed'[id]
    <3>1. DOMAIN running \in SUBSET SeqIds
      BY BatchIsFunction DEF IInv, TypeOK
    <3> QED
      BY <1>4, <1>6, <3>1 DEF IInv, BudgetExact
  <2>3. \A id \in SeqIds \ Resident' : emitted'[id] = owed'[id]
    <3> SUFFICES ASSUME NEW id \in SeqIds, id \notin Resident' PROVE emitted'[id] = owed'[id]
      OBVIOUS
    <3>1. id \notin DOMAIN running /\ \A i \in DOMAIN waiting' : waiting'[i].id # id
      BY DEF Resident, Queued
    <3>2. id # w.id /\ \A i \in DOMAIN waiting : waiting[i].id # id
      BY <1>1, <1>2, <3>1
    <3>3. id \notin Resident
      BY <3>1, <3>2 DEF Resident, Queued
    <3> QED
      BY <1>4, <3>2, <3>3 DEF IInv, BudgetExact
  <2> QED
    BY <2>1, <2>2, <2>3 DEF BudgetExact
<1> QED
  BY <1>5, <1>7, <1>8 DEF IInv, Unfinished, BatchBounded

(* Who is still in the batch when the free slots are filled.                 *)
Left == Evict(Advance(running))

(* What a step does to the queue and the batch: the unfinished stay as they   *)
(* advanced, and the first n of the queue join them with the slots of their  *)
(* work.                                                                     *)
Admits(n) ==
    /\ n \in AdmitCounts(Left, waiting)
    /\ n \in 0..Len(waiting)
    /\ IsFiniteSet(Taken(Left, waiting, n))
    /\ Cardinality(Taken(Left, waiting, n)) <= MaxBatch
    /\ running' \in Batches
    /\ DOMAIN running' = Taken(Left, waiting, n)
    /\ \A id \in DOMAIN Left : running'[id] = Left[id]
    /\ \A i \in 1..n : running'[waiting[i].id] =
           [prefill |-> waiting[i].prefill, decode |-> waiting[i].decode]
    /\ waiting' \in Seq(SeqWork)
    /\ Len(waiting') = Len(waiting) - n
    /\ DOMAIN waiting' = 1..(Len(waiting) - n)
    /\ \A i \in 1..(Len(waiting) - n) : waiting'[i] = waiting[n + i]

LEMMA StepAdmits ==
    ASSUME IInv, Step
    PROVE  \E n : Admits(n)
<1> DEFINE left == Evict(Advance(running))
<1>1. PICK n \in AdmitCounts(left, waiting) :
          /\ running' = Fill(left, waiting, n)
          /\ waiting' = SubSeq(waiting, n + 1, Len(waiting))
  BY DEF Step
<1>3. /\ Len(waiting) \in Nat
      /\ DOMAIN waiting = 1..Len(waiting)
      /\ waiting \in Seq(SeqWork)
      /\ \A i \in 1..Len(waiting) : waiting[i] \in SeqWork
  BY LenProperties, ElementOfSeq DEF IInv, TypeOK
<1>4. running \in Batches /\ DOMAIN running \in SUBSET SeqIds /\ running \in [DOMAIN running -> Slot]
  BY BatchIsFunction DEF IInv, TypeOK
<1>5. /\ left \in Batches
      /\ DOMAIN left \in SUBSET DOMAIN running
      /\ \A id \in DOMAIN left : left[id] = AdvanceSlot(running[id])
      /\ \A id \in DOMAIN running \ DOMAIN left : AdvanceSlot(running[id]).decode = 0
  BY <1>4, LeftProperties
<1>6. IsFiniteSet(DOMAIN left) /\ Cardinality(DOMAIN left) <= MaxBatch
  <2>1. /\ IsFiniteSet(DOMAIN left)
        /\ Cardinality(DOMAIN left) <= Cardinality(DOMAIN running)
    BY <1>5, FS_Subset DEF IInv
  <2>2. Cardinality(DOMAIN left) \in Nat /\ Cardinality(DOMAIN running) \in Nat
    BY <2>1, FS_CardinalityType DEF IInv
  <2> QED
    BY <2>1, <2>2, SchedulerAssumption DEF IInv, BatchBounded
<1>7. /\ n \in 0..Len(waiting)
      /\ IsFiniteSet(Taken(left, waiting, n))
      /\ Cardinality(Taken(left, waiting, n)) <= MaxBatch
  <2>1. CASE n \in FillCounts(left, waiting)
    <3> HIDE DEF left
    <3> QED
      BY <1>3, <1>6, <2>1, FillStopsInTime
  <2>2. CASE n = 0
    <3>1. 1..0 = {}
      OBVIOUS
    <3>2. Taken(left, waiting, 0) = DOMAIN left
      BY <3>1 DEF Taken
    <3> QED
      BY <1>3, <1>6, <2>2, <3>2
  <2> QED
    BY <1>1, <2>1, <2>2 DEF AdmitCounts
<1>8. /\ \A i, j \in DOMAIN waiting : waiting[i].id = waiting[j].id => i = j
      /\ \A i \in DOMAIN waiting : waiting[i].id \notin DOMAIN running
  BY DEF IInv, OnePlace, Queued
<1>9. /\ running' \in Batches
      /\ DOMAIN running' = Taken(left, waiting, n)
      /\ \A id \in DOMAIN left : running'[id] = left[id]
      /\ \A i \in 1..n : running'[waiting[i].id] =
             [prefill |-> waiting[i].prefill, decode |-> waiting[i].decode]
  <2>1. \A i \in DOMAIN waiting : waiting[i].id \notin DOMAIN left
    BY <1>5, <1>8
  <2>2. left \in Batches /\ waiting \in Seq(SeqWork) /\ n \in 0..Len(waiting)
    BY <1>3, <1>5, <1>7
  <2> HIDE DEF left
  <2>3. /\ Fill(left, waiting, n) \in Batches
        /\ DOMAIN Fill(left, waiting, n) = Taken(left, waiting, n)
        /\ \A id \in DOMAIN left : Fill(left, waiting, n)[id] = left[id]
        /\ \A i \in 1..n : Fill(left, waiting, n)[waiting[i].id] =
               [prefill |-> waiting[i].prefill, decode |-> waiting[i].decode]
    BY <1>8, <2>1, <2>2, FillProperties
  <2> QED
    BY <1>1, <2>3
<1>10. /\ waiting' \in Seq(SeqWork)
       /\ Len(waiting') = Len(waiting) - n
       /\ DOMAIN waiting' = 1..(Len(waiting) - n)
       /\ \A i \in 1..(Len(waiting) - n) : waiting'[i] = waiting[n + i]
  <2>1. /\ waiting' \in Seq(SeqWork)
        /\ Len(waiting') = IF n + 1 <= Len(waiting) THEN Len(waiting) - (n + 1) + 1 ELSE 0
        /\ \A i \in 1..(Len(waiting) - (n + 1) + 1) : waiting'[i] = waiting[(n + 1) + i - 1]
    <3>1. n + 1 \in Int /\ Len(waiting) \in Int
      BY <1>3, <1>7
    <3>2. \A i \in (n + 1)..Len(waiting) : waiting[i] \in SeqWork
      BY <1>3, <1>7
    <3> QED
      BY <1>1, <3>1, <3>2, SubSeqProperties
  <2>2. Len(waiting') = Len(waiting) - n
    BY <1>3, <1>7, <2>1
  <2>3. DOMAIN waiting' = 1..Len(waiting')
    BY <2>1, LenProperties
  <2>4. \A i \in 1..(Len(waiting) - n) : waiting'[i] = waiting[n + i]
    <3> SUFFICES ASSUME NEW i \in 1..(Len(waiting) - n) PROVE waiting'[i] = waiting[n + i]
      OBVIOUS
    <3>1. i \in 1..(Len(waiting) - (n + 1) + 1) /\ (n + 1) + i - 1 = n + i
      BY <1>3, <1>7
    <3> QED
      BY <2>1, <3>1
  <2> QED
    BY <2>1, <2>2, <2>3, <2>4
<1> QED
  BY <1>1, <1>7, <1>9, <1>10 DEF Admits, Left

(* A step keeps it: n sequences are admitted after the finished ones left,   *)
(* and every account moves with its sequence.                                *)
LEMMA StepIInv ==
    ASSUME IInv, Step
    PROVE  IInv'
<1> DEFINE left == Left
<1>1. PICK n : Admits(n)
  BY StepAdmits
<1>2. /\ emitted' = [id \in SeqIds |->
             IF id \in Tokens(running) THEN emitted[id] + 1 ELSE emitted[id]]
      /\ owed' = owed
  BY DEF Step
<1>3. /\ Len(waiting) \in Nat
      /\ DOMAIN waiting = 1..Len(waiting)
      /\ waiting \in Seq(SeqWork)
      /\ \A i \in 1..Len(waiting) : waiting[i] \in SeqWork
  BY LenProperties, ElementOfSeq DEF IInv, TypeOK
<1>4. running \in Batches /\ DOMAIN running \in SUBSET SeqIds /\ running \in [DOMAIN running -> Slot]
  BY BatchIsFunction DEF IInv, TypeOK
<1>5. /\ left \in Batches
      /\ DOMAIN left \in SUBSET DOMAIN running
      /\ \A id \in DOMAIN left : left[id] = AdvanceSlot(running[id])
      /\ \A id \in DOMAIN running \ DOMAIN left : AdvanceSlot(running[id]).decode = 0
  BY <1>4, LeftProperties DEF Left
<1>7. /\ n \in 0..Len(waiting)
      /\ IsFiniteSet(Taken(left, waiting, n))
      /\ Cardinality(Taken(left, waiting, n)) <= MaxBatch
  BY <1>1 DEF Admits
<1>8. /\ \A i, j \in DOMAIN waiting : waiting[i].id = waiting[j].id => i = j
      /\ \A i \in DOMAIN waiting : waiting[i].id \notin DOMAIN running
  BY DEF IInv, OnePlace, Queued
<1>9. /\ running' \in Batches
      /\ DOMAIN running' = Taken(left, waiting, n)
      /\ \A id \in DOMAIN left : running'[id] = left[id]
      /\ \A i \in 1..n : running'[waiting[i].id] =
             [prefill |-> waiting[i].prefill, decode |-> waiting[i].decode]
  BY <1>1 DEF Admits
<1>10. /\ waiting' \in Seq(SeqWork)
       /\ Len(waiting') = Len(waiting) - n
       /\ DOMAIN waiting' = 1..(Len(waiting) - n)
       /\ \A i \in 1..(Len(waiting) - n) : waiting'[i] = waiting[n + i]
  BY <1>1 DEF Admits
<1> HIDE DEF left
<1>11. /\ emitted \in [SeqIds -> Nat]
       /\ owed \in [SeqIds -> Nat]
       /\ emitted' \in [SeqIds -> Nat]
       /\ \A id \in Tokens(running) : emitted'[id] = emitted[id] + 1
       /\ \A id \in SeqIds \ Tokens(running) : emitted'[id] = emitted[id]
  <2>1. emitted \in [SeqIds -> Nat] /\ owed \in [SeqIds -> Nat]
    BY DEF IInv, TypeOK
  <2>2. Tokens(running) \in SUBSET SeqIds
    BY <1>4 DEF Tokens
  <2> QED
    BY <1>2, <2>1, <2>2
<1>12. TypeOK'
  BY <1>2, <1>9, <1>10, <1>11 DEF TypeOK
<1>13. OnePlace'
  <2>1. \A i, j \in DOMAIN waiting' : waiting'[i].id = waiting'[j].id => i = j
    <3> SUFFICES ASSUME NEW i \in DOMAIN waiting', NEW j \in DOMAIN waiting',
                        waiting'[i].id = waiting'[j].id
                 PROVE  i = j
      OBVIOUS
    <3>1. /\ n + i \in DOMAIN waiting /\ n + j \in DOMAIN waiting
          /\ waiting[n + i].id = waiting[n + j].id
      BY <1>3, <1>7, <1>10
    <3>2. n + i = n + j
      BY <1>8, <3>1
    <3> QED
      BY <1>7, <1>10, <3>2
  <2>2. \A i \in DOMAIN waiting' : waiting'[i].id \notin DOMAIN running'
    <3> SUFFICES ASSUME NEW i \in DOMAIN waiting', waiting'[i].id \in DOMAIN running'
                 PROVE  FALSE
      OBVIOUS
    <3>1. n + i \in DOMAIN waiting /\ waiting'[i] = waiting[n + i]
      BY <1>3, <1>7, <1>10
    <3>2. waiting[n + i].id \notin DOMAIN left
      BY <1>5, <1>8, <3>1
    <3>3. PICK j \in 1..n : waiting[j].id = waiting[n + i].id
      BY <1>9, <3>1, <3>2 DEF Taken
    <3>4. j = n + i
      BY <1>3, <1>7, <1>8, <3>1, <3>3
    <3> QED
      BY <1>7, <1>10, <3>4
  <2> QED
    BY <2>1, <2>2 DEF OnePlace, Queued
<1>14. IsFiniteSet(DOMAIN running)' /\ BatchBounded'
  BY <1>7, <1>9 DEF BatchBounded
<1>15. \A id \in DOMAIN running : emitted'[id] + AdvanceSlot(running[id]).decode = owed'[id]
  <2> SUFFICES ASSUME NEW id \in DOMAIN running
               PROVE  emitted'[id] + AdvanceSlot(running[id]).decode = owed[id]
    BY <1>2
  <2>1. /\ running[id] \in Slot /\ id \in SeqIds
        /\ emitted[id] + running[id].decode = owed[id]
        /\ emitted[id] \in Nat /\ running[id].decode \in Nat
    BY <1>4, <1>11 DEF IInv, BudgetExact, Slot
  <2>2. AdvanceSlot(running[id]).decode \in Nat
    BY <2>1, AdvanceSlotCounts DEF Slot
  <2>3. CASE id \in Tokens(running)
    <3>1. AdvanceSlot(running[id]).decode + 1 = running[id].decode
      BY <2>1, <2>3, AdvanceSlotCounts DEF Tokens
    <3> QED
      BY <1>11, <2>1, <2>2, <2>3, <3>1
  <2>4. CASE id \notin Tokens(running)
    <3>1. AdvanceSlot(running[id]).decode = running[id].decode
      BY <2>1, <2>4, AdvanceSlotCounts DEF Tokens
    <3> QED
      BY <1>11, <2>1, <2>4, <3>1
  <2> QED
    BY <2>3, <2>4
<1>16. \A i \in DOMAIN waiting :
          /\ waiting[i].id \in SeqIds
          /\ emitted'[waiting[i].id] = 0
          /\ owed'[waiting[i].id] = waiting[i].decode
  <2> SUFFICES ASSUME NEW i \in DOMAIN waiting
               PROVE  /\ waiting[i].id \in SeqIds
                      /\ emitted'[waiting[i].id] = 0
                      /\ owed'[waiting[i].id] = waiting[i].decode
    OBVIOUS
  <2>1. waiting[i].id \in SeqIds /\ waiting[i].id \notin Tokens(running)
    BY <1>3, <1>8 DEF SeqWork, Tokens
  <2> QED
    BY <1>2, <1>11, <2>1 DEF IInv, BudgetExact
<1>17. BudgetExact'
  <2>1. \A i \in DOMAIN waiting' :
          emitted'[waiting'[i].id] = 0 /\ owed'[waiting'[i].id] = waiting'[i].decode
    <3>1. \A i \in DOMAIN waiting' : n + i \in DOMAIN waiting /\ waiting'[i] = waiting[n + i]
      BY <1>3, <1>7, <1>10
    <3> QED
      BY <1>16, <3>1
  <2>2. \A id \in DOMAIN running' : emitted'[id] + running'[id].decode = owed'[id]
    <3>1. \A id \in DOMAIN left : emitted'[id] + running'[id].decode = owed'[id]
      BY <1>5, <1>9, <1>15
    <3>2. ASSUME NEW i \in 1..n
          PROVE  emitted'[waiting[i].id] + running'[waiting[i].id].decode = owed'[waiting[i].id]
      <4>1. i \in 1..Len(waiting)
        BY <1>3, <1>7
      <4>2. running'[waiting[i].id].decode = waiting[i].decode
        <5>1. running'[waiting[i].id] = [prefill |-> waiting[i].prefill, decode |-> waiting[i].decode]
          BY <1>9
        <5> QED
          BY <5>1
      <4>3. /\ emitted'[waiting[i].id] = 0
            /\ owed'[waiting[i].id] = waiting[i].decode
        BY <1>3, <1>16, <4>1
      <4>4. waiting[i].decode \in Nat
        BY <1>3, <4>1, SchedulerAssumption DEF SeqWork
      <4> QED
        BY <4>2, <4>3, <4>4
    <3> QED
      BY <1>9, <3>1, <3>2 DEF Taken
  <2>3. \A id \in SeqIds \ Resident' : emitted'[id] = owed'[id]
    <3> SUFFICES ASSUME NEW id \in SeqIds, id \notin Resident' PROVE emitted'[id] = owed'[id]
      OBVIOUS
    <3>1. id \notin DOMAIN left /\ \A i \in 1..n : waiting[i].id # id
      BY <1>9 DEF Resident, Taken
    <3>2. \A i \in DOMAIN waiting : waiting[i].id # id
      <4> SUFFICES ASSUME NEW i \in DOMAIN waiting, i > n PROVE waiting[i].id # id
        BY <1>3, <1>7, <3>1
      <4>1. i - n \in DOMAIN waiting' /\ waiting'[i - n] = waiting[i]
        BY <1>3, <1>7, <1>10
      <4> QED
        BY <4>1 DEF Resident, Queued
    <3>3. CASE id \in DOMAIN running
      <4>1. /\ AdvanceSlot(running[id]).decode = 0
            /\ emitted'[id] + AdvanceSlot(running[id]).decode = owed'[id]
        BY <1>5, <1>15, <3>1, <3>3
      <4> QED
        BY <1>11, <4>1
    <3>4. CASE id \notin DOMAIN running
      <4>1. id \notin Resident /\ id \notin Tokens(running)
        BY <3>2, <3>4 DEF Resident, Queued, Tokens
      <4> QED
        BY <1>2, <1>11, <4>1 DEF IInv, BudgetExact
    <3> QED
      BY <3>3, <3>4
  <2> QED
    BY <2>1, <2>2, <2>3 DEF BudgetExact
<1>18. Unfinished'
  <2>1. ASSUME NEW id \in DOMAIN left PROVE running'[id].decode > 0
    <3>1. running[id] \in Slot /\ running[id].decode > 0 /\ id \in DOMAIN running
      BY <1>4, <1>5 DEF IInv, Unfinished
    <3>2. AdvanceSlot(running[id]).prefill # 0 \/ AdvanceSlot(running[id]).decode # 0
      BY <1>5, <3>1 DEF Left, left, Evict, Finished, Advance
    <3>3. AdvanceSlot(running[id]) \in Slot
      BY <3>1, AdvanceSlotCounts
    <3>4. AdvanceSlot(running[id]).decode # 0
      BY <3>1, <3>2, SchedulerAssumption DEF AdvanceSlot, Slot
    <3> QED
      BY <1>5, <1>9, <3>3, <3>4, SchedulerAssumption DEF Slot
  <2>2. ASSUME NEW i \in 1..n PROVE running'[waiting[i].id].decode > 0
    <3>1. waiting[i] \in SeqWork
      BY <1>3, <1>7
    <3>2. running'[waiting[i].id] = [prefill |-> waiting[i].prefill, decode |-> waiting[i].decode]
      BY <1>9
    <3> QED
      BY <3>1, <3>2 DEF SeqWork
  <2> QED
    BY <1>9, <2>1, <2>2 DEF Unfinished, Taken
<1> QED
  BY <1>12, <1>13, <1>14, <1>17, <1>18 DEF IInv

(* So does a step that changes nothing.                                      *)
LEMMA StutterIInv == ASSUME IInv, UNCHANGED vars PROVE IInv'
  BY DEF IInv, TypeOK, OnePlace, Unfinished, BatchBounded, BudgetExact, Queued, Resident, vars

(* The invariant holds from the start and survives every enqueue and step.   *)
THEOREM SchedulerInvariant == Spec => []IInv
<1>1. Init => IInv
  BY InitIInv
<1>2. IInv /\ [Next]_vars => IInv'
  BY EnqueueIInv, StepIInv, StutterIInv DEF Next, FreshEnqueue
<1> QED
  BY <1>1, <1>2, PTL DEF Spec

(* What the scheduler holds always has the shape the code expects; in        *)
(* particular no count of a running sequence ever goes below zero.           *)
THEOREM TypeCorrect == Spec => []TypeOK
<1>1. IInv => TypeOK
  BY DEF IInv
<1> QED
  BY <1>1, SchedulerInvariant, PTL

(* The scheduler never over-admits.                                          *)
THEOREM NeverOverAdmits == Spec => []BatchBounded
<1>1. IInv => BatchBounded
  BY DEF IInv
<1> QED
  BY <1>1, SchedulerInvariant, PTL

(* Every sequence emits exactly its budget, whatever runs beside it.         *)
THEOREM AccountingNeverMixes == Spec => []BudgetExact
<1>1. IInv => BudgetExact
  BY DEF IInv
<1> QED
  BY <1>1, SchedulerInvariant, PTL

-------------------------------------------------------------------------------
(* Who leaves the batch in a step emitted in it, and nobody else does leave;    *)
(* those admitted were resident already.                                       *)
LEMMA StepResidents ==
    ASSUME IInv, Step
    PROVE  /\ Resident' = Resident \ (DOMAIN running \ DOMAIN Left)
           /\ DOMAIN running \ DOMAIN Left \subseteq Tokens(running)
<1>1. PICK n : Admits(n)
  BY StepAdmits
<1>2. running \in Batches /\ running \in [DOMAIN running -> Slot]
  BY BatchIsFunction DEF IInv, TypeOK
<1>3. /\ DOMAIN Left \in SUBSET DOMAIN running
      /\ \A id \in DOMAIN running \ DOMAIN Left : AdvanceSlot(running[id]).decode = 0
  BY <1>2, LeftProperties DEF Left
<1>4. ASSUME NEW id \in DOMAIN running \ DOMAIN Left PROVE id \in Tokens(running)
  <2>1. running[id] \in Slot /\ running[id].decode > 0
    BY <1>2 DEF IInv, Unfinished
  <2>2. AdvanceSlot(running[id]).decode # running[id].decode
    BY <1>3, <2>1, SchedulerAssumption DEF Slot
  <2> QED
    BY <2>1, <2>2, AdvanceSlotCounts DEF Tokens
<1>5. Len(waiting) \in Nat /\ DOMAIN waiting = 1..Len(waiting) /\ n \in 0..Len(waiting)
  BY <1>1, LenProperties DEF IInv, TypeOK, Admits
<1>6. Queued = {waiting[i].id : i \in 1..n} \cup Queued'
  <2>1. \A i \in 1..n : i \in DOMAIN waiting
    BY <1>5
  <2>2. ASSUME NEW i \in DOMAIN waiting' PROVE waiting'[i].id \in Queued
    <3>1. n + i \in DOMAIN waiting /\ waiting'[i] = waiting[n + i]
      BY <1>1, <1>5 DEF Admits
    <3> QED
      BY <3>1 DEF Queued
  <2>3. ASSUME NEW i \in DOMAIN waiting, i > n PROVE waiting[i].id \in Queued'
    <3>1. i - n \in 1..(Len(waiting) - n) /\ n + (i - n) = i
      BY <1>5, <2>3
    <3>2. i - n \in DOMAIN waiting' /\ waiting'[i - n] = waiting[i]
      BY <1>1, <3>1 DEF Admits
    <3> QED
      BY <3>2 DEF Queued
  <2>4. \A i \in DOMAIN waiting : i \in 1..n \/ i > n
    BY <1>5
  <2> QED
    BY <2>1, <2>2, <2>3, <2>4 DEF Queued
<1>7. DOMAIN running' = DOMAIN Left \cup {waiting[i].id : i \in 1..n}
  BY <1>1 DEF Admits, Taken
<1>8. Queued \cap DOMAIN running = {}
  BY DEF IInv, OnePlace
<1> QED
  BY <1>3, <1>4, <1>6, <1>7, <1>8 DEF Resident

(* "The backend-agnostic worker protocol": the scheduler implements it.  A      *)
(* request that is enqueued is accepted; a step delivers one event for each    *)
(* token, and the last of a request's events is the one it leaves with.        *)
THEOREM ImplementsWorkerProtocol == Spec => KeepsWorkerProtocol
<1> USE DEF Worker!Init, Worker!Next, Worker!Accept, Worker!Deliver, Worker!vars
<1>1. Init => Worker!Init
  BY DEF Init, Resident, Queued
<1>2. ASSUME IInv, FreshEnqueue PROVE Worker!Next
  <2>1. PICK w \in SeqWork : w.id \notin Resident /\ Enqueue(w)
    BY <1>2 DEF FreshEnqueue
  <2>2. w.id \in SeqIds /\ waiting \in Seq(SeqWork)
    BY <1>2 DEF SeqWork, IInv, TypeOK
  <2>3. Len(waiting) \in Nat /\ DOMAIN waiting = 1..Len(waiting)
    BY <2>2, LenProperties
  <2>4. /\ DOMAIN waiting' = DOMAIN waiting \cup {Len(waiting) + 1}
        /\ \A i \in DOMAIN waiting : waiting'[i] = waiting[i]
        /\ waiting'[Len(waiting) + 1] = w
    BY <2>1, <2>2, <2>3, AppendProperties DEF Enqueue
  <2>5. Queued' = Queued \cup {w.id}
    BY <2>4 DEF Queued
  <2>6. Resident' = Resident \cup {w.id} /\ emitted' = [emitted EXCEPT ![w.id] = 0]
    BY <2>1, <2>5 DEF Enqueue, Resident
  <2> QED
    BY <2>1, <2>2, <2>6
<1>3. ASSUME IInv, Step PROVE Worker!Next
  <2> DEFINE n == [id \in Resident |-> IF id \in Tokens(running) THEN 1 ELSE 0]
             finals == DOMAIN running \ DOMAIN Left
  <2>1. Resident' = Resident \ finals /\ finals \subseteq Tokens(running)
    BY <1>3, StepResidents
  <2>2. Tokens(running) \subseteq Resident
    BY DEF Tokens, Resident
  <2>3. n \in [Resident -> 0..1]
    OBVIOUS
  <2>4. finals \in SUBSET {id \in Resident : n[id] > 0}
    BY <2>1, <2>2
  <2>5. \A id \in SeqIds : emitted[id] \in Nat
    BY <1>3 DEF IInv, TypeOK
  <2>6. emitted' = [id \in SeqIds |-> IF id \in Resident THEN emitted[id] + n[id] ELSE emitted[id]]
    BY <1>3, <2>2, <2>5 DEF Step
  <2> HIDE DEF n, finals
  <2> QED
    BY <2>1, <2>3, <2>4, <2>6
<1>4. ASSUME UNCHANGED vars PROVE UNCHANGED Worker!vars
  BY <1>4 DEF vars, Resident, Queued
<1>5. IInv /\ [Next]_vars => [Worker!Next]_Worker!vars
  BY <1>2, <1>3, <1>4 DEF Next
<1> QED
  BY <1>1, <1>5, SchedulerInvariant, PTL DEF Spec, KeepsWorkerProtocol, Worker!Spec

-------------------------------------------------------------------------------
(* Where everybody stands: the batch first, then the queue in its order, then   *)
(* those who are not here.                                                     *)
Ranked ==
    /\ Len(waiting) \in Nat /\ DOMAIN waiting = 1..Len(waiting)
    /\ \A id \in DOMAIN running : Position(id) = 0
    /\ \A i \in DOMAIN waiting : Position(waiting[i].id) = i
    /\ \A id : id \notin Resident => Position(id) = Len(waiting) + 1
    /\ \A id : Position(id) \in Nat

LEMMA Positions == ASSUME IInv PROVE Ranked
<1>1. Len(waiting) \in Nat /\ DOMAIN waiting = 1..Len(waiting)
  BY LenProperties DEF IInv, TypeOK
<1>2. \A id \in DOMAIN running : Position(id) = 0
  BY DEF Position
<1>3. ASSUME NEW i \in DOMAIN waiting PROVE Position(waiting[i].id) = i
  <2>1. waiting[i].id \in Queued /\ waiting[i].id \notin DOMAIN running
    BY DEF Queued, IInv, OnePlace
  <2>2. \A k \in DOMAIN waiting : waiting[k].id = waiting[i].id => k = i
    BY DEF IInv, OnePlace
  <2> QED
    BY <2>1, <2>2 DEF Position
<1>4. \A id : id \notin Resident => Position(id) = Len(waiting) + 1
  BY DEF Position, Resident
<1>5. \A id : id \in DOMAIN running \/ id \notin Resident \/ \E i \in DOMAIN waiting : id = waiting[i].id
  BY DEF Resident, Queued
<1>6. \A id : Position(id) \in Nat
  BY <1>1, <1>2, <1>3, <1>4, <1>5
<1> QED
  BY <1>1, <1>2, <1>3, <1>4, <1>6 DEF Ranked

(* First come, first served, for every queue: whoever stood behind a queued     *)
(* sequence, or comes later, never gets ahead of it.                           *)
THEOREM FirstComeFirstServed == Spec => NoOvertaking
<1>1. ASSUME IInv, Ranked, Ranked', Step, NEW x \in Queued, NEW y \in SeqIds, Position(y) > Position(x)
      PROVE  Position(y)' >= Position(x)'
  <2>1. PICK n : Admits(n)
    BY <1>1, StepAdmits
  <2>2. PICK i \in DOMAIN waiting : x = waiting[i].id
    BY DEF Queued
  <2>3. /\ Len(waiting) \in Nat /\ DOMAIN waiting = 1..Len(waiting) /\ n \in 0..Len(waiting)
        /\ Position(x) = i /\ Position(y)' \in Nat
    BY <1>1, <2>1, <2>2 DEF Ranked, Admits
  <2>4. CASE i <= n
    <3>1. x \in DOMAIN running'
      BY <2>1, <2>2, <2>3, <2>4 DEF Admits, Taken
    <3> QED
      BY <1>1, <2>3, <3>1 DEF Ranked
  <2>5. CASE i > n
    <3>1. /\ i - n \in DOMAIN waiting' /\ waiting'[i - n].id = x
          /\ DOMAIN waiting' = 1..(Len(waiting) - n) /\ Len(waiting') = Len(waiting) - n
      <4>1. i - n \in 1..(Len(waiting) - n) /\ n + (i - n) = i
        BY <2>3, <2>5
      <4> QED
        BY <2>1, <2>2, <4>1 DEF Admits
    <3>2. Position(x)' = i - n
      BY <1>1, <3>1 DEF Ranked
    <3>3. y \notin DOMAIN running
      BY <1>1, <2>3 DEF Ranked
    <3>4. CASE y \in Queued
      <4>1. PICK j \in DOMAIN waiting : y = waiting[j].id
        BY <3>4 DEF Queued
      <4>2. j > i
        BY <1>1, <2>3, <4>1 DEF Ranked
      <4>3. j - n \in 1..(Len(waiting) - n) /\ n + (j - n) = j
        BY <2>3, <2>5, <4>2
      <4>4. j - n \in DOMAIN waiting' /\ waiting'[j - n].id = y
        BY <2>1, <3>1, <4>1, <4>3 DEF Admits
      <4>5. Position(y)' = j - n
        BY <1>1, <4>4 DEF Ranked
      <4> QED
        BY <2>3, <3>2, <4>2, <4>5
    <3>5. CASE y \notin Queued
      <4>1. y \notin Resident /\ y \notin Resident'
        BY <1>1, <3>3, <3>5, StepResidents DEF Resident
      <4>2. Position(y)' = Len(waiting') + 1
        BY <1>1, <4>1 DEF Ranked
      <4> QED
        BY <2>3, <3>1, <3>2, <4>2
    <3> QED
      BY <3>4, <3>5
  <2> QED
    BY <2>3, <2>4, <2>5
<1>2. ASSUME IInv, Ranked, Ranked', FreshEnqueue, NEW x \in Queued, NEW y \in SeqIds, Position(y) > Position(x)
      PROVE  Position(y)' >= Position(x)'
  <2>1. PICK w \in SeqWork : w.id \notin Resident /\ Enqueue(w)
    BY <1>2 DEF FreshEnqueue
  <2>2. waiting \in Seq(SeqWork) /\ Len(waiting) \in Nat /\ DOMAIN waiting = 1..Len(waiting)
    BY <1>2 DEF Ranked, IInv, TypeOK
  <2>3. /\ Len(waiting') = Len(waiting) + 1
        /\ DOMAIN waiting' = 1..(Len(waiting) + 1)
        /\ \A i \in DOMAIN waiting : waiting'[i] = waiting[i]
        /\ waiting'[Len(waiting) + 1] = w
    BY <2>1, <2>2, AppendProperties DEF Enqueue
  <2>4. PICK i \in DOMAIN waiting : x = waiting[i].id
    BY DEF Queued
  <2>5. i \in DOMAIN waiting' /\ waiting'[i].id = x
    BY <2>2, <2>3, <2>4
  <2>6. Position(x) = i /\ Position(x)' = i /\ running' = running
    BY <1>2, <2>1, <2>4, <2>5 DEF Ranked, Enqueue
  <2>7. y \notin DOMAIN running
    BY <1>2, <2>2, <2>6 DEF Ranked
  <2>8. CASE y \in Queued
    <3>1. PICK j \in DOMAIN waiting : y = waiting[j].id
      BY <2>8 DEF Queued
    <3>2. j \in DOMAIN waiting' /\ waiting'[j].id = y
      BY <2>2, <2>3, <3>1
    <3>3. Position(y) = j /\ Position(y)' = j
      BY <1>2, <3>1, <3>2 DEF Ranked
    <3> QED
      BY <1>2, <2>2, <2>6, <3>3
  <2>9. CASE y \notin Queued /\ y = w.id
    <3>1. Len(waiting) + 1 \in DOMAIN waiting'
      BY <2>2, <2>3
    <3>2. Position(y)' = Len(waiting) + 1
      BY <1>2, <2>3, <2>9, <3>1 DEF Ranked
    <3> QED
      BY <2>2, <2>6, <3>2
  <2>10. CASE y \notin Queued /\ y # w.id
    <3>1. y \notin Resident'
      <4>1. \A j \in DOMAIN waiting' : waiting'[j].id # y
        <5> SUFFICES ASSUME NEW j \in DOMAIN waiting' PROVE waiting'[j].id # y
          OBVIOUS
        <5>1. j \in DOMAIN waiting \/ j = Len(waiting) + 1
          BY <2>2, <2>3
        <5> QED
          BY <2>3, <2>10, <5>1 DEF Queued
      <4> QED
        BY <2>6, <2>7, <4>1 DEF Resident, Queued
    <3>2. Position(y)' = Len(waiting') + 1
      BY <1>2, <3>1 DEF Ranked
    <3> QED
      BY <2>2, <2>3, <2>6, <3>2
  <2> QED
    BY <2>8, <2>9, <2>10
<1>3. ASSUME IInv, Ranked, Ranked', [Next]_vars
      PROVE  [\A x \in Queued, y \in SeqIds :
                 Position(y) > Position(x) => Position(y)' >= Position(x)']_vars
  BY <1>1, <1>2, <1>3 DEF Next
<1>4. IInv => Ranked
  BY Positions
<1> QED
  BY <1>3, <1>4, SchedulerInvariant, PTL DEF Spec, NoOvertaking

(* Continuous batching wastes no slot, whatever the batch size: a sequence      *)
(* waits after a step only if the batch is full.                               *)
LEMMA AdmitsFillsUp ==
    ASSUME IInv, Policy = "continuous", NEW n, Admits(n)
    PROVE  waiting' = <<>> \/ Cardinality(DOMAIN running') = MaxBatch
<1>1. n \in FillCounts(Left, waiting)
  BY DEF Admits, AdmitCounts
<1>2. Cardinality(Taken(Left, waiting, n)) \in Nat /\ MaxBatch \in Nat
  BY FS_CardinalityType, SchedulerAssumption DEF Admits
<1>3. CASE n = Len(waiting)
  <2>1. waiting' \in Seq(SeqWork) /\ Len(waiting') = 0
    BY <1>3, LenProperties DEF Admits, IInv, TypeOK
  <2> QED
    BY <2>1, EmptySeq
<1>4. CASE Cardinality(Taken(Left, waiting, n)) >= MaxBatch
  BY <1>2, <1>4 DEF Admits
<1> QED
  BY <1>1, <1>3, <1>4 DEF FillCounts

(* So no step of the specification leaves a free slot and somebody waiting.     *)
THEOREM ContinuousFillsTheBatch ==
    ASSUME Policy = "continuous"
    PROVE  Spec => NoIdleSlotAfterStep
<1>1. ASSUME IInv, Step
      PROVE  waiting' = <<>> \/ Cardinality(DOMAIN running') = MaxBatch
  BY <1>1, StepAdmits, AdmitsFillsUp
<1> QED
  BY <1>1, SchedulerInvariant, PTL DEF Spec, NoIdleSlotAfterStep

(* A step in one piece, for a module that drives several schedulers: `stay' is  *)
(* who has tokens left and keeps a slot, n is how many are admitted.            *)
Effect(stay, n) ==
    /\ stay \subseteq DOMAIN running /\ n \in 0..Len(waiting)
    /\ DOMAIN running' = stay \cup {waiting[i].id : i \in 1..n}
    /\ \A id \in stay :
         /\ running'[id].prefill =
                IF running[id].prefill > 0 THEN running[id].prefill - 1 ELSE 0
         /\ running'[id].decode =
                IF running[id].prefill > 0 THEN running[id].decode ELSE running[id].decode - 1
    /\ \A id \in DOMAIN running \ stay : running[id].prefill = 0 /\ running[id].decode = 1
    /\ \A i \in 1..n : running'[waiting[i].id] =
           [prefill |-> waiting[i].prefill, decode |-> waiting[i].decode]
    /\ DOMAIN waiting' = 1..(Len(waiting) - n)
    /\ \A i \in 1..(Len(waiting) - n) : waiting'[i] = waiting[n + i]
    /\ Policy = "static" /\ n > 0 => stay = {}
    /\ Policy = "continuous" => waiting' = <<>> \/ Cardinality(DOMAIN running') = MaxBatch

LEMMA StepEffect ==
    ASSUME IInv, Step
    PROVE  \E stay, n : Effect(stay, n)
<1>1. PICK n : Admits(n)
  BY StepAdmits
<1>2. running \in Batches /\ running \in [DOMAIN running -> Slot]
  BY BatchIsFunction DEF IInv, TypeOK
<1>3. /\ DOMAIN Left \in SUBSET DOMAIN running
      /\ \A id \in DOMAIN Left : Left[id] = AdvanceSlot(running[id])
      /\ DOMAIN Left = {id \in DOMAIN running : ~ (/\ AdvanceSlot(running[id]).prefill = 0
                                                  /\ AdvanceSlot(running[id]).decode = 0)}
  <2>1. Advance(running) = [id \in DOMAIN running |-> AdvanceSlot(running[id])]
    BY DEF Advance
  <2> QED
    BY <1>2, <2>1, LeftProperties DEF Left, Evict, Finished
<1>4. \A id \in DOMAIN running :
        /\ AdvanceSlot(running[id]).prefill =
               IF running[id].prefill > 0 THEN running[id].prefill - 1 ELSE 0
        /\ AdvanceSlot(running[id]).decode =
               IF running[id].prefill > 0 THEN running[id].decode ELSE running[id].decode - 1
  <2> SUFFICES ASSUME NEW id \in DOMAIN running
               PROVE  /\ AdvanceSlot(running[id]).prefill =
                             IF running[id].prefill > 0 THEN running[id].prefill - 1 ELSE 0
                      /\ AdvanceSlot(running[id]).decode =
                             IF running[id].prefill > 0 THEN running[id].decode
                             ELSE running[id].decode - 1
    OBVIOUS
  <2>1. PICK s \in Slot : s = running[id] /\ s.decode > 0
    BY <1>2 DEF IInv, Unfinished
  <2>2. /\ AdvanceSlot(s).prefill = IF s.prefill > 0 THEN s.prefill - 1 ELSE 0
        /\ AdvanceSlot(s).decode = IF s.prefill > 0 THEN s.decode ELSE s.decode - 1
    BY ONLY <2>1, SchedulerAssumption DEF Slot, AdvanceSlot
  <2> QED
    BY <2>1, <2>2
<1>5. \A id \in DOMAIN running \ DOMAIN Left : running[id].prefill = 0 /\ running[id].decode = 1
  <2> SUFFICES ASSUME NEW id \in DOMAIN running \ DOMAIN Left
               PROVE  running[id].prefill = 0 /\ running[id].decode = 1
    OBVIOUS
  <2>1. PICK s \in Slot : s = running[id] /\ s.decode > 0
    BY <1>2 DEF IInv, Unfinished
  <2>2. /\ 0 = IF s.prefill > 0 THEN s.prefill - 1 ELSE 0
        /\ 0 = IF s.prefill > 0 THEN s.decode ELSE s.decode - 1
    BY <1>3, <1>4, <2>1
  <2>3. s.prefill = 0 /\ s.decode = 1
    BY ONLY <2>1, <2>2, SchedulerAssumption DEF Slot
  <2> QED
    BY <2>1, <2>3
<1>6. DOMAIN running' = DOMAIN Left \cup {waiting[i].id : i \in 1..n}
  BY <1>1 DEF Admits, Taken
<1>7. \A id \in DOMAIN Left :
        /\ running'[id].prefill =
               IF running[id].prefill > 0 THEN running[id].prefill - 1 ELSE 0
        /\ running'[id].decode =
               IF running[id].prefill > 0 THEN running[id].decode ELSE running[id].decode - 1
  <2>1. \A id \in DOMAIN Left : running'[id] = AdvanceSlot(running[id]) /\ id \in DOMAIN running
    BY <1>1, <1>3 DEF Admits
  <2> QED
    BY <1>4, <2>1
<1>8. Policy = "static" /\ n > 0 => DOMAIN Left = {}
  <2>1. n \in AdmitCounts(Left, waiting)
    BY <1>1 DEF Admits
  <2>2. Policy = "static" /\ DOMAIN Left # {} => n = 0
    BY ONLY <2>1 DEF AdmitCounts
  <2> QED
    BY ONLY <2>2
<1>9. Policy = "continuous" => waiting' = <<>> \/ Cardinality(DOMAIN running') = MaxBatch
  BY <1>1, AdmitsFillsUp
<1> QED
  BY <1>1, <1>3, <1>5, <1>6, <1>7, <1>8, <1>9 DEF Effect, Admits

(* Static batching keeps one batch together: newcomers find nobody of the batch *)
(* before them.                                                                *)
THEOREM StaticKeepsBatchesApart ==
    ASSUME Policy = "static"
    PROVE  Spec => BatchesDoNotOverlap
<1>1. ASSUME IInv, Step, DOMAIN running' \ DOMAIN running # {}
      PROVE  DOMAIN running' \cap DOMAIN running = {}
  <2>1. PICK n : Admits(n)
    BY <1>1, StepAdmits
  <2>2. DOMAIN running' = DOMAIN Left \cup {waiting[i].id : i \in 1..n}
    BY <2>1 DEF Admits, Taken
  <2>3. DOMAIN Left \subseteq DOMAIN running
    BY LeftProperties, <1>1 DEF Left, IInv, TypeOK
  <2>4. n # 0
    <3>1. 1..0 = {}
      OBVIOUS
    <3> QED
      BY <1>1, <2>2, <2>3, <3>1
  <2>5. DOMAIN Left = {}
    BY <2>1, <2>4 DEF Admits, AdmitCounts
  <2>6. 1..n \subseteq DOMAIN waiting
    BY <1>1, <2>1, Positions DEF Admits, Ranked
  <2>7. \A i \in DOMAIN waiting : waiting[i].id \notin DOMAIN running
    BY <1>1 DEF IInv, OnePlace, Queued
  <2> QED
    BY <2>2, <2>5, <2>6, <2>7
<1>2. IInv /\ [Next]_vars =>
        [DOMAIN running' \ DOMAIN running # {} => DOMAIN running' \cap DOMAIN running = {}]_vars
  BY <1>1 DEF Next, FreshEnqueue, Enqueue
<1> QED
  BY <1>2, SchedulerInvariant, PTL DEF Spec, BatchesDoNotOverlap
===============================================================================
