----------------------------- MODULE BenchProofs ------------------------------
(***************************************************************************)
(* Theorems about StaticVsContinuous, for every workload, every batch size *)
(* and every length of the run.                                            *)
(*                                                                         *)
(* That continuous batching is never behind is not true by itself: it      *)
(* needs that both queues are in order of arrival.  A static batch admits  *)
(* only when it is empty; whoever stood before a newcomer in the static    *)
(* queue is then in the new batch too, so that a sequence left waiting by  *)
(* a full continuous batch would make the static one too large.            *)
(***************************************************************************)
EXTENDS StaticVsContinuous, FiniteSetTheorems, SequenceTheorems, WellFoundedInduction, TLAPS

CP == INSTANCE SchedulerProofs
    WITH SeqIds <- Ids, Policy <- "continuous", waiting <- cWaiting, running <- cRunning,
         owed <- cOwed, emitted <- cEmitted

SP == INSTANCE SchedulerProofs
    WITH SeqIds <- Ids, Policy <- "static", waiting <- sWaiting, running <- sRunning,
         owed <- sOwed, emitted <- sEmitted

-------------------------------------------------------------------------------
(* The two schedulers are those the theorems of SchedulerProofs are about.    *)
LEMMA Sizes == CP!SchedulerAssumption /\ SP!SchedulerAssumption
  BY BenchAssumption DEF CP!SchedulerAssumption, SP!SchedulerAssumption

LEMMA SameContinuous ==
    /\ Continuous!Step <=> CP!Step
    /\ \A w : Continuous!Enqueue(w) <=> CP!Enqueue(w)
    /\ Continuous!TypeOK <=> CP!TypeOK
    /\ Continuous!Init <=> CP!Init
    /\ Continuous!Resident = CP!Resident
    /\ \A S : CP!IsFiniteSet(S) <=> IsFiniteSet(S)
    /\ \A S : CP!Cardinality(S) = Cardinality(S)
<1>1. Continuous!Step <=> CP!Step
  BY DEF Continuous!Step, Continuous!Evict, Continuous!Advance, Continuous!AdvanceSlot,
         Continuous!Finished, Continuous!AdmitCounts, Continuous!FillCounts, Continuous!Taken,
         Continuous!Fill, Continuous!Tokens, Continuous!Cardinality,
         CP!Step, CP!Evict, CP!Advance, CP!AdvanceSlot, CP!Finished, CP!AdmitCounts,
         CP!FillCounts, CP!Taken, CP!Fill, CP!Tokens, CP!Cardinality
<1>2. Continuous!Resident = CP!Resident /\ \A w : Continuous!Enqueue(w) <=> CP!Enqueue(w)
  BY DEF Continuous!Enqueue, Continuous!Resident, Continuous!Queued,
         CP!Enqueue, CP!Resident, CP!Queued
<1>3. (Continuous!TypeOK <=> CP!TypeOK) /\ (Continuous!Init <=> CP!Init)
  BY DEF Continuous!TypeOK, Continuous!SeqWork, Continuous!Batches, Continuous!Slot,
         Continuous!Init, CP!TypeOK, CP!SeqWork, CP!Batches, CP!Slot, CP!Init
<1>4. \A S : CP!IsFiniteSet(S) <=> IsFiniteSet(S)
  BY DEF CP!IsFiniteSet, IsFiniteSet
<1>5. \A S : CP!Cardinality(S) = Cardinality(S)
  BY DEF CP!Cardinality, Cardinality
<1> QED
  BY <1>1, <1>2, <1>3, <1>4, <1>5

LEMMA SameStatic ==
    /\ Static!Step <=> SP!Step
    /\ \A w : Static!Enqueue(w) <=> SP!Enqueue(w)
    /\ Static!TypeOK <=> SP!TypeOK
    /\ Static!Init <=> SP!Init
    /\ Static!Resident = SP!Resident
    /\ \A S : SP!IsFiniteSet(S) <=> IsFiniteSet(S)
    /\ \A S : SP!Cardinality(S) = Cardinality(S)
<1>1. Static!Step <=> SP!Step
  BY DEF Static!Step, Static!Evict, Static!Advance, Static!AdvanceSlot, Static!Finished,
         Static!AdmitCounts, Static!FillCounts, Static!Taken, Static!Fill, Static!Tokens,
         Static!Cardinality,
         SP!Step, SP!Evict, SP!Advance, SP!AdvanceSlot, SP!Finished, SP!AdmitCounts,
         SP!FillCounts, SP!Taken, SP!Fill, SP!Tokens, SP!Cardinality
<1>2. Static!Resident = SP!Resident /\ \A w : Static!Enqueue(w) <=> SP!Enqueue(w)
  BY DEF Static!Enqueue, Static!Resident, Static!Queued, SP!Enqueue, SP!Resident, SP!Queued
<1>3. (Static!TypeOK <=> SP!TypeOK) /\ (Static!Init <=> SP!Init)
  BY DEF Static!TypeOK, Static!SeqWork, Static!Batches, Static!Slot, Static!Init,
         SP!TypeOK, SP!SeqWork, SP!Batches, SP!Slot, SP!Init
<1>4. \A S : SP!IsFiniteSet(S) <=> IsFiniteSet(S)
  BY DEF SP!IsFiniteSet, IsFiniteSet
<1>5. \A S : SP!Cardinality(S) = Cardinality(S)
  BY DEF SP!Cardinality, Cardinality
<1> QED
  BY <1>1, <1>2, <1>3, <1>4, <1>5

-------------------------------------------------------------------------------
(* What is true of one scheduler, with queue q and batch r.                   *)
QIds(q) == {q[i].id : i \in DOMAIN q}

Shaped(q, r) ==
    /\ Len(q) \in Nat /\ DOMAIN q = 1..Len(q)
    /\ \A i \in DOMAIN q : q[i].id \in Ids
    /\ DOMAIN r \subseteq Ids
    /\ \A id \in DOMAIN r : r[id].prefill \in Nat /\ r[id].decode \in Nat \ {0}

(* Everybody in order of arrival, the batch before the queue.                  *)
Ordered(q, r) ==
    /\ \A i, j \in DOMAIN q : i < j => q[i].id < q[j].id
    /\ \A id \in DOMAIN r, i \in DOMAIN q : id < q[i].id

(* The work is what the workload says, and a slot has no more left than that.  *)
Own(q, r) ==
    /\ \A i \in DOMAIN q : q[i] = Work(q[i].id)
    /\ \A id \in DOMAIN r : /\ r[id].prefill <= arrivals[id].prefill
                            /\ r[id].decode <= arrivals[id].decode

(* SchedulerProofs' Effect, with the queue p and the batch s there are then.   *)
Moves(q, r, p, s, stay, n) ==
    /\ stay \subseteq DOMAIN r /\ n \in 0..Len(q)
    /\ DOMAIN s = stay \cup {q[i].id : i \in 1..n}
    /\ \A id \in stay :
         /\ s[id].prefill = IF r[id].prefill > 0 THEN r[id].prefill - 1 ELSE 0
         /\ s[id].decode = IF r[id].prefill > 0 THEN r[id].decode ELSE r[id].decode - 1
    /\ \A id \in DOMAIN r \ stay : r[id].prefill = 0 /\ r[id].decode = 1
    /\ \A i \in 1..n : s[q[i].id] = [prefill |-> q[i].prefill, decode |-> q[i].decode]
    /\ DOMAIN p = 1..(Len(q) - n)
    /\ \A i \in 1..(Len(q) - n) : p[i] = q[n + i]

(* One side ahead of another: nobody waits there who does not wait here, and   *)
(* whoever is in the batch has no more left than here.                        *)
Ahead(qc, rc, qs, rs) ==
    /\ QIds(qc) \subseteq QIds(qs)
    /\ \A id \in DOMAIN rc :
         \/ id \in QIds(qs)
         \/ /\ id \in DOMAIN rs
            /\ rc[id].prefill <= rs[id].prefill
            /\ rc[id].decode <= rs[id].decode

(* Who was handed to the schedulers so far.                                   *)
Handed == {i \in Ids : arrivals[i].step < stepIndex \/ i \in admitted}

IInv ==
    /\ arrivals \in Workloads /\ at \in {"loop", "step"} /\ stepIndex \in Nat
    /\ admitted \in SUBSET Ids
    /\ CP!IInv /\ SP!IInv
    /\ Ordered(cWaiting, cRunning) /\ Own(cWaiting, cRunning)
    /\ Ordered(sWaiting, sRunning) /\ Own(sWaiting, sRunning)
    /\ Ahead(cWaiting, cRunning, sWaiting, sRunning)
    /\ QIds(cWaiting) \cup DOMAIN cRunning \cup QIds(sWaiting) \cup DOMAIN sRunning \subseteq Handed
    /\ cOwed = sOwed
    /\ \A i \in Handed : arrivals[i].step > 0 => cOwed[i] = arrivals[i].decode
    /\ \A i \in admitted : arrivals[i].step = stepIndex
    /\ \A i \in admitted, j \in Due : i < j
    /\ at = "loop" /\ stepIndex > 0 => Due = {}

-------------------------------------------------------------------------------
(* A step keeps one scheduler in order, its work as it was asked for, and       *)
(* brings nobody in from elsewhere.                                            *)
LEMMA SideKept ==
    ASSUME NEW q, NEW r, NEW p, NEW s, NEW stay, NEW n,
           Shaped(q, r), Shaped(p, s), Moves(q, r, p, s, stay, n), Ordered(q, r), Own(q, r),
           arrivals \in Workloads
    PROVE  /\ Ordered(p, s) /\ Own(p, s)
           /\ QIds(p) \cup DOMAIN s \subseteq QIds(q) \cup DOMAIN r
<1>1. PICK l \in Nat : l = Len(q) /\ DOMAIN q = 1..l /\ n \in 0..l
  BY DEF Shaped, Moves
<1>2. /\ \A i \in 1..n : i \in DOMAIN q
      /\ DOMAIN p = 1..(l - n)
      /\ \A i \in DOMAIN p : p[i] = q[n + i] /\ n + i \in DOMAIN q
  BY <1>1 DEF Moves
<1>3. /\ \A i \in DOMAIN q : q[i].id \in Nat
      /\ \A id \in DOMAIN r \cup DOMAIN s : id \in Nat
  BY DEF Shaped, Ids
<1>4. \A id \in DOMAIN s : id \in stay \/ \E i \in 1..n : id = q[i].id
  BY DEF Moves
<1>5. Ordered(p, s)
  <2>1. ASSUME NEW i \in DOMAIN p, NEW j \in DOMAIN p, i < j PROVE p[i].id < p[j].id
    <3>1. n + i < n + j
      BY <1>1, <1>2, <2>1
    <3> QED
      BY <1>2, <3>1 DEF Ordered
  <2>2. ASSUME NEW id \in DOMAIN s, NEW i \in DOMAIN p PROVE id < p[i].id
    <3>1. CASE id \in stay
      BY <1>2, <3>1 DEF Moves, Ordered
    <3>2. CASE \E k \in 1..n : id = q[k].id
      <4>1. PICK k \in 1..n : id = q[k].id
        BY <3>2
      <4>2. k < n + i
        BY <1>1, <1>2
      <4> QED
        BY <1>2, <4>1, <4>2 DEF Ordered
    <3> QED
      BY <1>4, <3>1, <3>2
  <2> QED
    BY <2>1, <2>2 DEF Ordered
<1>6. Own(p, s)
  <2>1. \A i \in DOMAIN p : p[i] = Work(p[i].id)
    BY <1>2 DEF Own
  <2>2. ASSUME NEW id \in DOMAIN s
        PROVE  s[id].prefill <= arrivals[id].prefill /\ s[id].decode <= arrivals[id].decode
    <3>0. PICK a \in Nat, b \in Nat : a = arrivals[id].prefill /\ b = arrivals[id].decode
      BY BenchAssumption DEF Shaped, Workloads
    <3>1. CASE id \in stay
      <4>1. /\ r[id].prefill \in Nat /\ r[id].decode \in Nat
            /\ r[id].prefill <= a /\ r[id].decode <= b
            /\ s[id].prefill = IF r[id].prefill > 0 THEN r[id].prefill - 1 ELSE 0
            /\ s[id].decode = IF r[id].prefill > 0 THEN r[id].decode ELSE r[id].decode - 1
        BY <3>0, <3>1 DEF Moves, Shaped, Own
      <4> QED
        BY ONLY <3>0, <4>1
    <3>2. CASE \E k \in 1..n : id = q[k].id
      <4>1. PICK k \in 1..n : id = q[k].id
        BY <3>2
      <4>2. q[k] = Work(id) /\ s[id] = [prefill |-> q[k].prefill, decode |-> q[k].decode]
        BY <1>2, <4>1 DEF Own, Moves
      <4>3. s[id].prefill = a /\ s[id].decode = b
        BY <3>0, <4>2 DEF Work
      <4> QED
        BY <3>0, <4>3
    <3> QED
      BY <1>4, <3>1, <3>2
  <2> QED
    BY <2>1, <2>2 DEF Own
<1>7. \A id \in QIds(p) \cup DOMAIN s : id \in QIds(q) \cup DOMAIN r
  BY <1>2, <1>4 DEF QIds, Moves
<1> QED
  BY <1>5, <1>6, <1>7

(* A full batch that leaves somebody behind is all of the batch that stood in   *)
(* the way of taking him in here: the step of both sides keeps one ahead.       *)
Fills(p, s) ==
    /\ IsFiniteSet(DOMAIN s)
    /\ p = <<>> \/ Cardinality(DOMAIN s) = MaxBatch

Drains(s, stay, n) ==
    /\ IsFiniteSet(DOMAIN s) /\ Cardinality(DOMAIN s) <= MaxBatch
    /\ n > 0 => stay = {}

LEMMA AheadKept ==
    ASSUME NEW qc, NEW rc, NEW pc, NEW sc, NEW stayC, NEW n,
           NEW qs, NEW rs, NEW ps, NEW ss, NEW stayS, NEW m,
           Shaped(qc, rc), Shaped(pc, sc), Moves(qc, rc, pc, sc, stayC, n),
           Shaped(qs, rs), Shaped(ps, ss), Moves(qs, rs, ps, ss, stayS, m),
           Ordered(qc, rc), Own(qc, rc), Ordered(qs, rs), Own(qs, rs), Ordered(pc, sc),
           Fills(pc, sc), Drains(ss, stayS, m), Ahead(qc, rc, qs, rs),
           arrivals \in Workloads
    PROVE  Ahead(pc, sc, ps, ss)
<1>1. PICK l \in Nat : l = Len(qc) /\ DOMAIN qc = 1..l /\ n \in 0..l
  BY DEF Shaped, Moves
<1>2. PICK k \in Nat : k = Len(qs) /\ DOMAIN qs = 1..k /\ m \in 0..k
  BY DEF Shaped, Moves
<1>3. /\ \A i \in 1..n : i \in DOMAIN qc
      /\ \A i \in DOMAIN pc : pc[i] = qc[n + i] /\ n + i \in DOMAIN qc
      /\ \A i \in DOMAIN pc : i \in Nat \ {0}
  BY <1>1 DEF Moves
<1>4. /\ \A i \in 1..m : i \in DOMAIN qs /\ qs[i].id \in DOMAIN ss
      /\ \A i \in DOMAIN qs : i <= m \/ qs[i].id \in QIds(ps)
  <2>1. \A i \in 1..m : i \in DOMAIN qs /\ qs[i].id \in DOMAIN ss
    BY <1>2 DEF Moves
  <2>2. ASSUME NEW i \in DOMAIN qs, ~ (i <= m) PROVE qs[i].id \in QIds(ps)
    <3>1. i - m \in 1..(k - m) /\ m + (i - m) = i
      BY <1>2, <2>2
    <3>2. i - m \in DOMAIN ps /\ ps[i - m] = qs[i]
      BY <1>2, <3>1 DEF Moves
    <3> QED
      BY <3>2 DEF QIds
  <2> QED
    BY <2>1, <2>2
<1>5. \A x \in QIds(qc) \cup QIds(qs) \cup DOMAIN sc : x \in Nat
  BY DEF QIds, Shaped, Ids
<1>6. ASSUME NEW y \in stayC, y \in DOMAIN rs, rc[y].prefill <= rs[y].prefill,
             rc[y].decode <= rs[y].decode
      PROVE  /\ y \in stayS /\ y \in DOMAIN ss
             /\ sc[y].prefill <= ss[y].prefill /\ sc[y].decode <= ss[y].decode
  <2>1. /\ rc[y].prefill \in Nat /\ rc[y].decode \in Nat \ {0}
        /\ rs[y].prefill \in Nat /\ rs[y].decode \in Nat \ {0}
        /\ sc[y].decode \in Nat \ {0}
        /\ sc[y].prefill = IF rc[y].prefill > 0 THEN rc[y].prefill - 1 ELSE 0
        /\ sc[y].decode = IF rc[y].prefill > 0 THEN rc[y].decode ELSE rc[y].decode - 1
    BY <1>6 DEF Shaped, Moves
  <2>2. y \in stayS
    <3> SUFFICES ASSUME y \notin stayS PROVE FALSE
      OBVIOUS
    <3>1. rs[y].prefill = 0 /\ rs[y].decode = 1
      BY <1>6 DEF Moves
    <3> QED
      BY ONLY <1>6, <2>1, <3>1
  <2>3. /\ y \in DOMAIN ss
        /\ ss[y].prefill = IF rs[y].prefill > 0 THEN rs[y].prefill - 1 ELSE 0
        /\ ss[y].decode = IF rs[y].prefill > 0 THEN rs[y].decode ELSE rs[y].decode - 1
    BY <2>2 DEF Moves
  <2>4. sc[y].prefill <= ss[y].prefill /\ sc[y].decode <= ss[y].decode
    BY ONLY <1>6, <2>1, <2>3
  <2> QED
    BY <2>2, <2>3, <2>4
(* Nobody is left waiting here whom the other side takes in.                    *)
<1>7. ASSUME NEW i \in DOMAIN pc PROVE pc[i].id \in QIds(ps)
  <2>1. pc[i] = qc[n + i] /\ n + i \in DOMAIN qc /\ pc[i].id \in QIds(qc)
    BY <1>3 DEF QIds
  <2>2. PICK j \in DOMAIN qs : qs[j].id = pc[i].id
    BY <2>1 DEF Ahead, QIds
  <2>3. SUFFICES ASSUME j <= m PROVE FALSE
    BY <1>4, <2>2
  <2>4. stayS = {} /\ pc[i].id \in DOMAIN ss
    BY <1>2, <1>4, <2>2, <2>3 DEF Drains
  <2>5. \A y \in DOMAIN sc : y < pc[i].id
    BY DEF Ordered
  <2>6. ASSUME NEW y \in DOMAIN sc PROVE y \in DOMAIN ss
    <3>1. y \in QIds(qs)
      <4>1. CASE y \in stayC
        <5>1. y \in DOMAIN rc
          BY <4>1 DEF Moves
        <5> QED
          BY <1>6, <2>4, <4>1, <5>1 DEF Ahead
      <4>2. CASE \E h \in 1..n : y = qc[h].id
        BY <1>3, <4>2 DEF Ahead, QIds
      <4> QED
        BY <4>1, <4>2 DEF Moves
    <3>2. PICK h \in DOMAIN qs : qs[h].id = y
      BY <3>1 DEF QIds
    <3>3. ~ (j < h)
      <4>1. \A g \in DOMAIN qs : qs[g].id \in Nat
        BY <1>5 DEF QIds
      <4>2. qs[h].id < qs[j].id
        BY <2>2, <2>5, <3>2
      <4> QED
        BY <4>1, <4>2 DEF Ordered
    <3>4. h \in 1..m
      BY <1>2, <2>3, <3>3
    <3> QED
      BY <1>4, <3>2, <3>4
  <2>7. pc[i].id \notin DOMAIN sc
    <3>1. pc[i].id \in Nat
      BY <1>5, <2>1
    <3> QED
      BY <2>5, <3>1
  <2>8. IsFiniteSet(DOMAIN sc) /\ Cardinality(DOMAIN sc) = MaxBatch
    <3>1. pc # <<>>
      OBVIOUS
    <3> QED
      BY <3>1 DEF Fills
  <2>9. Cardinality(DOMAIN sc \cup {pc[i].id}) = MaxBatch + 1
    BY <2>7, <2>8, FS_AddElement
  <2>10. DOMAIN sc \cup {pc[i].id} \subseteq DOMAIN ss
    BY <2>4, <2>6
  <2>11. /\ Cardinality(DOMAIN sc \cup {pc[i].id}) <= Cardinality(DOMAIN ss)
         /\ Cardinality(DOMAIN ss) <= MaxBatch /\ Cardinality(DOMAIN ss) \in Nat
    BY <2>10, FS_Subset, FS_CardinalityType DEF Drains
  <2> QED
    BY <2>9, <2>11, BenchAssumption
(* And whoever is taken in here has as much left as there, or less.             *)
<1>8. ASSUME NEW y \in DOMAIN sc
      PROVE  \/ y \in QIds(ps)
             \/ /\ y \in DOMAIN ss
                /\ sc[y].prefill <= ss[y].prefill
                /\ sc[y].decode <= ss[y].decode
  <2>1. PICK a \in Nat, b \in Nat : a = arrivals[y].prefill /\ b = arrivals[y].decode
    BY BenchAssumption DEF Shaped, Workloads
  <2>2. sc[y].prefill <= a /\ sc[y].decode <= b /\ sc[y].prefill \in Nat /\ sc[y].decode \in Nat
    <3>1. Own(pc, sc)
      BY SideKept
    <3> QED
      BY <2>1, <3>1 DEF Own, Shaped
  <2>3. CASE y \in QIds(qs)
    <3>1. PICK j \in DOMAIN qs : qs[j].id = y
      BY <2>3 DEF QIds
    <3>2. CASE j <= m
      <4>1. j \in 1..m
        BY <1>2, <3>2
      <4>2. y \in DOMAIN ss /\ ss[y] = [prefill |-> qs[j].prefill, decode |-> qs[j].decode]
        BY <1>4, <3>1, <4>1 DEF Moves
      <4>3. ss[y].prefill = a /\ ss[y].decode = b
        BY <2>1, <3>1, <4>2 DEF Own, Work
      <4> QED
        BY <2>2, <4>2, <4>3
    <3> QED
      BY <1>4, <3>1, <3>2
  <2>4. CASE y \notin QIds(qs)
    <3>1. ~ \E h \in 1..n : y = qc[h].id
      BY <1>3, <2>4 DEF Ahead, QIds
    <3>2. y \in stayC /\ y \in DOMAIN rc
      BY <3>1 DEF Moves
    <3> QED
      BY <1>6, <2>4, <3>2 DEF Ahead
  <2> QED
    BY <2>3, <2>4
<1> QED
  BY <1>7, <1>8 DEF Ahead, QIds

(* One more at the end of a queue.                                            *)
LEMMA QueueGrows ==
    ASSUME NEW T, NEW q \in Seq(T), NEW r, NEW i \in Ids, Work(i) \in T,
           Shaped(q, r), Ordered(q, r), Own(q, r),
           \A j \in QIds(q) \cup DOMAIN r : j < i
    PROVE  /\ Ordered(Append(q, Work(i)), r) /\ Own(Append(q, Work(i)), r)
           /\ QIds(Append(q, Work(i))) = QIds(q) \cup {i}
<1> DEFINE p == Append(q, Work(i))
<1>1. PICK l \in Nat : l = Len(q) /\ DOMAIN q = 1..l
  BY DEF Shaped
<1>2. /\ DOMAIN p = 1..(l + 1) /\ p[l + 1] = Work(i)
      /\ \A j \in 1..l : p[j] = q[j]
  BY <1>1, AppendProperties
<1>3. Work(i).id = i
  BY DEF Work
<1> HIDE DEF p
<1>4. \A j \in DOMAIN p : j \in DOMAIN q \/ j = l + 1
  BY <1>1, <1>2
<1>5. \A j \in DOMAIN q : j \in DOMAIN p /\ p[j] = q[j] /\ j \in Nat /\ j < l + 1 /\ q[j].id < i
  BY <1>1, <1>2 DEF QIds
<1>6. Ordered(p, r)
  <2>1. ASSUME NEW j \in DOMAIN p, NEW k \in DOMAIN p, j < k PROVE p[j].id < p[k].id
    <3>1. j \in DOMAIN q
      BY <1>2, <1>4, <2>1
    <3>2. CASE k \in DOMAIN q
      BY <1>5, <2>1, <3>1, <3>2 DEF Ordered
    <3>3. CASE k = l + 1
      BY <1>2, <1>3, <1>5, <3>1, <3>3
    <3> QED
      BY <1>4, <3>2, <3>3
  <2>2. ASSUME NEW id \in DOMAIN r, NEW j \in DOMAIN p PROVE id < p[j].id
    BY <1>2, <1>3, <1>4, <1>5 DEF Ordered
  <2> QED
    BY <2>1, <2>2 DEF Ordered
<1>7. Own(p, r)
  BY <1>2, <1>3, <1>4, <1>5 DEF Own
<1>8. QIds(p) = QIds(q) \cup {i}
  <2>1. l + 1 \in DOMAIN p
    BY <1>2
  <2> QED
    BY <1>2, <1>3, <1>4, <1>5, <2>1 DEF QIds
<1> QED
  BY <1>6, <1>7, <1>8 DEF p

-------------------------------------------------------------------------------
(* The two schedulers, in these terms.                                         *)
LEMMA Shapes ==
    /\ CP!IInv => /\ Shaped(cWaiting, cRunning) /\ cWaiting \in Seq(CP!SeqWork)
                  /\ IsFiniteSet(DOMAIN cRunning) /\ Cardinality(DOMAIN cRunning) <= MaxBatch
                  /\ CP!Resident = QIds(cWaiting) \cup DOMAIN cRunning
    /\ SP!IInv => /\ Shaped(sWaiting, sRunning) /\ sWaiting \in Seq(SP!SeqWork)
                  /\ IsFiniteSet(DOMAIN sRunning) /\ Cardinality(DOMAIN sRunning) <= MaxBatch
                  /\ SP!Resident = QIds(sWaiting) \cup DOMAIN sRunning
<1>1. ASSUME NEW q \in Seq(CP!SeqWork), NEW S \in SUBSET Ids, NEW r \in [S -> CP!Slot],
             \A id \in DOMAIN r : r[id].decode > 0
      PROVE  Shaped(q, r)
  <2>1. Len(q) \in Nat /\ DOMAIN q = 1..Len(q) /\ \A i \in DOMAIN q : q[i] \in CP!SeqWork
    BY LenProperties, ElementOfSeq
  <2>2. \A i \in DOMAIN q : q[i].id \in Ids
    BY <2>1 DEF CP!SeqWork
  <2>3. \A id \in S : r[id].prefill \in Nat /\ r[id].decode \in Nat \ {0}
    <3>1. \A id \in S : r[id] \in CP!Slot /\ r[id].decode > 0
      BY <1>1
    <3> QED
      BY <3>1, BenchAssumption DEF CP!Slot
  <2> QED
    BY <2>1, <2>2, <2>3 DEF Shaped
<1>2. SP!SeqWork = CP!SeqWork /\ SP!Slot = CP!Slot
  BY DEF SP!SeqWork, CP!SeqWork, SP!Slot, CP!Slot
<1>3. ASSUME CP!IInv
      PROVE  /\ Shaped(cWaiting, cRunning) /\ cWaiting \in Seq(CP!SeqWork)
             /\ IsFiniteSet(DOMAIN cRunning) /\ Cardinality(DOMAIN cRunning) <= MaxBatch
             /\ CP!Resident = QIds(cWaiting) \cup DOMAIN cRunning
  <2>1. cWaiting \in Seq(CP!SeqWork) /\ \A id \in DOMAIN cRunning : cRunning[id].decode > 0
    BY <1>3 DEF CP!IInv, CP!TypeOK, CP!Unfinished
  <2>2. DOMAIN cRunning \in SUBSET Ids /\ cRunning \in [DOMAIN cRunning -> CP!Slot]
    BY <1>3, Sizes, CP!BatchIsFunction DEF CP!IInv, CP!TypeOK
  <2>3. IsFiniteSet(DOMAIN cRunning) /\ Cardinality(DOMAIN cRunning) <= MaxBatch
    BY <1>3, SameContinuous DEF CP!IInv, CP!BatchBounded
  <2> QED
    BY <1>1, <2>1, <2>2, <2>3 DEF CP!Resident, CP!Queued, QIds
<1>4. ASSUME SP!IInv
      PROVE  /\ Shaped(sWaiting, sRunning) /\ sWaiting \in Seq(SP!SeqWork)
             /\ IsFiniteSet(DOMAIN sRunning) /\ Cardinality(DOMAIN sRunning) <= MaxBatch
             /\ SP!Resident = QIds(sWaiting) \cup DOMAIN sRunning
  <2>1. sWaiting \in Seq(SP!SeqWork) /\ \A id \in DOMAIN sRunning : sRunning[id].decode > 0
    BY <1>4 DEF SP!IInv, SP!TypeOK, SP!Unfinished
  <2>2. DOMAIN sRunning \in SUBSET Ids /\ sRunning \in [DOMAIN sRunning -> SP!Slot]
    BY <1>4, Sizes, SP!BatchIsFunction DEF SP!IInv, SP!TypeOK
  <2>3. IsFiniteSet(DOMAIN sRunning) /\ Cardinality(DOMAIN sRunning) <= MaxBatch
    BY <1>4, SameStatic DEF SP!IInv, SP!BatchBounded
  <2> QED
    BY <1>1, <1>2, <2>1, <2>2, <2>3 DEF SP!Resident, SP!Queued, QIds
<1> QED
  BY <1>3, <1>4

(* Empty schedulers, and nobody handed over.                                   *)
LEMMA InitIInv == Init => IInv
<1> SUFFICES ASSUME Init PROVE IInv
  OBVIOUS
<1>1. CP!IInv /\ SP!IInv
  BY Sizes, SameContinuous, SameStatic, CP!InitIInv, SP!InitIInv DEF Init
<1>2. /\ cWaiting = <<>> /\ cRunning = [id \in {} |-> 0] /\ cOwed = [id \in Ids |-> 0]
      /\ sWaiting = <<>> /\ sRunning = [id \in {} |-> 0] /\ sOwed = [id \in Ids |-> 0]
  BY DEF Init, Continuous!Init, Static!Init
<1>3. DOMAIN cWaiting = {} /\ DOMAIN sWaiting = {} /\ DOMAIN cRunning = {} /\ DOMAIN sRunning = {}
  BY <1>2
<1>4. /\ Ordered(cWaiting, cRunning) /\ Own(cWaiting, cRunning)
      /\ Ordered(sWaiting, sRunning) /\ Own(sWaiting, sRunning)
      /\ Ahead(cWaiting, cRunning, sWaiting, sRunning)
      /\ QIds(cWaiting) = {} /\ QIds(sWaiting) = {}
  BY <1>3 DEF Ordered, Own, Ahead, QIds
<1>5. arrivals \in Workloads /\ at = "loop" /\ stepIndex = 0 /\ admitted = {}
  BY DEF Init
<1>6. Handed = {}
  <2>1. \A i \in Ids : arrivals[i].step \in Nat
    BY <1>5, BenchAssumption DEF Workloads
  <2> QED
    BY <1>5, <2>1 DEF Handed
<1> QED
  BY <1>1, <1>2, <1>3, <1>4, <1>5, <1>6 DEF IInv

(* The loop moves on to the next step: those of the last one have been handed   *)
(* over.                                                                       *)
LEMMA BeginStepIInv ==
    ASSUME IInv, BeginStep
    PROVE  IInv'
<1>1. /\ at = "loop" /\ stepIndex' = stepIndex + 1 /\ at' = "step" /\ admitted' = {}
      /\ UNCHANGED <<arrivals, cVars, sVars>>
  BY DEF BeginStep
<1>2. \A i \in Ids : arrivals[i].step \in Nat
  BY BenchAssumption DEF IInv, Workloads
<1>3. stepIndex \in Nat /\ stepIndex' \in Nat
  BY <1>1 DEF IInv
<1>4. Handed \subseteq Handed'
  BY <1>1, <1>2, <1>3 DEF Handed, IInv
<1>5. \A i \in Handed' : arrivals[i].step > 0 => i \in Handed
  <2> SUFFICES ASSUME NEW i \in Handed', arrivals[i].step > 0 PROVE i \in Handed
    OBVIOUS
  <2>1. i \in Ids /\ arrivals[i].step < stepIndex + 1
    BY <1>1 DEF Handed
  <2>2. CASE arrivals[i].step < stepIndex
    BY <2>1, <2>2 DEF Handed
  <2>3. CASE arrivals[i].step = stepIndex
    BY <1>1, <1>3, <2>1, <2>3 DEF IInv, Due, Handed
  <2> QED
    BY <1>2, <1>3, <2>1, <2>2, <2>3
<1>6. CP!IInv' /\ SP!IInv'
  BY <1>1, Sizes, CP!StutterIInv, SP!StutterIInv DEF IInv, CP!vars, SP!vars, cVars, sVars
<1>7. /\ Ordered(cWaiting', cRunning') /\ Own(cWaiting, cRunning)'
      /\ Ordered(sWaiting', sRunning') /\ Own(sWaiting, sRunning)'
      /\ Ahead(cWaiting', cRunning', sWaiting', sRunning')
  BY <1>1 DEF IInv, Own, Work, cVars, sVars
<1> QED
  BY <1>1, <1>3, <1>4, <1>5, <1>6, <1>7 DEF IInv, cVars, sVars

(* A set of numbers has a least element.                                       *)
LEMMA LeastExists ==
    ASSUME NEW S \in SUBSET Nat, S # {}
    PROVE  Min(S) \in S /\ \A x \in S : Min(S) <= x
<1>1. \E x \in S : \A y \in S : ~ (<<y, x>> \in OpToRel(<, Nat))
  BY NatLessThanWellFounded, WFMin, Zenon
<1>2. PICK x \in S : \A y \in S : ~ (y < x)
  BY <1>1 DEF OpToRel
<1>3. \A y \in S : x <= y
  BY <1>2
<1> QED
  BY <1>2, <1>3 DEF Min

(* Whom the loop hands over next comes after everybody handed over before.      *)
LEMMA DueIsNext ==
    ASSUME IInv, Due # {}
    PROVE  /\ Min(Due) \in Due /\ \A j \in Due : Min(Due) <= j
           /\ \A j \in Handed : j < Min(Due)
<1>1. Due \in SUBSET Nat /\ Due \subseteq Ids /\ Ids \subseteq Nat
  BY DEF Due, Ids
<1>2. Min(Due) \in Due /\ \A j \in Due : Min(Due) <= j
  BY <1>1, LeastExists
<1>3. ASSUME NEW i \in Due, NEW j \in Handed PROVE j < i
  <2>1. CASE j \in admitted
    BY <2>1 DEF IInv
  <2>2. CASE arrivals[j].step < stepIndex
    <3>1. i \in Ids /\ j \in Ids /\ arrivals[i].step = stepIndex
      BY DEF Due, Handed
    <3>2. arrivals[i].step \in Nat /\ arrivals[j].step \in Nat
      BY <3>1, BenchAssumption DEF IInv, Workloads
    <3>3. i < j => arrivals[i].step <= arrivals[j].step
      BY <3>1 DEF IInv, Workloads
    <3>4. i \in Nat /\ j \in Nat /\ i # j
      BY <1>1, <2>2, <3>1, <3>2
    <3> QED
      BY ONLY <2>2, <3>1, <3>2, <3>3, <3>4
  <2> QED
    BY <2>1, <2>2 DEF Handed
<1> QED
  BY <1>2, <1>3

(* Handing the same arrival to both schedulers.                                 *)
LEMMA AdmitIInv ==
    ASSUME IInv, Admit
    PROVE  IInv' /\ CP!FreshEnqueue /\ SP!FreshEnqueue
<1> DEFINE i == Min(Due)
<1>1. /\ at = "step" /\ Due # {}
      /\ Continuous!Enqueue(Work(i)) /\ Static!Enqueue(Work(i))
      /\ admitted' = admitted \cup {i} /\ UNCHANGED <<arrivals, at, stepIndex>>
  BY DEF Admit
<1>2. i \in Due /\ (\A j \in Due : i <= j) /\ (\A j \in Handed : j < i)
  BY <1>1, DueIsNext
<1>3. i \in Ids /\ i \in Nat /\ arrivals[i].step = stepIndex /\ i \notin admitted
  BY <1>2 DEF Due, Ids
<1> HIDE DEF i
<1>4. Work(i) \in CP!SeqWork /\ Work(i) \in SP!SeqWork /\ Work(i).id = i
  BY <1>3 DEF IInv, Workloads, Work, CP!SeqWork, SP!SeqWork
<1>5. i \notin CP!Resident /\ i \notin SP!Resident
  <2>1. i \notin Handed
    BY <1>2, <1>3
  <2> QED
    BY <2>1, Shapes DEF IInv
<1>6. CP!Enqueue(Work(i)) /\ SP!Enqueue(Work(i))
  BY <1>1, SameContinuous, SameStatic
<1>7. CP!IInv' /\ SP!IInv' /\ CP!FreshEnqueue /\ SP!FreshEnqueue
  BY <1>4, <1>5, <1>6, Sizes, CP!EnqueueIInv, SP!EnqueueIInv
     DEF IInv, CP!FreshEnqueue, SP!FreshEnqueue
<1>8. /\ cWaiting' = Append(cWaiting, Work(i)) /\ cRunning' = cRunning
      /\ sWaiting' = Append(sWaiting, Work(i)) /\ sRunning' = sRunning
      /\ cOwed' = [cOwed EXCEPT ![i] = arrivals[i].decode]
      /\ sOwed' = [sOwed EXCEPT ![i] = arrivals[i].decode]
  <2>1. Work(i).decode = arrivals[i].decode /\ arrivals[i].decode \in Nat
    BY <1>3, BenchAssumption DEF IInv, Workloads, Work
  <2>2. 0 + Work(i).decode = arrivals[i].decode
    BY <2>1
  <2> QED
    BY <1>4, <1>5, <1>6, <2>2 DEF CP!Enqueue, SP!Enqueue
<1>9. /\ QIds(cWaiting) \cup DOMAIN cRunning \subseteq Handed
      /\ QIds(sWaiting) \cup DOMAIN sRunning \subseteq Handed
  BY DEF IInv
<1>10. /\ Ordered(cWaiting', cRunning') /\ Own(cWaiting', cRunning')
       /\ QIds(cWaiting') = QIds(cWaiting) \cup {i}
  <2>1. cWaiting \in Seq(CP!SeqWork) /\ Shaped(cWaiting, cRunning)
    BY Shapes DEF IInv
  <2>2. \A j \in QIds(cWaiting) \cup DOMAIN cRunning : j < i
    BY <1>2, <1>9
  <2>3. Ordered(cWaiting, cRunning) /\ Own(cWaiting, cRunning)
    BY DEF IInv
  <2> QED
    BY <1>3, <1>4, <1>8, <2>1, <2>2, <2>3, QueueGrows
<1>11. /\ Ordered(sWaiting', sRunning') /\ Own(sWaiting', sRunning')
       /\ QIds(sWaiting') = QIds(sWaiting) \cup {i}
  <2>1. sWaiting \in Seq(SP!SeqWork) /\ Shaped(sWaiting, sRunning)
    BY Shapes DEF IInv
  <2>2. \A j \in QIds(sWaiting) \cup DOMAIN sRunning : j < i
    BY <1>2, <1>9
  <2>3. Ordered(sWaiting, sRunning) /\ Own(sWaiting, sRunning)
    BY DEF IInv
  <2> QED
    BY <1>3, <1>4, <1>8, <2>1, <2>2, <2>3, QueueGrows
<1>12. Ahead(cWaiting', cRunning', sWaiting', sRunning')
  BY <1>8, <1>10, <1>11 DEF IInv, Ahead
<1>13. Own(cWaiting, cRunning)' /\ Own(sWaiting, sRunning)'
  BY <1>1, <1>10, <1>11 DEF Own, Work
<1>14. Handed' = Handed \cup {i}
  BY <1>1, <1>3 DEF Handed
<1>15. /\ QIds(cWaiting') \cup DOMAIN cRunning' \subseteq Handed'
       /\ QIds(sWaiting') \cup DOMAIN sRunning' \subseteq Handed'
  BY <1>8, <1>9, <1>10, <1>11, <1>14
<1>16. /\ cOwed' = sOwed'
       /\ \A j \in Handed' : arrivals[j].step > 0 => cOwed'[j] = arrivals[j].decode
  <2>1. cOwed = sOwed /\ cOwed \in [Ids -> Nat]
    BY DEF IInv, CP!IInv, CP!TypeOK
  <2> QED
    BY <1>3, <1>8, <1>14, <2>1 DEF IInv
<1>17. \A j \in admitted', k \in Due' : j < k
  <2> SUFFICES ASSUME NEW j \in admitted', NEW k \in Due' PROVE j < k
    OBVIOUS
  <2>1. k \in Due /\ k # i /\ k \in Nat
    BY <1>1 DEF Due, Ids
  <2>2. CASE j \in admitted
    BY <2>1, <2>2 DEF IInv
  <2>3. CASE j = i
    BY <1>2, <1>3, <2>1, <2>3
  <2> QED
    BY <1>1, <2>2, <2>3
<1>18. /\ admitted' \in SUBSET Ids /\ \A j \in admitted' : arrivals'[j].step = stepIndex'
       /\ arrivals' \in Workloads /\ at' \in {"loop", "step"} /\ stepIndex' \in Nat
       /\ at' # "loop"
  BY <1>1, <1>3 DEF IInv
<1> QED
  BY <1>1, <1>7, <1>10, <1>11, <1>12, <1>13, <1>15, <1>16, <1>17, <1>18 DEF IInv

(* A step of both schedulers.                                                  *)
LEMMA StepIInv ==
    ASSUME IInv, StepWorkers
    PROVE  IInv' /\ CP!Step /\ SP!Step
<1>1. /\ at' = "loop" /\ Due = {} /\ UNCHANGED <<arrivals, stepIndex, admitted>>
      /\ CP!Step /\ SP!Step
  BY SameContinuous, SameStatic DEF StepWorkers
<1>2. CP!IInv /\ SP!IInv /\ CP!IInv' /\ SP!IInv'
  BY <1>1, Sizes, CP!StepIInv, SP!StepIInv DEF IInv
<1>3. /\ Shaped(cWaiting, cRunning) /\ Shaped(sWaiting, sRunning)
  BY <1>2, Shapes
<1>4. /\ Shaped(cWaiting', cRunning') /\ Shaped(sWaiting', sRunning')
      /\ IsFiniteSet(DOMAIN cRunning')
      /\ IsFiniteSet(DOMAIN sRunning') /\ Cardinality(DOMAIN sRunning') <= MaxBatch
  <2>1. (CP!IInv => /\ Shaped(cWaiting, cRunning) /\ IsFiniteSet(DOMAIN cRunning))'
    BY Shapes, PTL
  <2>2. (SP!IInv => /\ Shaped(sWaiting, sRunning) /\ IsFiniteSet(DOMAIN sRunning)
                    /\ Cardinality(DOMAIN sRunning) <= MaxBatch)'
    BY Shapes, PTL
  <2> QED
    BY <1>2, <2>1, <2>2 DEF Shaped
<1>5. PICK stayC, n : CP!Effect(stayC, n)
  BY <1>1, <1>2, Sizes, CP!StepEffect
<1>6. PICK stayS, m : SP!Effect(stayS, m)
  BY <1>1, <1>2, Sizes, SP!StepEffect
<1>7. /\ Moves(cWaiting, cRunning, cWaiting', cRunning', stayC, n)
      /\ cWaiting' = <<>> \/ Cardinality(DOMAIN cRunning') = MaxBatch
  <2>1. cWaiting' = <<>> \/ CP!Cardinality(DOMAIN cRunning') = MaxBatch
    BY <1>5 DEF CP!Effect
  <2> QED
    BY <1>5, <2>1, SameContinuous DEF CP!Effect, Moves
<1>8. Moves(sWaiting, sRunning, sWaiting', sRunning', stayS, m) /\ (m > 0 => stayS = {})
  BY <1>6 DEF SP!Effect, Moves
<1>9. Fills(cWaiting', cRunning') /\ Drains(sRunning', stayS, m)
  BY <1>4, <1>7, <1>8 DEF Fills, Drains
<1>10. /\ Ordered(cWaiting, cRunning) /\ Own(cWaiting, cRunning)
       /\ Ordered(sWaiting, sRunning) /\ Own(sWaiting, sRunning)
       /\ Ahead(cWaiting, cRunning, sWaiting, sRunning) /\ arrivals \in Workloads
  BY DEF IInv
<1>11. /\ Ordered(cWaiting', cRunning') /\ Own(cWaiting', cRunning')
       /\ QIds(cWaiting') \cup DOMAIN cRunning' \subseteq QIds(cWaiting) \cup DOMAIN cRunning
  BY ONLY <1>3, <1>4, <1>7, <1>10, SideKept
<1>12. /\ Ordered(sWaiting', sRunning') /\ Own(sWaiting', sRunning')
       /\ QIds(sWaiting') \cup DOMAIN sRunning' \subseteq QIds(sWaiting) \cup DOMAIN sRunning
  BY ONLY <1>3, <1>4, <1>8, <1>10, SideKept
<1>13. Ahead(cWaiting', cRunning', sWaiting', sRunning')
  BY ONLY <1>3, <1>4, <1>7, <1>8, <1>9, <1>10, <1>11, AheadKept
<1>14. Own(cWaiting, cRunning)' /\ Own(sWaiting, sRunning)'
  BY <1>1, <1>11, <1>12 DEF Own, Work
<1>15. cOwed' = cOwed /\ sOwed' = sOwed
  BY <1>1 DEF CP!Step, SP!Step
<1>16. Handed' = Handed /\ Due' = Due
  BY <1>1 DEF Handed, Due
<1> QED
  BY <1>1, <1>2, <1>11, <1>12, <1>13, <1>14, <1>15, <1>16 DEF IInv

-------------------------------------------------------------------------------
(* The invariant, and that the loop is a caller as both schedulers expect it:    *)
(* no id is handed over while it is resident.                                   *)
LEMMA NextIInv ==
    ASSUME IInv, [Next]_vars
    PROVE  IInv' /\ [CP!Next]_CP!vars /\ [SP!Next]_SP!vars
<1>1. CASE BeginStep
  BY <1>1, BeginStepIInv DEF BeginStep, CP!vars, SP!vars, cVars, sVars
<1>2. CASE Admit
  BY <1>2, AdmitIInv DEF CP!Next, SP!Next
<1>3. CASE StepWorkers
  BY <1>3, StepIInv DEF CP!Next, SP!Next
<1>4. CASE UNCHANGED vars
  <2>1. CP!IInv' /\ SP!IInv'
    BY <1>4, Sizes, CP!StutterIInv, SP!StutterIInv
       DEF IInv, CP!vars, SP!vars, vars, cVars, sVars
  <2>2. UNCHANGED <<arrivals, at, stepIndex, admitted, cWaiting, cRunning, cOwed,
                    sWaiting, sRunning, sOwed>>
    BY <1>4 DEF vars, cVars, sVars, loopVars
  <2>3. Own(cWaiting, cRunning)' /\ Own(sWaiting, sRunning)'
    BY <2>2 DEF IInv, Own, Work
  <2>4. Handed' = Handed /\ Due' = Due
    BY <2>2 DEF Handed, Due
  <2>5. IInv'
    BY <2>1, <2>2, <2>3, <2>4 DEF IInv
  <2> QED
    BY <1>4, <2>5 DEF CP!vars, SP!vars, vars, cVars, sVars
<1> QED
  BY <1>1, <1>2, <1>3, <1>4 DEF Next

LEMMA Invariance == Spec => []IInv
  BY InitIInv, NextIInv, PTL DEF Spec

(* What is proved of Scheduler holds of both runs of the benchmark.              *)
THEOREM DrivesSchedulers == Spec => CP!Spec /\ SP!Spec
<1>1. Init => CP!Init /\ SP!Init
  BY SameContinuous, SameStatic DEF Init
<1> QED
  BY <1>1, NextIInv, Invariance, PTL DEF Spec, CP!Spec, SP!Spec

(* "Continuous batching beats static batching": no sequence is ever behind.      *)
THEOREM NeverBehind == Spec => []ContinuousDominates
<1>1. ASSUME IInv, NEW i \in Ids PROVE cEmitted[i] >= sEmitted[i]
  <2>1. Ahead(cWaiting, cRunning, sWaiting, sRunning) /\ cOwed = sOwed
    BY <1>1 DEF IInv
  <2>2. /\ Shaped(cWaiting, cRunning) /\ CP!Resident = QIds(cWaiting) \cup DOMAIN cRunning
        /\ Shaped(sWaiting, sRunning) /\ SP!Resident = QIds(sWaiting) \cup DOMAIN sRunning
    BY <1>1, Shapes DEF IInv
  <2>3. cEmitted[i] \in Nat /\ sEmitted[i] \in Nat /\ cOwed[i] \in Nat
    BY <1>1 DEF IInv, CP!IInv, CP!TypeOK, SP!IInv, SP!TypeOK
  <2>4. /\ \A j \in DOMAIN sWaiting : sEmitted[sWaiting[j].id] = 0
        /\ i \in DOMAIN sRunning => sEmitted[i] + sRunning[i].decode = sOwed[i]
        /\ i \notin SP!Resident => sEmitted[i] = sOwed[i]
        /\ i \in DOMAIN cRunning => cEmitted[i] + cRunning[i].decode = cOwed[i]
        /\ i \notin CP!Resident => cEmitted[i] = cOwed[i]
    BY <1>1 DEF IInv, CP!IInv, CP!BudgetExact, SP!IInv, SP!BudgetExact
  <2>5. CASE i \in QIds(sWaiting)
    BY <2>3, <2>4, <2>5 DEF QIds
  <2>6. CASE i \in DOMAIN sRunning /\ i \notin QIds(sWaiting)
    <3>1. i \notin QIds(cWaiting)
      BY <2>1, <2>6 DEF Ahead
    <3>2. sRunning[i].decode \in Nat
      BY <2>2, <2>6 DEF Shaped
    <3>3. CASE i \in DOMAIN cRunning
      <4>1. cRunning[i].decode <= sRunning[i].decode /\ cRunning[i].decode \in Nat
        BY <2>1, <2>2, <2>6, <3>3 DEF Ahead, Shaped
      <4> QED
        BY <2>1, <2>3, <2>4, <2>6, <3>2, <3>3, <4>1
    <3>4. CASE i \notin DOMAIN cRunning
      BY <2>1, <2>2, <2>3, <2>4, <2>6, <3>1, <3>2, <3>4
    <3> QED
      BY <3>3, <3>4
  <2>7. CASE i \notin QIds(sWaiting) /\ i \notin DOMAIN sRunning
    <3>1. i \notin QIds(cWaiting) /\ i \notin DOMAIN cRunning
      BY <2>1, <2>7 DEF Ahead
    <3> QED
      BY <2>1, <2>2, <2>3, <2>4, <2>7, <3>1
  <2> QED
    BY <2>5, <2>6, <2>7
<1>2. IInv => ContinuousDominates
  BY <1>1 DEF ContinuousDominates
<1> QED
  BY <1>2, Invariance, PTL

(* The last arrival is the last.                                                *)
LEMMA LastIsLast ==
    ASSUME arrivals \in Workloads
    PROVE  LastArrival \in Nat /\ \A i \in Ids : arrivals[i].step <= LastArrival
<1> DEFINE steps == {arrivals[i].step : i \in Ids}
           gaps == {LastStep - x : x \in steps}
<1>1. steps \in SUBSET (0..LastStep) /\ LastStep \in Nat
  BY BenchAssumption DEF Workloads
<1>2. 1 \in Ids
  BY BenchAssumption DEF Ids
<1>3. steps # {}
  BY <1>2
<1> HIDE DEF steps
<1>4. gaps \in SUBSET Nat /\ gaps # {}
  <2>1. \A x \in steps : LastStep - x \in Nat
    BY <1>1
  <2> QED
    BY <1>3, <2>1
<1>5. PICK g \in gaps : \A h \in gaps : g <= h
  <2> HIDE DEF gaps
  <2> QED
    BY <1>4, LeastExists
<1>6. PICK x \in steps : g = LastStep - x
  BY <1>5
<1>7. \A y \in steps : y <= x
  <2> SUFFICES ASSUME NEW y \in steps PROVE y <= x
    OBVIOUS
  <2>1. LastStep - x <= LastStep - y
    BY <1>5, <1>6
  <2>2. x \in 0..LastStep /\ y \in 0..LastStep
    BY <1>1
  <2> QED
    BY ONLY <1>1, <2>1, <2>2
<1>8. Max(steps) \in steps /\ \A y \in steps : y <= Max(steps)
  BY <1>6, <1>7 DEF Max
<1>9. LastArrival = Max(steps)
  BY DEF LastArrival, steps
<1>10. \A i \in Ids : arrivals[i].step \in steps
  BY DEF steps
<1>11. LastArrival \in Nat
  <2>1. LastArrival \in 0..LastStep
    BY ONLY <1>1, <1>8, <1>9
  <2> QED
    BY ONLY <1>1, <2>1
<1> QED
  BY ONLY <1>8, <1>9, <1>10, <1>11

(* "Same work, fair comparison": when the loop ends both policies have emitted    *)
(* the same, and all that was asked for by who was handed over.                  *)
THEOREM BothDoTheSame == Spec => []SameWork
<1>1. ASSUME IInv PROVE TypeOK
  BY <1>1, SameContinuous, SameStatic DEF IInv, TypeOK, CP!IInv, SP!IInv
<1>2. ASSUME IInv, Over, NEW i \in Ids
      PROVE  cEmitted[i] = sEmitted[i] /\ (arrivals[i].step > 0 => cEmitted[i] = arrivals[i].decode)
  <2>1. CP!Resident = {} /\ SP!Resident = {} /\ ~ (stepIndex <= LastArrival)
    BY <1>2, SameContinuous, SameStatic DEF Over, Loops, Busy
  <2>2. cEmitted[i] = cOwed[i] /\ sEmitted[i] = sOwed[i] /\ cOwed = sOwed
    BY <1>2, <2>1 DEF IInv, CP!IInv, CP!BudgetExact, SP!IInv, SP!BudgetExact
  <2>3. i \in Handed
    <3>1. arrivals[i].step \in 0..LastStep /\ stepIndex \in Nat
      BY <1>2 DEF IInv, Workloads
    <3>2. LastArrival \in Nat /\ arrivals[i].step <= LastArrival
      BY <1>2, LastIsLast DEF IInv
    <3>3. arrivals[i].step < stepIndex
      BY <2>1, <3>1, <3>2
    <3> QED
      BY <3>3 DEF Handed
  <2> QED
    BY <1>2, <2>2, <2>3 DEF IInv
<1>3. IInv => SameWork
  BY <1>1, <1>2 DEF SameWork
<1> QED
  BY <1>3, Invariance, PTL

(* "Admit a full batch, then wait for it to drain", in the benchmark's run.       *)
THEOREM StaticWaits == Spec => StaticBatchesDoNotOverlap
<1>1. SP!Spec => SP!BatchesDoNotOverlap
  BY Sizes, SP!StaticKeepsBatchesApart
<1>2. SP!BatchesDoNotOverlap => StaticBatchesDoNotOverlap
  BY PTL DEF SP!BatchesDoNotOverlap, StaticBatchesDoNotOverlap, Static!BatchesDoNotOverlap,
             SP!vars, Static!vars
<1> QED
  BY <1>1, <1>2, DrivesSchedulers, PTL
===============================================================================
