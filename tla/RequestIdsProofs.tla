--------------------------- MODULE RequestIdsProofs ---------------------------
(***************************************************************************)
(* Theorems about the generated load, for every length of the cycle; and   *)
(* about the ids, for every number of threads and of generators and every  *)
(* bound on the numbers in ids.                                            *)
(*                                                                         *)
(* SchedulerProofs takes it that no id is used while it is resident.  Here *)
(* some are, and what is proved is that the others do not suffer from it:  *)
(* what a step does to one id depends on that id standing at one place,    *)
(* whatever repetitions there are of others in the queue and the batch.    *)
(***************************************************************************)
EXTENDS RequestIds, LoadGen, SchedulerProofs

(* "rate_at(...) / peak" is a probability: no preset asks for more than the    *)
(* peak the arrivals are drawn at, nor for nothing at all.                     *)
THEOREM RateWithinPeak ==
    ASSUME NEW p \in Presets, NEW t \in Nat
    PROVE  RateAt(p, t) \in 1..Peak(p)
  BY DEF Presets, RateAt, Peak

-------------------------------------------------------------------------------
(* An id stands at one place of the queue or in the batch, or nowhere.         *)
Sole(id) ==
    /\ \A i, j \in DOMAIN waiting : waiting[i].id = id /\ waiting[j].id = id => i = j
    /\ id \notin Queued \/ id \notin DOMAIN running

(* What it was asked for has been emitted or is to come from where it stands.  *)
Exact(id) ==
    /\ \A i \in DOMAIN waiting : waiting[i].id = id =>
         emitted[id] = 0 /\ owed[id] = waiting[i].decode
    /\ id \in DOMAIN running => emitted[id] + running[id].decode = owed[id]
    /\ id \notin Resident => emitted[id] = owed[id]

Kept(id) == Sole(id) /\ Exact(id)

(* Of several positions there is a last one.                                  *)
LEMMA LastExists ==
    ASSUME NEW n \in Nat, NEW S \in SUBSET (1..n), S # {}
    PROVE  \E k \in S : \A j \in (k + 1)..n : j \notin S
<1> DEFINE gaps == {n - i : i \in S}
<1>0. \A i \in S : i \in Nat /\ i <= n
  OBVIOUS
<1>1. gaps \subseteq Nat /\ gaps # {}
  <2>1. \A i \in S : n - i \in Nat
    BY <1>0
  <2> QED
    BY <2>1
<1>2. \E g \in gaps : \A h \in gaps : ~ (<<h, g>> \in OpToRel(<, Nat))
  <2> HIDE DEF gaps
  <2> QED
    BY <1>1, NatLessThanWellFounded, WFMin, Zenon
<1>3. PICK g \in gaps : \A h \in gaps : ~ (h < g)
  BY <1>1, <1>2 DEF OpToRel
<1>4. PICK k \in S : g = n - k
  BY <1>3
<1>5. ASSUME NEW j \in (k + 1)..n, j \in S PROVE FALSE
  <2>1. n - j < n - k /\ n - j \in gaps
    BY <1>0, <1>5
  <2> QED
    BY <1>3, <1>4, <2>1
<1> QED
  BY <1>4, <1>5

(* A step pops the first n of the queue into the batch.                        *)
Pops(n) ==
    /\ n \in 0..Len(waiting) /\ Len(waiting) \in Nat
    /\ running' = Fill(Left, waiting, n)
    /\ DOMAIN running' = DOMAIN Left \cup {waiting[i].id : i \in 1..n}
    /\ waiting' \in Seq(SeqWork)
    /\ DOMAIN waiting = 1..Len(waiting)
    /\ DOMAIN waiting' = 1..(Len(waiting) - n)
    /\ \A i \in 1..(Len(waiting) - n) : waiting'[i] = waiting[n + i]

(* A step evicts and fills: it pops some number of entries.                  *)
LEMMA StepPops ==
    ASSUME TypeOK, Step
    PROVE  \E n : Pops(n)
<1>1. PICK n \in AdmitCounts(Left, waiting) :
          /\ running' = Fill(Left, waiting, n)
          /\ waiting' = SubSeq(waiting, n + 1, Len(waiting))
  BY DEF Step, Left
<1>2. n \in 0..Len(waiting)
  <2>1. waiting \in Seq(SeqWork) /\ Len(waiting) \in Nat
    BY LenProperties DEF TypeOK
  <2> QED
    BY <1>1, <2>1 DEF AdmitCounts, FillCounts
<1>3. waiting \in Seq(SeqWork) /\ Len(waiting) \in Nat /\ DOMAIN waiting = 1..Len(waiting)
  BY LenProperties DEF TypeOK
<1>4. /\ waiting' \in Seq(SeqWork) /\ Len(waiting') = Len(waiting) - n
      /\ \A i \in 1..(Len(waiting) - n) : waiting'[i] = waiting[n + i]
  <2> DEFINE rest == SubSeq(waiting, n + 1, Len(waiting))
  <2>1. /\ n + 1 \in Int /\ Len(waiting) \in Int
        /\ \A i \in (n + 1)..Len(waiting) : waiting[i] \in SeqWork
    BY <1>2, <1>3, ElementOfSeq
  <2>2. /\ rest \in Seq(SeqWork)
        /\ Len(rest) = IF n + 1 <= Len(waiting) THEN Len(waiting) - (n + 1) + 1 ELSE 0
        /\ \A i \in 1..(Len(waiting) - (n + 1) + 1) : rest[i] = waiting[n + 1 + i - 1]
    BY <2>1, SubSeqProperties
  <2> HIDE DEF rest
  <2>3. Len(rest) = Len(waiting) - n
    <3> DEFINE length == Len(waiting)
    <3>1. length \in Nat /\ n \in 0..length
          /\ Len(rest) = IF n + 1 <= length THEN length - (n + 1) + 1 ELSE 0
      BY <1>2, <1>3, <2>2
    <3> HIDE DEF length
    <3>2. Len(rest) = length - n
      BY ONLY <3>1
    <3> QED
      BY <3>2 DEF length
  <2>4. \A i \in 1..(Len(waiting) - n) : rest[i] = waiting[n + i]
    <3> SUFFICES ASSUME NEW i \in 1..(Len(waiting) - n) PROVE rest[i] = waiting[n + i]
      OBVIOUS
    <3>1. i \in 1..(Len(waiting) - (n + 1) + 1) /\ n + 1 + i - 1 = n + i
      BY <1>2, <1>3
    <3> QED
      BY <2>2, <3>1
  <2>5. waiting' = rest
    BY <1>1 DEF rest
  <2> QED
    BY <2>2, <2>3, <2>4, <2>5
<1>5. DOMAIN waiting' = 1..(Len(waiting) - n)
  BY <1>4, LenProperties
<1>6. DOMAIN running' = DOMAIN Left \cup {waiting[i].id : i \in 1..n}
  BY <1>1 DEF Fill, Taken
<1> QED
  BY <1>1, <1>2, <1>3, <1>4, <1>5, <1>6 DEF Pops

(* What a step makes of the batch: who is left has advanced by one, and who     *)
(* left had nothing more to decode.                                            *)
LEMMA StepBatch ==
    ASSUME TypeOK, NEW n, Pops(n)
    PROVE  /\ DOMAIN running \in SUBSET SeqIds /\ DOMAIN Left \in SUBSET DOMAIN running
           /\ \A id \in DOMAIN running : running[id] \in Slot
           /\ \A id \in DOMAIN Left : Left[id] = AdvanceSlot(running[id])
           /\ \A id \in DOMAIN running \ DOMAIN Left : AdvanceSlot(running[id]).decode = 0
           /\ \A id \in DOMAIN Left :
                (\A i \in 1..n : waiting[i].id # id) => running'[id] = Left[id]
<1>1. /\ running \in Batches /\ DOMAIN running \in SUBSET SeqIds
      /\ running \in [DOMAIN running -> Slot]
  BY BatchIsFunction DEF TypeOK
<1>2. /\ DOMAIN Left \in SUBSET DOMAIN running
      /\ \A id \in DOMAIN Left : Left[id] = AdvanceSlot(running[id])
      /\ \A id \in DOMAIN running \ DOMAIN Left : AdvanceSlot(running[id]).decode = 0
  BY <1>1, LeftProperties DEF Left
<1>3. /\ running' = Fill(Left, waiting, n) /\ n \in Nat
      /\ DOMAIN running' = DOMAIN Left \cup {waiting[i].id : i \in 1..n}
  BY DEF Pops
<1>4. ASSUME NEW id \in DOMAIN Left, \A i \in 1..n : waiting[i].id # id
      PROVE  running'[id] = Left[id]
  BY <1>3, <1>4 DEF Fill, Taken
<1> QED
  BY <1>1, <1>2, <1>4

(* Who was popped has the slot of its last entry.                             *)
LEMMA StepLast ==
    ASSUME TypeOK, NEW n, Pops(n), NEW id, \E i \in 1..n : waiting[i].id = id
    PROVE  \E k \in 1..n : /\ waiting[k].id = id
                           /\ running'[id] = [prefill |-> waiting[k].prefill,
                                              decode |-> waiting[k].decode]
<1>0. /\ running' = Fill(Left, waiting, n) /\ n \in Nat
      /\ DOMAIN running' = DOMAIN Left \cup {waiting[i].id : i \in 1..n}
  BY DEF Pops
<1> DEFINE P(k) == waiting[k].id = id /\ \A j \in (k + 1)..n : waiting[j].id # id
           last == CHOOSE k \in 1..n : P(k)
<1>1. \E k \in 1..n : P(k)
  <2> DEFINE S == {i \in 1..n : waiting[i].id = id}
  <2>1. S \in SUBSET (1..n) /\ S # {} /\ n \in Nat
    BY <1>0
  <2>2. \E k \in S : \A j \in (k + 1)..n : j \notin S
    <3> HIDE DEF S
    <3> QED
      BY <2>1, LastExists
  <2>3. PICK k \in S : \A j \in (k + 1)..n : j \notin S
    BY <2>2
  <2>4. \A j \in (k + 1)..n : j \in 1..n
    BY <1>0
  <2> QED
    BY <2>3, <2>4
<1>2. last \in 1..n /\ P(last)
  <2> HIDE DEF P
  <2> QED
    BY <1>1
<1>3. id \in Taken(Left, waiting, n)
  BY DEF Taken
<1>4. running'[id] = [prefill |-> waiting[last].prefill, decode |-> waiting[last].decode]
  BY <1>0, <1>3 DEF Fill
<1> HIDE DEF last
<1> QED
  BY <1>2, <1>4

(* A step keeps the types, whatever ids are in the queue twice.                *)
LEMMA StepTypeOK ==
    ASSUME TypeOK, Step
    PROVE  TypeOK'
<1>1. PICK n : Pops(n)
  BY StepPops
<1>2. /\ waiting \in Seq(SeqWork) /\ \A i \in 1..n : waiting[i] \in SeqWork
      /\ n \in Nat
  <2>1. waiting \in Seq(SeqWork) /\ 1..n \subseteq 1..Len(waiting) /\ n \in Nat
    BY <1>1 DEF TypeOK, Pops
  <2> QED
    BY <2>1, ElementOfSeq
<1>5. ASSUME NEW id, \E i \in 1..n : waiting[i].id = id
      PROVE  \E k \in 1..n : /\ waiting[k].id = id
                              /\ running'[id] = [prefill |-> waiting[k].prefill,
                                                 decode |-> waiting[k].decode]
  BY <1>1, <1>5, StepLast
<1>3. running' \in Batches
  <2>1. DOMAIN running' \in SUBSET SeqIds
    <3>1. \A i \in 1..n : waiting[i].id \in SeqIds
      BY <1>2 DEF SeqWork
    <3> QED
      BY <1>1, <3>1, StepBatch DEF Pops
  <2>2. ASSUME NEW id \in DOMAIN running' PROVE running'[id] \in Slot
    <3>1. CASE \E i \in 1..n : waiting[i].id = id
      <4>1. PICK k \in 1..n : /\ waiting[k].id = id
                              /\ running'[id] = [prefill |-> waiting[k].prefill,
                                                 decode |-> waiting[k].decode]
        BY <1>5, <3>1
      <4>2. PICK w \in SeqWork : w = waiting[k]
        BY <1>2
      <4> QED
        BY <4>1, <4>2, SchedulerAssumption DEF SeqWork, Slot
    <3>2. CASE \A i \in 1..n : waiting[i].id # id
      <4>1. id \in DOMAIN Left
        BY <1>1, <2>2, <3>2 DEF Pops
      <4> QED
        BY <1>1, <3>2, <4>1, StepBatch, AdvanceSlotCounts
    <3> QED
      BY <3>1, <3>2
  <2>3. running' = [id \in DOMAIN running' |-> running'[id]]
    BY <1>1 DEF Pops, Fill
  <2> QED
    BY <2>1, <2>2, <2>3, BatchIsFunction
<1>4. owed' = owed /\ emitted' \in [SeqIds -> Nat]
  BY DEF Step, TypeOK
<1> QED
  BY <1>1, <1>3, <1>4 DEF TypeOK, Pops

(* A step only takes ids out.                                                 *)
LEMMA StepShrinks ==
    ASSUME TypeOK, Step
    PROVE  Resident' \subseteq Resident
<1>1. PICK n : Pops(n)
  BY StepPops
<1>2. Queued' \subseteq Queued
  BY <1>1 DEF Pops, Queued
<1>3. DOMAIN running' \subseteq Queued \cup DOMAIN running
  <2>1. 1..n \subseteq DOMAIN waiting
    BY <1>1 DEF Pops
  <2>2. DOMAIN running' = DOMAIN Left \cup {waiting[i].id : i \in 1..n}
    BY <1>1 DEF Pops
  <2>3. DOMAIN Left \subseteq DOMAIN running
    BY <1>1, StepBatch
  <2> QED
    BY <2>1, <2>2, <2>3 DEF Queued
<1> QED
  BY <1>2, <1>3 DEF Resident

(* A step keeps the account of an id that stands at one place, and leaves it at  *)
(* one place or none.                                                          *)
LEMMA StepKeeps ==
    ASSUME TypeOK, Step, NEW id \in SeqIds, Kept(id)
    PROVE  Kept(id)'
<1>1. PICK n : Pops(n)
  BY StepPops
<1>2. /\ n \in 0..Len(waiting) /\ Len(waiting) \in Nat /\ n \in Nat
      /\ DOMAIN waiting = 1..Len(waiting)
      /\ DOMAIN waiting' = 1..(Len(waiting) - n)
      /\ \A i \in 1..(Len(waiting) - n) : waiting'[i] = waiting[n + i]
      /\ DOMAIN running' = DOMAIN Left \cup {waiting[i].id : i \in 1..n}
  BY <1>1 DEF Pops
<1>3. /\ DOMAIN Left \subseteq DOMAIN running
      /\ \A x \in DOMAIN running : running[x] \in Slot
      /\ \A x \in DOMAIN Left : Left[x] = AdvanceSlot(running[x])
      /\ \A x \in DOMAIN running \ DOMAIN Left : AdvanceSlot(running[x]).decode = 0
  BY <1>1, StepBatch
<1>4. /\ emitted[id] \in Nat /\ owed[id] \in Nat /\ owed' = owed
      /\ emitted'[id] = IF id \in Tokens(running) THEN emitted[id] + 1 ELSE emitted[id]
  BY DEF TypeOK, Step
<1>5. Sole(id) /\ Exact(id)
  BY DEF Kept
<1>6. CASE id \in DOMAIN running
  <2>1. \A i \in DOMAIN waiting : waiting[i].id # id
    BY <1>5, <1>6 DEF Sole, Queued
  <2>2. (\A i \in 1..n : waiting[i].id # id) /\ (\A i \in DOMAIN waiting' : waiting'[i].id # id)
    <3>1. \A i \in 1..n : i \in DOMAIN waiting
      BY <1>2
    <3>2. \A i \in DOMAIN waiting' : n + i \in DOMAIN waiting /\ waiting'[i] = waiting[n + i]
      BY <1>2
    <3> QED
      BY <2>1, <3>1, <3>2
  <2>3. id \in DOMAIN running' <=> id \in DOMAIN Left
    BY <1>2, <2>2
  <2>4. id \in DOMAIN Left => running'[id] = AdvanceSlot(running[id])
    BY <1>1, <1>3, <2>2, StepBatch
  <2>5. PICK s \in Slot : s = running[id] /\ AdvanceSlot(s) \in Slot
    BY <1>3, <1>6, AdvanceSlotCounts
  <2>6. /\ emitted[id] + s.decode = owed[id] /\ s.decode \in Nat
        /\ AdvanceSlot(s).decode \in Nat
        /\ s.prefill = 0 /\ s.decode > 0 <=> id \in Tokens(running)
    BY <1>5, <1>6, <2>5, SchedulerAssumption DEF Exact, Slot, Tokens
  <2>7. emitted'[id] + AdvanceSlot(s).decode = owed[id]
    <3>1. CASE s.prefill = 0 /\ s.decode > 0
      <4>1. AdvanceSlot(s).decode + 1 = s.decode
        BY <2>5, <3>1, AdvanceSlotCounts
      <4>2. emitted'[id] = emitted[id] + 1
        BY <1>4, <2>6, <3>1
      <4> QED
        BY ONLY <1>4, <2>6, <4>1, <4>2
    <3>2. CASE ~ (s.prefill = 0 /\ s.decode > 0)
      <4>1. AdvanceSlot(s).decode = s.decode
        BY <2>5, <3>2, AdvanceSlotCounts
      <4>2. emitted'[id] = emitted[id]
        BY <1>4, <2>6, <3>2
      <4> QED
        BY ONLY <1>4, <2>6, <4>1, <4>2
    <3> QED
      BY <3>1, <3>2
  <2>8. Sole(id)'
    BY <2>2 DEF Sole, Queued
  <2>9. Exact(id)'
    <3>1. id \in DOMAIN running' => emitted'[id] + running'[id].decode = owed'[id]
      BY <1>4, <2>3, <2>4, <2>5, <2>7
    <3>2. id \notin DOMAIN running' => emitted'[id] = owed'[id]
      <4> SUFFICES ASSUME id \notin DOMAIN running' PROVE emitted'[id] = owed'[id]
        OBVIOUS
      <4>1. AdvanceSlot(s).decode = 0
        BY <1>3, <1>6, <2>3, <2>5
      <4>2. emitted'[id] \in Nat
        BY <1>4
      <4> QED
        BY <1>4, <2>7, <4>1, <4>2
    <3> QED
      BY <2>2, <3>1, <3>2 DEF Exact, Resident
  <2> QED
    BY <2>8, <2>9 DEF Kept
<1>7. CASE id \notin DOMAIN running
  <2>1. emitted'[id] = emitted[id] /\ id \notin DOMAIN Left
    BY <1>3, <1>4, <1>7 DEF Tokens
  <2>2. CASE \E k \in 1..n : waiting[k].id = id
    <3>1. PICK k \in 1..n : /\ waiting[k].id = id
                            /\ running'[id] = [prefill |-> waiting[k].prefill,
                                               decode |-> waiting[k].decode]
      BY <1>1, <2>2, StepLast
    <3>2. \A i \in DOMAIN waiting' : waiting'[i].id # id
      <4> SUFFICES ASSUME NEW i \in DOMAIN waiting', waiting'[i].id = id PROVE FALSE
        OBVIOUS
      <4>1. n + i \in DOMAIN waiting /\ k \in DOMAIN waiting /\ waiting[n + i].id = id /\ n + i # k
        BY <1>2
      <4> QED
        BY <1>5, <3>1, <4>1 DEF Sole
    <3>3. emitted[id] = 0 /\ owed[id] = waiting[k].decode
      <4>1. k \in DOMAIN waiting /\ waiting[k].id = id
        BY <1>2, <3>1
      <4> QED
        BY <1>5, <4>1 DEF Exact
    <3>4. running'[id].decode = owed[id] /\ id \in DOMAIN running'
      BY <1>2, <3>1, <3>3
    <3>5. Sole(id)' /\ id \in Resident'
      BY <3>2, <3>4 DEF Sole, Queued, Resident
    <3>6. emitted'[id] + running'[id].decode = owed'[id]
      BY <1>4, <2>1, <3>3, <3>4
    <3> QED
      BY <3>2, <3>5, <3>6 DEF Kept, Exact
  <2>3. CASE \A k \in 1..n : waiting[k].id # id
    <3>1. id \notin DOMAIN running'
      BY <1>2, <2>1, <2>3
    <3>2. \A i \in DOMAIN waiting' : n + i \in DOMAIN waiting /\ waiting'[i] = waiting[n + i]
                                     /\ n + i \in Nat /\ i \in Nat
      BY <1>2
    <3>3. \A i \in DOMAIN waiting' : waiting'[i].id = id =>
            emitted'[id] = 0 /\ owed'[id] = waiting'[i].decode
      BY <1>4, <1>5, <2>1, <3>2 DEF Exact
    <3>4. \A i, j \in DOMAIN waiting' : waiting'[i].id = id /\ waiting'[j].id = id => i = j
      <4> SUFFICES ASSUME NEW i \in DOMAIN waiting', NEW j \in DOMAIN waiting',
                          waiting'[i].id = id, waiting'[j].id = id
                   PROVE  i = j
        OBVIOUS
      <4>1. n + i = n + j
        BY <1>5, <3>2 DEF Sole
      <4> QED
        BY <1>2, <3>2, <4>1
    <3>5. id \notin Resident' => id \notin Resident
      <4> SUFFICES ASSUME id \in Resident PROVE id \in Resident'
        OBVIOUS
      <4>1. PICK k \in DOMAIN waiting : waiting[k].id = id
        BY <1>7 DEF Resident, Queued
      <4>2. k - n \in DOMAIN waiting' /\ n + (k - n) = k
        BY <1>2, <2>3, <4>1
      <4>3. waiting'[k - n].id = id
        BY <1>2, <4>1, <4>2
      <4> QED
        BY <4>2, <4>3 DEF Resident, Queued
    <3>6. id \notin Resident' => emitted'[id] = owed'[id]
      BY <1>4, <1>5, <2>1, <3>5 DEF Exact
    <3> QED
      BY <3>1, <3>3, <3>4, <3>6 DEF Kept, Sole, Exact
  <2> QED
    BY <2>2, <2>3
<1> QED
  BY <1>6, <1>7

(* An enqueued sequence is resident, whoever else was stays.                  *)
LEMMA EnqueueAppends ==
    ASSUME TypeOK, NEW w \in SeqWork, Enqueue(w)
    PROVE  /\ TypeOK' /\ Resident' = Resident \cup {w.id}
           /\ Len(waiting) \in Nat /\ DOMAIN waiting = 1..Len(waiting)
           /\ DOMAIN waiting' = 1..(Len(waiting) + 1)
           /\ \A i \in 1..Len(waiting) : waiting'[i] = waiting[i]
           /\ waiting'[Len(waiting) + 1] = w
<1>1. /\ waiting \in Seq(SeqWork) /\ waiting' = Append(waiting, w) /\ running' = running
      /\ owed' = [owed EXCEPT ![w.id] = (IF w.id \in Resident THEN @ ELSE 0) + w.decode]
      /\ emitted' = [emitted EXCEPT ![w.id] = IF w.id \in Resident THEN @ ELSE 0]
  BY DEF TypeOK, Enqueue
<1>2. /\ DOMAIN waiting = 1..Len(waiting) /\ Len(waiting) \in Nat
      /\ waiting' \in Seq(SeqWork)
      /\ DOMAIN waiting' = 1..(Len(waiting) + 1)
      /\ \A i \in 1..Len(waiting) : waiting'[i] = waiting[i]
      /\ waiting'[Len(waiting) + 1] = w
  BY <1>1
<1>3. Queued' = Queued \cup {w.id}
  <2>1. DOMAIN waiting' = DOMAIN waiting \cup {Len(waiting) + 1}
    BY <1>2
  <2> QED
    BY <1>2, <2>1 DEF Queued
<1>4. TypeOK'
  <2>1. w.id \in SeqIds /\ w.decode \in Nat
    BY SchedulerAssumption DEF SeqWork
  <2>2. owed \in [SeqIds -> Nat] /\ emitted \in [SeqIds -> Nat]
    BY DEF TypeOK
  <2>3. (IF w.id \in Resident THEN owed[w.id] ELSE 0) + w.decode \in Nat
    BY <2>1, <2>2
  <2>4. owed' \in [SeqIds -> Nat] /\ emitted' \in [SeqIds -> Nat]
    BY <1>1, <2>2, <2>3
  <2> QED
    BY <1>1, <1>2, <2>4 DEF TypeOK
<1> QED
  BY <1>1, <1>2, <1>3, <1>4 DEF Resident

(* What is enqueued touches no other id's account, and opens one of its own if   *)
(* its id is not resident.                                                     *)
LEMMA EnqueueKeeps ==
    ASSUME TypeOK, NEW w \in SeqWork, Enqueue(w), NEW id \in SeqIds, Kept(id),
           id = w.id => id \notin Resident
    PROVE  Kept(id)'
<1>1. /\ Len(waiting) \in Nat /\ DOMAIN waiting = 1..Len(waiting)
      /\ DOMAIN waiting' = 1..(Len(waiting) + 1)
      /\ \A i \in 1..Len(waiting) : waiting'[i] = waiting[i]
      /\ waiting'[Len(waiting) + 1] = w
      /\ Resident' = Resident \cup {w.id} /\ running' = running
  BY EnqueueAppends DEF Enqueue
<1>2. /\ owed \in [SeqIds -> Nat] /\ emitted \in [SeqIds -> Nat]
      /\ owed' = [owed EXCEPT ![w.id] = (IF w.id \in Resident THEN @ ELSE 0) + w.decode]
      /\ emitted' = [emitted EXCEPT ![w.id] = IF w.id \in Resident THEN @ ELSE 0]
  BY DEF TypeOK, Enqueue
<1>3. Sole(id) /\ Exact(id)
  BY DEF Kept
<1>4. CASE id = w.id
  <2>1. /\ id \notin DOMAIN running
        /\ \A i \in DOMAIN waiting : waiting[i].id # id
    BY <1>4 DEF Resident, Queued
  <2>2. emitted'[id] = 0 /\ owed'[id] = w.decode
    <3>1. w.decode \in Nat /\ 0 + w.decode = w.decode
      BY SchedulerAssumption DEF SeqWork
    <3> QED
      BY <1>2, <1>4, <3>1
  <2>3. \A i \in DOMAIN waiting' : waiting'[i].id = id <=> i = Len(waiting) + 1
    BY <1>1, <1>4, <2>1
  <2> QED
    BY <1>1, <1>4, <2>1, <2>2, <2>3 DEF Kept, Sole, Exact
<1>5. CASE id # w.id
  <2>1. emitted'[id] = emitted[id] /\ owed'[id] = owed[id]
    BY <1>2, <1>5
  <2>2. \A i \in DOMAIN waiting' : waiting'[i].id = id =>
          i \in DOMAIN waiting /\ waiting'[i] = waiting[i]
    BY <1>1, <1>5
  <2>3. Sole(id)'
    <3>1. id \in Queued' => id \in Queued
      BY <2>2 DEF Queued
    <3>2. \A i, j \in DOMAIN waiting' : waiting'[i].id = id /\ waiting'[j].id = id => i = j
      BY <1>3, <2>2 DEF Sole
    <3> QED
      BY <1>1, <1>3, <3>1, <3>2 DEF Sole
  <2>4. Exact(id)'
    <3>1. \A i \in DOMAIN waiting' : waiting'[i].id = id =>
            emitted'[id] = 0 /\ owed'[id] = waiting'[i].decode
      BY <1>3, <2>1, <2>2 DEF Exact
    <3>2. id \in DOMAIN running' => emitted'[id] + running'[id].decode = owed'[id]
      BY <1>1, <1>3, <2>1 DEF Exact
    <3>3. id \notin Resident' => emitted'[id] = owed'[id]
      BY <1>1, <1>3, <2>1 DEF Exact
    <3> QED
      BY <3>1, <3>2, <3>3 DEF Exact
  <2> QED
    BY <2>3, <2>4 DEF Kept
<1> QED
  BY <1>4, <1>5

-------------------------------------------------------------------------------
(* As long as no two threads were in next_req_id() at once: the number a       *)
(* thread reads is not handed out to another, and is used once.                *)
PostsFresh ==
    /\ \A n \in 0..MaxNumber : PostId(n) \in Resident => n < reqSeq
    /\ \A t \in Threads :
         /\ posting[t].at = "read" => posting[t].n = reqSeq
         /\ posting[t].at = "named" =>
              posting[t].n < reqSeq /\ PostId(posting[t].n) \notin Resident
    /\ \A t, u \in Threads :
         t # u => \/ posting[t].at = "idle" \/ posting[u].at = "idle"
                  \/ posting[t].at # posting[u].at
                  \/ posting[t].at = "named" /\ posting[t].n # posting[u].n

(* As long as each generator was started after the requests of the last were   *)
(* through: the loop samples the one that is active, or none is, and all that   *)
(* it has numbered is below its count.                                        *)
GeneratedFresh ==
    /\ at = "sleep" => held = NoGenerator
    /\ due # {} => at = "submit" /\ held # NoGenerator
    /\ active # NoGenerator /\ held # NoGenerator => active = held
    /\ \A g \in {active, held} \ {NoGenerator}, n \in 0..MaxNumber :
         GenId(n) \in Resident \/ n \in due => n < count[g]
    /\ \A n \in due : GenId(n) \notin Resident

PostedKept == PostsFresh /\ \A n \in 0..MaxNumber : Kept(PostId(n))
GeneratedKept == GeneratedFresh /\ \A n \in 0..MaxNumber : Kept(GenId(n))

IdsInv ==
    /\ IdsTypeOK
    /\ at = "got" => held # NoGenerator
    /\ ~overlapped => PostedKept
    /\ ~mixed => GeneratedKept

(* The two kinds of ids never meet, and a number makes one id of each.        *)
LEMMA IdsDiffer ==
    /\ \A m, n : PostId(m) # GenId(n)
    /\ \A m, n : PostId(m) = PostId(n) => m = n
    /\ \A m, n : GenId(m) = GenId(n) => m = n
    /\ \A n \in 0..MaxNumber : PostId(n) \in SeqIds /\ GenId(n) \in SeqIds
BY RequestIdsAssumption DEF PostId, GenId

(* Without a step of the scheduler its accounts stay what they are.           *)
LEMMA StutterKeeps ==
    ASSUME UNCHANGED vars
    PROVE  /\ TypeOK => TypeOK'
           /\ Resident' = Resident
           /\ \A id : Kept(id) => Kept(id)'
<1>1. /\ waiting' = waiting /\ running' = running
      /\ owed' = owed /\ emitted' = emitted
  BY DEF vars
<1>2. Queued' = Queued /\ Resident' = Resident
  BY <1>1 DEF Queued, Resident
<1> QED
  BY <1>1, <1>2 DEF TypeOK, Kept, Sole, Exact

(* What the endpoints do to their own variables leaves the generated alone.    *)
LEMMA GeneratedStutter ==
    ASSUME GeneratedKept, UNCHANGED <<vars, loopVars>>
    PROVE  GeneratedKept'
<1>1. /\ active' = active /\ count' = count /\ held' = held
      /\ at' = at /\ due' = due
  BY DEF loopVars
<1>2. Resident' = Resident /\ \A id : Kept(id) => Kept(id)'
  BY StutterKeeps
<1>3. GeneratedFresh'
  BY <1>1, <1>2 DEF GeneratedKept, GeneratedFresh
<1>4. \A n \in 0..MaxNumber : GenId(n)' = GenId(n)
  BY DEF GenId
<1> QED
  BY <1>2, <1>3 DEF GeneratedKept, GenId

(* What the loop does to its own variables leaves the posted alone.           *)
LEMMA PostedStutter ==
    ASSUME PostedKept, UNCHANGED <<vars, postVars>>
    PROVE  PostedKept'
<1>1. reqSeq' = reqSeq /\ posting' = posting
  BY DEF postVars
<1>2. Resident' = Resident /\ \A id : Kept(id) => Kept(id)'
  BY StutterKeeps
<1>3. PostsFresh'
  BY <1>1, <1>2 DEF PostedKept, PostsFresh
<1> QED
  BY <1>2, <1>3 DEF PostedKept, PostId

(* At first there is nothing to lose.                                         *)
LEMMA InitIdsInv == InitAll => IdsInv
<1> SUFFICES ASSUME InitAll PROVE IdsInv
  OBVIOUS
<1>1. Init /\ TypeOK
  BY InitIInv DEF InitAll, IInv
<1>2. Resident = {} /\ \A id \in SeqIds : Kept(id)
  BY <1>1 DEF Init, Resident, Queued, Kept, Sole, Exact
<1>3. IdsTypeOK
  <2>1. 0 \in 0..MaxNumber /\ 0 \in 0..(MaxNumber + 1)
    BY RequestIdsAssumption
  <2>2. posting \in [Threads -> [at : {"idle", "read", "named"}, n : 0..MaxNumber]]
    BY <2>1 DEF InitAll
  <2>3. count \in [Generators -> 0..(MaxNumber + 1)]
    BY <2>1 DEF InitAll
  <2> QED
    BY <1>1, <2>1, <2>2, <2>3 DEF InitAll, IdsTypeOK
<1>4. PostsFresh /\ GeneratedFresh
  BY <1>2 DEF InitAll, PostsFresh, GeneratedFresh
<1> QED
  BY <1>2, <1>3, <1>4, IdsDiffer DEF IdsInv, InitAll, PostedKept, GeneratedKept

(* A number is read.                                                          *)
LEMMA ReadIdsInv ==
    ASSUME IdsInv, NEW t \in Threads, ReadSeq(t)
    PROVE  IdsInv'
<1>1. /\ posting[t].at = "idle" /\ reqSeq <= MaxNumber
      /\ posting' = [posting EXCEPT ![t] = [at |-> "read", n |-> reqSeq]]
      /\ overlapped' = (overlapped \/ \E u \in Threads : posting[u].at = "read")
      /\ UNCHANGED <<vars, loopVars>> /\ reqSeq' = reqSeq
  BY DEF ReadSeq
<1>2. IdsTypeOK /\ MaxNumber \in Nat
  BY RequestIdsAssumption DEF IdsInv
<1>3. Resident' = Resident /\ TypeOK' /\ \A id : Kept(id) => Kept(id)'
  BY <1>1, <1>2, StutterKeeps DEF IdsTypeOK
<1>4. /\ posting'[t].at = "read" /\ posting'[t].n = reqSeq
      /\ \A u \in Threads : u # t => posting'[u] = posting[u]
  BY <1>1, <1>2 DEF IdsTypeOK
<1>5. IdsTypeOK'
  <2>1. reqSeq \in 0..MaxNumber
    BY <1>1, <1>2 DEF IdsTypeOK
  <2>2. posting' \in [Threads -> [at : {"idle", "read", "named"}, n : 0..MaxNumber]]
    BY <1>1, <1>2, <2>1 DEF IdsTypeOK
  <2>3. overlapped' \in BOOLEAN
    BY <1>1, <1>2 DEF IdsTypeOK
  <2> QED
    BY <1>1, <1>2, <1>3, <2>2, <2>3 DEF IdsTypeOK, loopVars
<1>6. ASSUME ~overlapped' PROVE PostedKept'
  <2>1. PostedKept /\ PostsFresh /\ \A u \in Threads : posting[u].at # "read"
    BY <1>1, <1>6 DEF IdsInv, PostedKept
  <2>2. PostsFresh'
    BY <1>1, <1>3, <1>4, <2>1 DEF PostsFresh
  <2> QED
    BY <1>3, <2>1, <2>2 DEF PostedKept, PostId
<1>7. ~mixed' => GeneratedKept'
  BY <1>1, GeneratedStutter DEF IdsInv, loopVars
<1> QED
  BY <1>1, <1>5, <1>6, <1>7 DEF IdsInv, loopVars

(* The counter is written: by the only thread that had read it, unless two had. *)
LEMMA WriteIdsInv ==
    ASSUME IdsInv, NEW t \in Threads, WriteSeq(t)
    PROVE  IdsInv'
<1>1. /\ posting[t].at = "read" /\ reqSeq' = posting[t].n + 1
      /\ posting' = [posting EXCEPT ![t].at = "named"]
      /\ UNCHANGED <<vars, loopVars>> /\ overlapped' = overlapped
  BY DEF WriteSeq
<1>2. IdsTypeOK /\ MaxNumber \in Nat
  BY RequestIdsAssumption DEF IdsInv
<1>3. Resident' = Resident /\ TypeOK' /\ \A id : Kept(id) => Kept(id)'
  BY <1>1, <1>2, StutterKeeps DEF IdsTypeOK
<1>4. /\ posting'[t].at = "named" /\ posting'[t].n = posting[t].n
      /\ posting[t].n \in 0..MaxNumber
      /\ \A u \in Threads : u # t => posting'[u] = posting[u]
  BY <1>1, <1>2 DEF IdsTypeOK
<1>5. IdsTypeOK'
  <2>1. posting' \in [Threads -> [at : {"idle", "read", "named"}, n : 0..MaxNumber]]
    BY <1>1, <1>2 DEF IdsTypeOK
  <2>2. reqSeq' \in 0..(MaxNumber + 1)
    BY <1>1, <1>2, <1>4
  <2> QED
    BY <1>1, <1>2, <1>3, <2>1, <2>2 DEF IdsTypeOK, loopVars
<1>6. ASSUME ~overlapped' PROVE PostedKept'
  <2>1. PostedKept /\ PostsFresh
    BY <1>1, <1>6 DEF IdsInv, PostedKept
  <2>2. posting[t].n = reqSeq /\ reqSeq' = reqSeq + 1 /\ reqSeq \in Nat
    BY <1>1, <1>2, <2>1 DEF PostsFresh, IdsTypeOK
  <2>3. PostId(reqSeq) \notin Resident
    BY <1>4, <2>1, <2>2 DEF PostsFresh
  <2>4. \A u \in Threads : u # t =>
          /\ posting[u].at \in {"idle", "named"}
          /\ posting[u].at = "named" => posting[u].n < reqSeq /\ posting[u].n \in Nat
    BY <1>1, <1>2, <2>1 DEF PostsFresh, IdsTypeOK
  <2>5. PostsFresh'
    <3>1. \A n \in 0..MaxNumber : PostId(n) \in Resident => n < reqSeq'
      BY <2>1, <2>2 DEF PostsFresh
    <3>2. \A u \in Threads : posting'[u].at # "read"
      BY <1>4, <2>4
    <3>3. \A u \in Threads : posting'[u].at = "named" =>
            posting'[u].n < reqSeq' /\ PostId(posting'[u].n) \notin Resident
      BY <1>4, <2>1, <2>2, <2>3, <2>4 DEF PostsFresh
    <3>4. ASSUME NEW u \in Threads, NEW v \in Threads, u # v,
                 posting'[u].at # "idle", posting'[v].at # "idle"
          PROVE  posting'[u].at = "named" /\ posting'[u].n # posting'[v].n
      BY <1>4, <2>1, <2>2, <2>4, <3>4 DEF PostsFresh
    <3> QED
      BY <1>3, <3>1, <3>2, <3>3, <3>4 DEF PostsFresh, PostId
  <2> QED
    BY <1>3, <2>1, <2>5 DEF PostedKept, PostId
<1>7. ~mixed' => GeneratedKept'
  BY <1>1, GeneratedStutter DEF IdsInv, loopVars
<1> QED
  BY <1>1, <1>5, <1>6, <1>7 DEF IdsInv, loopVars

(* What the pool does with a request it is given under an id.                 *)
LEMMA SubmitKeeps ==
    ASSUME TypeOK, NEW id, Submit(id)
    PROVE  /\ TypeOK' /\ Resident' = Resident \cup {id}
           /\ \A x \in SeqIds : Kept(x) /\ (x = id => x \notin Resident) => Kept(x)'
<1>1. PICK w \in SeqWork : w.id = id /\ Enqueue(w)
  BY DEF Submit
<1>2. TypeOK' /\ Resident' = Resident \cup {id}
  BY <1>1, EnqueueAppends
<1>3. ASSUME NEW x \in SeqIds, Kept(x), x = id => x \notin Resident
      PROVE  Kept(x)'
  BY <1>1, <1>3, EnqueueKeeps
<1> QED
  BY <1>2, <1>3

(* A posted request enters under its id.                                      *)
LEMMA PostIdsInv ==
    ASSUME IdsInv, NEW t \in Threads, Post(t)
    PROVE  IdsInv'
<1> DEFINE m == posting[t].n
<1>1. /\ posting[t].at = "named" /\ Submit(PostId(m))
      /\ posting' = [posting EXCEPT ![t].at = "idle"]
      /\ UNCHANGED <<reqSeq, overlapped, loopVars>>
  BY DEF Post
<1>2. IdsTypeOK /\ TypeOK
  BY DEF IdsInv, IdsTypeOK
<1>3. /\ TypeOK' /\ Resident' = Resident \cup {PostId(m)}
      /\ \A x \in SeqIds : Kept(x) /\ (x = PostId(m) => x \notin Resident) => Kept(x)'
  BY <1>1, <1>2, SubmitKeeps
<1>4. /\ posting'[t].at = "idle" /\ m \in 0..MaxNumber
      /\ \A u \in Threads : u # t => posting'[u] = posting[u]
  BY <1>1, <1>2 DEF IdsTypeOK
<1>5. IdsTypeOK'
  <2>1. posting' \in [Threads -> [at : {"idle", "read", "named"}, n : 0..MaxNumber]]
    BY <1>1, <1>2 DEF IdsTypeOK
  <2> QED
    BY <1>1, <1>2, <1>3, <2>1 DEF IdsTypeOK, loopVars
<1>6. ASSUME ~overlapped' PROVE PostedKept'
  <2>1. PostedKept /\ PostsFresh
    BY <1>1, <1>6 DEF IdsInv, PostedKept
  <2>2. m < reqSeq /\ PostId(m) \notin Resident
    BY <1>1, <2>1 DEF PostsFresh
  <2> HIDE DEF m
  <2>3. \A n \in 0..MaxNumber : PostId(n) \in Resident' => n < reqSeq
    BY <1>3, <2>1, <2>2, IdsDiffer DEF PostsFresh
  <2>4. ASSUME NEW u \in Threads, posting'[u].at = "named"
        PROVE  posting'[u].n < reqSeq /\ PostId(posting'[u].n) \notin Resident'
    <3>1. u # t /\ posting'[u] = posting[u]
      BY <1>4, <2>4
    <3>2. posting[u].n # m
      BY <1>1, <2>1, <2>4, <3>1 DEF PostsFresh, m
    <3> QED
      BY <1>3, <2>1, <2>4, <3>1, <3>2, IdsDiffer DEF PostsFresh
  <2>5. PostsFresh'
    <3>1. \A u \in Threads : posting'[u].at = "read" => posting'[u].n = reqSeq
      BY <1>4, <2>1 DEF PostsFresh
    <3>2. ASSUME NEW u \in Threads, NEW v \in Threads, u # v,
                 posting'[u].at # "idle", posting'[v].at # "idle"
          PROVE  \/ posting'[u].at # posting'[v].at
                 \/ posting'[u].at = "named" /\ posting'[u].n # posting'[v].n
      BY <1>4, <2>1, <3>2 DEF PostsFresh
    <3> QED
      BY <1>1, <2>3, <2>4, <3>1, <3>2 DEF PostsFresh, PostId
  <2>6. \A n \in 0..MaxNumber : Kept(PostId(n))'
    BY <1>3, <2>1, <2>2, IdsDiffer DEF PostedKept, PostId
  <2> QED
    BY <2>5, <2>6 DEF PostedKept
<1>7. ASSUME ~mixed' PROVE GeneratedKept'
  <2>1. GeneratedKept /\ GeneratedFresh
    BY <1>1, <1>7 DEF IdsInv, GeneratedKept, loopVars
  <2> HIDE DEF m
  <2>2. \A n : GenId(n) \in Resident' <=> GenId(n) \in Resident
    BY <1>3, IdsDiffer
  <2>3. GeneratedFresh'
    BY <1>1, <2>1, <2>2 DEF GeneratedFresh, loopVars, GenId
  <2>4. \A n \in 0..MaxNumber : Kept(GenId(n))'
    BY <1>3, <2>1, IdsDiffer DEF GeneratedKept, GenId
  <2> QED
    BY <2>3, <2>4 DEF GeneratedKept
<1> QED
  BY <1>1, <1>5, <1>6, <1>7 DEF IdsInv, loopVars

(* A generator is started, or the active one stopped.                         *)
LEMMA GeneratorIdsInv ==
    ASSUME IdsInv, StartLoadgen \/ StopLoadgen
    PROVE  IdsInv'
<1>1. /\ UNCHANGED <<vars, postVars>> /\ held' = held /\ at' = at /\ due' = due
      /\ overlapped' = overlapped /\ reqSeq' = reqSeq /\ posting' = posting
  BY DEF StartLoadgen, StopLoadgen, postVars
<1>2. IdsTypeOK
  BY DEF IdsInv
<1>3. Resident' = Resident /\ TypeOK' /\ \A id : Kept(id) => Kept(id)'
  BY <1>1, <1>2, StutterKeeps DEF IdsTypeOK
<1>4. /\ active' \in Generators \cup {NoGenerator} /\ mixed' \in BOOLEAN
      /\ count' \in [Generators -> 0..(MaxNumber + 1)]
  <2>1. 0 \in 0..(MaxNumber + 1)
    BY RequestIdsAssumption
  <2>2. count \in [Generators -> 0..(MaxNumber + 1)] /\ mixed \in BOOLEAN
    BY <1>2 DEF IdsTypeOK
  <2>3. CASE StartLoadgen
    BY <2>1, <2>2, <2>3 DEF StartLoadgen
  <2>4. CASE StopLoadgen
    BY <2>2, <2>4 DEF StopLoadgen
  <2> QED
    BY <2>3, <2>4
<1>5. IdsTypeOK'
  BY <1>1, <1>2, <1>3, <1>4 DEF IdsTypeOK
<1>6. ~overlapped' => PostedKept'
  BY <1>1, PostedStutter DEF IdsInv
<1>7. ASSUME ~mixed' PROVE GeneratedKept'
  <2>1. GeneratedKept /\ GeneratedFresh /\ \A n \in 0..MaxNumber : Kept(GenId(n))'
    <3>1. ~mixed
      BY <1>7 DEF StartLoadgen, StopLoadgen
    <3> QED
      BY <1>3, <3>1 DEF IdsInv, GeneratedKept, GenId
  <2>2. CASE StartLoadgen
    <3>1. held = NoGenerator /\ \A n \in 0..MaxNumber : GenId(n) \notin Resident
      BY <1>7, <2>2 DEF StartLoadgen, GeneratedAbout
    <3>2. due = {}
      BY <2>1, <3>1 DEF GeneratedFresh
    <3>3. GeneratedFresh'
      BY <1>1, <1>3, <2>1, <3>1, <3>2 DEF GeneratedFresh, GenId
    <3> QED
      BY <2>1, <3>3 DEF GeneratedKept
  <2>3. CASE StopLoadgen
    <3>1. active' = NoGenerator /\ count' = count
      BY <2>3 DEF StopLoadgen
    <3>2. GeneratedFresh'
      BY <1>1, <1>3, <2>1, <3>1 DEF GeneratedFresh, GenId
    <3> QED
      BY <2>1, <3>2 DEF GeneratedKept
  <2> QED
    BY <2>2, <2>3
<1> QED
  BY <1>1, <1>5, <1>6, <1>7 DEF IdsInv

(* The loop takes hold of the active generator.                               *)
LEMMA GetIdsInv ==
    ASSUME IdsInv, GetLoadgen
    PROVE  IdsInv'
<1>1. /\ at = "sleep" /\ held' = active
      /\ at' = IF active = NoGenerator THEN "submit" ELSE "got"
      /\ UNCHANGED <<vars, postVars, active, count, due, mixed>>
      /\ overlapped' = overlapped /\ reqSeq' = reqSeq /\ posting' = posting
  BY DEF GetLoadgen, postVars
<1>2. IdsTypeOK
  BY DEF IdsInv
<1>3. Resident' = Resident /\ TypeOK' /\ \A id : Kept(id) => Kept(id)'
  BY <1>1, <1>2, StutterKeeps DEF IdsTypeOK
<1>4. IdsTypeOK'
  BY <1>1, <1>2, <1>3 DEF IdsTypeOK
<1>5. ~overlapped' => PostedKept'
  BY <1>1, PostedStutter DEF IdsInv
<1>6. ASSUME ~mixed' PROVE GeneratedKept'
  <2>1. GeneratedKept /\ GeneratedFresh /\ \A n \in 0..MaxNumber : Kept(GenId(n))'
    BY <1>1, <1>3, <1>6 DEF IdsInv, GeneratedKept, GenId
  <2>2. held = NoGenerator /\ due = {}
    BY <1>1, <2>1 DEF GeneratedFresh
  <2>3. GeneratedFresh'
    BY <1>1, <1>3, <2>1, <2>2 DEF GeneratedFresh, GenId
  <2> QED
    BY <2>1, <2>3 DEF GeneratedKept
<1> QED
  BY <1>1, <1>4, <1>5, <1>6 DEF IdsInv

(* A generator numbers its arrivals from where it left off.                   *)
LEMMA SampleIdsInv ==
    ASSUME IdsInv, Sample
    PROVE  IdsInv'
<1>1. /\ at = "got" /\ at' = "submit"
      /\ UNCHANGED <<vars, postVars, active, held, mixed>>
      /\ overlapped' = overlapped /\ reqSeq' = reqSeq /\ posting' = posting
  BY DEF Sample, postVars
<1>2. PICK next \in count[held]..(MaxNumber + 1) :
          due' = count[held]..(next - 1) /\ count' = [count EXCEPT ![held] = next]
  BY DEF Sample
<1>3. IdsTypeOK /\ MaxNumber \in Nat
  BY RequestIdsAssumption DEF IdsInv
<1>4. Resident' = Resident /\ TypeOK' /\ \A id : Kept(id) => Kept(id)'
  BY <1>1, <1>3, StutterKeeps DEF IdsTypeOK
<1>5. ~overlapped' => PostedKept'
  BY <1>1, PostedStutter DEF IdsInv
<1>6. held \in Generators /\ held # NoGenerator
  BY <1>1, <1>3 DEF IdsInv, IdsTypeOK
<1>7. /\ count[held] \in 0..(MaxNumber + 1) /\ next \in 0..(MaxNumber + 1)
      /\ count'[held] = next /\ count[held] <= next
      /\ \A g \in Generators : g # held => count'[g] = count[g]
  BY <1>2, <1>3, <1>6 DEF IdsTypeOK
<1>8. \A n \in due' : n \in 0..MaxNumber /\ count[held] <= n /\ n < next
  BY <1>2, <1>3, <1>7
<1>9. count' \in [Generators -> 0..(MaxNumber + 1)]
  BY <1>2, <1>3, <1>7 DEF IdsTypeOK
<1>10. IdsTypeOK'
  BY <1>1, <1>3, <1>4, <1>8, <1>9 DEF IdsTypeOK
<1>11. ASSUME ~mixed' PROVE GeneratedKept'
  <2>1. GeneratedKept /\ GeneratedFresh /\ \A n \in 0..MaxNumber : Kept(GenId(n))'
    BY <1>1, <1>4, <1>11 DEF IdsInv, GeneratedKept, GenId
  <2>2. held # NoGenerator /\ active \in {held, NoGenerator}
    BY <1>1, <1>6, <2>1 DEF GeneratedFresh
  <2>3. \A n \in 0..MaxNumber : GenId(n) \in Resident => n < count[held]
    BY <2>1, <2>2 DEF GeneratedFresh
  <2>4. \A n \in due' : GenId(n) \notin Resident
    BY <1>3, <1>7, <1>8, <2>3
  <2>5. \A n \in 0..MaxNumber : GenId(n) \in Resident \/ n \in due' => n < next
    BY <1>7, <1>8, <2>3
  <2>6. GeneratedFresh'
    BY <1>1, <1>4, <1>7, <2>1, <2>2, <2>4, <2>5 DEF GeneratedFresh, GenId
  <2> QED
    BY <2>1, <2>6 DEF GeneratedKept
<1> QED
  BY <1>1, <1>5, <1>10, <1>11 DEF IdsInv

(* An arrival enters under its number, which no other arrival has.            *)
LEMMA SubmitIdsInv ==
    ASSUME IdsInv, SubmitDue
    PROVE  IdsInv'
<1> DEFINE m == Min(due)
<1>1. /\ at = "submit" /\ due # {} /\ Submit(GenId(m)) /\ due' = due \ {m}
      /\ UNCHANGED <<postVars, active, count, held, at, mixed>>
      /\ overlapped' = overlapped /\ reqSeq' = reqSeq /\ posting' = posting
  BY DEF SubmitDue, postVars
<1>2. IdsTypeOK /\ TypeOK /\ due \subseteq Nat /\ due \subseteq 0..MaxNumber
  BY RequestIdsAssumption DEF IdsInv, IdsTypeOK
<1>3. m \in due
  <2>1. \E x \in due : \A y \in due : ~ (<<y, x>> \in OpToRel(<, Nat))
    BY <1>1, <1>2, NatLessThanWellFounded, WFMin, Zenon
  <2>2. PICK x \in due : \A y \in due : ~ (y < x)
    BY <1>2, <2>1 DEF OpToRel
  <2>3. \A y \in due : x <= y
    BY <1>2, <2>2
  <2> QED
    BY <2>3 DEF Min
<1> HIDE DEF m
<1>4. /\ TypeOK' /\ Resident' = Resident \cup {GenId(m)}
      /\ \A x \in SeqIds : Kept(x) /\ (x = GenId(m) => x \notin Resident) => Kept(x)'
  BY <1>1, <1>2, SubmitKeeps
<1>5. IdsTypeOK'
  BY <1>1, <1>2, <1>4 DEF IdsTypeOK
<1>6. ASSUME ~overlapped' PROVE PostedKept'
  <2>1. PostedKept /\ PostsFresh
    BY <1>1, <1>6 DEF IdsInv, PostedKept
  <2>2. \A n : PostId(n) \in Resident' <=> PostId(n) \in Resident
    BY <1>4, IdsDiffer
  <2>3. PostsFresh'
    BY <1>1, <2>1, <2>2 DEF PostsFresh, PostId
  <2>4. \A n \in 0..MaxNumber : Kept(PostId(n))'
    BY <1>4, <2>1, IdsDiffer DEF PostedKept, PostId
  <2> QED
    BY <2>3, <2>4 DEF PostedKept
<1>7. ASSUME ~mixed' PROVE GeneratedKept'
  <2>1. GeneratedKept /\ GeneratedFresh
    BY <1>1, <1>7 DEF IdsInv, GeneratedKept
  <2>2. GenId(m) \notin Resident
    BY <1>3, <2>1 DEF GeneratedFresh
  <2>3. \A n : GenId(n) \in Resident' <=> GenId(n) \in Resident \/ n = m
    BY <1>4, IdsDiffer
  <2>4. GeneratedFresh'
    BY <1>1, <1>3, <2>1, <2>2, <2>3 DEF GeneratedFresh, GenId
  <2>5. \A n \in 0..MaxNumber : Kept(GenId(n))'
    BY <1>4, <2>1, <2>2, IdsDiffer DEF GeneratedKept, GenId
  <2> QED
    BY <2>4, <2>5 DEF GeneratedKept
<1> QED
  BY <1>1, <1>5, <1>6, <1>7 DEF IdsInv

(* A step of the pool only takes ids out, and the loop lets go of its generator. *)
LEMMA PoolIdsInv ==
    ASSUME IdsInv, StepPool
    PROVE  IdsInv'
<1>1. /\ due = {} /\ Step /\ at' = "sleep" /\ held' = NoGenerator
      /\ UNCHANGED <<postVars, active, count, due, mixed>>
      /\ overlapped' = overlapped /\ reqSeq' = reqSeq /\ posting' = posting
  BY DEF StepPool, postVars
<1>2. IdsTypeOK /\ TypeOK
  BY DEF IdsInv, IdsTypeOK
<1>3. /\ Resident' \subseteq Resident /\ TypeOK'
      /\ \A id \in SeqIds : Kept(id) => Kept(id)'
  BY <1>1, <1>2, StepShrinks, StepTypeOK, StepKeeps
<1>4. IdsTypeOK'
  BY <1>1, <1>2, <1>3 DEF IdsTypeOK
<1>5. ASSUME ~overlapped' PROVE PostedKept'
  <2>1. PostedKept /\ PostsFresh
    BY <1>1, <1>5 DEF IdsInv, PostedKept
  <2>2. PostsFresh'
    BY <1>1, <1>3, <2>1 DEF PostsFresh, PostId
  <2> QED
    BY <1>3, <2>1, <2>2, IdsDiffer DEF PostedKept, PostId
<1>6. ASSUME ~mixed' PROVE GeneratedKept'
  <2>1. GeneratedKept /\ GeneratedFresh
    BY <1>1, <1>6 DEF IdsInv, GeneratedKept
  <2>2. GeneratedFresh'
    BY <1>1, <1>3, <2>1 DEF GeneratedFresh, GenId
  <2> QED
    BY <1>3, <2>1, <2>2, IdsDiffer DEF GeneratedKept, GenId
<1> QED
  BY <1>1, <1>4, <1>5, <1>6 DEF IdsInv

(* Every action of the gateway keeps what the accounts rest on.                *)
LEMMA NextIdsInv ==
    ASSUME IdsInv, [NextAll]_allVars
    PROVE  IdsInv'
<1>1. CASE UNCHANGED allVars
  <2>1. /\ UNCHANGED <<vars, loopVars>> /\ UNCHANGED <<vars, postVars>>
        /\ UNCHANGED idVars
    BY <1>1 DEF allVars, idVars, loopVars, postVars
  <2>2. IdsTypeOK'
    BY <2>1, StutterKeeps DEF IdsInv, IdsTypeOK, idVars
  <2> QED
    BY <2>1, <2>2, GeneratedStutter, PostedStutter DEF IdsInv, idVars
<1>2. ASSUME NEW t \in Threads, ReadSeq(t) \/ WriteSeq(t) \/ Post(t)
      PROVE  IdsInv'
  BY <1>2, ReadIdsInv, WriteIdsInv, PostIdsInv
<1> QED
  BY <1>1, <1>2, GeneratorIdsInv, GetIdsInv, SampleIdsInv, SubmitIdsInv, PoolIdsInv
     DEF NextAll

(* What waits under an id that is at one place is one entry or none.          *)
LEMMA WaitingSum ==
    ASSUME TypeOK, NEW id, Sole(id)
    PROVE  /\ id \notin Queued =>
                MapThenSumSet(DecodeAt, {i \in DOMAIN waiting : waiting[i].id = id}) = 0
           /\ \A k \in DOMAIN waiting : waiting[k].id = id =>
                MapThenSumSet(DecodeAt, {i \in DOMAIN waiting : waiting[i].id = id}) = waiting[k].decode
<1>1. ASSUME id \notin Queued
      PROVE  MapThenSumSet(DecodeAt, {i \in DOMAIN waiting : waiting[i].id = id}) = 0
  <2>1. {i \in DOMAIN waiting : waiting[i].id = id} = {}
    BY <1>1 DEF Queued
  <2>2. MapThenSumSet(DecodeAt, {}) = 0
    BY DEF MapThenSumSet, MapThenFoldSet
  <2> QED
    BY <2>1, <2>2
<1>2. ASSUME NEW k \in DOMAIN waiting, waiting[k].id = id
      PROVE  MapThenSumSet(DecodeAt, {i \in DOMAIN waiting : waiting[i].id = id}) = waiting[k].decode
  <2>1. {i \in DOMAIN waiting : waiting[i].id = id} = {k}
    BY <1>2 DEF Sole
  <2> DEFINE Body(g) == [s \in SUBSET {k} |-> IF s = {} THEN 0
                           ELSE DecodeAt(CHOOSE x \in s : TRUE) + g[s \ {CHOOSE x \in s : TRUE}]]
             fold == CHOOSE g : g = Body(g)
             one == [s \in SUBSET {k} |-> IF s = {} THEN 0 ELSE DecodeAt(k)]
  <2>2. MapThenSumSet(DecodeAt, {k}) = fold[{k}]
    BY DEF MapThenSumSet, MapThenFoldSet
  <2>3. DecodeAt(k) = waiting[k].decode /\ DecodeAt(k) \in Nat
    <3>1. waiting[k] \in SeqWork
      BY <1>2, ElementOfSeq, LenProperties DEF TypeOK
    <3> QED
      BY <3>1, SchedulerAssumption DEF DecodeAt, SeqWork
  <2>4. SUBSET {k} = {{}, {k}} /\ {} # {k}
    BY Zenon
  <2>5. (CHOOSE x \in {k} : TRUE) = k /\ {k} \ {k} = {}
    OBVIOUS
  <2>6. ASSUME NEW s \in SUBSET {k}
        PROVE  one[s] = Body(one)[s]
    <3>1. one[{}] = 0
      BY <2>4
    <3>2. CASE s = {}
      BY <3>2
    <3>3. CASE s = {k}
      <4>1. Body(one)[s] = DecodeAt(k) + one[{}]
        BY <2>5, <3>3
      <4>2. one[s] = DecodeAt(k)
        BY <2>4, <3>3
      <4> QED
        BY ONLY <2>3, <3>1, <4>1, <4>2
    <3> QED
      BY <2>4, <3>2, <3>3
  <2>7. one = Body(one)
    BY <2>6
  <2>8. fold = Body(fold)
    <3> HIDE DEF Body, one
    <3> QED
      BY <2>7
  <2> HIDE DEF fold
  <2>9. fold[{}] = 0
    BY <2>4, <2>8
  <2>10. fold[{k}] = DecodeAt(k) + fold[{}]
    BY <2>4, <2>5, <2>8
  <2>11. MapThenSumSet(DecodeAt, {k}) = waiting[k].decode
    BY ONLY <2>2, <2>3, <2>9, <2>10
  <2> QED
    BY <2>1, <2>11
<1> QED
  BY <1>1, <1>2

(* What an id that is kept was asked for has been emitted or is to come.       *)
LEMMA KeptAccounted ==
    ASSUME TypeOK, NEW id \in SeqIds, Kept(id)
    PROVE  Accounted(id)
<1>1. owed[id] \in Nat /\ emitted[id] \in Nat /\ Sole(id) /\ Exact(id)
  BY DEF TypeOK, Kept
<1>2. CASE id \in Queued
  <2>1. PICK k \in DOMAIN waiting : waiting[k].id = id
    BY <1>2 DEF Queued
  <2>2. id \notin DOMAIN running
    BY <1>1, <1>2 DEF Sole
  <2>3. waiting[k].decode \in Nat
    <3>1. waiting[k] \in SeqWork
      BY <2>1, ElementOfSeq, LenProperties DEF TypeOK
    <3> QED
      BY <3>1, SchedulerAssumption DEF SeqWork
  <2>4. MapThenSumSet(DecodeAt, {i \in DOMAIN waiting : waiting[i].id = id}) = waiting[k].decode
    BY <1>1, <2>1, WaitingSum
  <2>5. Remaining(id) = waiting[k].decode
    BY <2>2, <2>3, <2>4 DEF Remaining
  <2> QED
    BY <1>1, <2>1, <2>3, <2>5 DEF Exact, Accounted
<1>3. CASE id \in DOMAIN running /\ id \notin Queued
  <2>1. running[id].decode \in Nat
    BY <1>3, BatchIsFunction, SchedulerAssumption DEF TypeOK, Slot
  <2>2. Remaining(id) = running[id].decode
    BY <1>1, <1>3, <2>1, WaitingSum DEF Remaining
  <2> QED
    BY <1>1, <1>3, <2>2 DEF Exact, Accounted
<1>4. CASE id \notin Resident
  <2>1. Remaining(id) = 0
    BY <1>1, <1>4, WaitingSum DEF Remaining, Resident
  <2> QED
    BY <1>1, <1>4, <2>1 DEF Exact, Accounted
<1> QED
  BY <1>2, <1>3, <1>4 DEF Resident

(* "Per-sequence accounting never mixes", up to the reuse of ids: whatever     *)
(* threads post, and whenever generators are started and stopped, what was      *)
(* asked for under a posted id has been emitted or is still to come unless two  *)
(* threads were in next_req_id() at once; and so it has under a generated id    *)
(* unless a generator was started over the requests of another.                *)
THEOREM ReuseAloneLoses == IdsSpec => []OnlyReuseLoses
<1>1. IdsInv => OnlyReuseLoses
  <2> SUFFICES ASSUME IdsInv PROVE OnlyReuseLoses
    OBVIOUS
  <2>1. IdsTypeOK /\ TypeOK
    BY DEF IdsInv, IdsTypeOK
  <2>2. ~overlapped => \A n \in 0..MaxNumber : Accounted(PostId(n))
    BY <2>1, IdsDiffer, KeptAccounted DEF IdsInv, PostedKept
  <2>3. ~mixed => \A n \in 0..MaxNumber : Accounted(GenId(n))
    BY <2>1, IdsDiffer, KeptAccounted DEF IdsInv, GeneratedKept
  <2> QED
    BY <2>1, <2>2, <2>3 DEF OnlyReuseLoses
<1>2. IdsInv /\ [NextAll]_allVars => IdsInv'
  BY NextIdsInv
<1> QED
  BY <1>1, <1>2, InitIdsInv, PTL DEF IdsSpec
===============================================================================
