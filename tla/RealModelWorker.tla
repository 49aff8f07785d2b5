--------------------------- MODULE RealModelWorker ----------------------------
(***************************************************************************)
(* The backend of real_model_worker.py, the one whose batching is the      *)
(* program's own: it prefills newcomers alone, splices their rows into the *)
(* key/value cache of the running batch, and decodes all rows together.    *)
(*                                                                         *)
(* Tensors are kept as their shapes and as whose data each row holds.  The *)
(* cache is a sequence of rows -- whose they are and how many of its       *)
(* tokens they hold -- with one common width; the attention mask is the    *)
(* number of ones in each row, again with one width.  Padding is always on *)
(* the left, so a row is known by those two numbers.  Which token comes    *)
(* out of the model is left open: any row may reach its end of sequence.   *)
(*                                                                         *)
(* A call of the model may raise.  The worker has changed its own state by *)
(* then, and step() may be called again.  Assumed is that the call raises  *)
(* before it has touched the cache: one that runs out of memory half way   *)
(* through the layers leaves those it has been through a column wider than *)
(* the others, which a cache of one common width does not show.            *)
(***************************************************************************)
EXTENDS Naturals, Sequences, FiniteSets, FiniteSetsExt

CONSTANTS
    SeqIds,      \* request ids
    MaxBatch,    \* max_batch_size
    MaxPrompt,   \* bound on prompt lengths, in tokens
    MaxNew,      \* bound on max_tokens
    MaxWidth,    \* bound: nothing is admitted while the mask is wider
    MaxFailures, \* bound on the calls of the model that raise
    Modes        \* the values set_continuous() is called with

ASSUME RealModelAssumption ==
    /\ MaxBatch \in Nat \ {0}
    /\ MaxPrompt \in Nat \ {0}
    /\ MaxNew \in Nat \ {0}
    /\ MaxWidth \in Nat
    /\ MaxFailures \in Nat
    /\ Modes \in (SUBSET BOOLEAN) \ {{}}

VARIABLES
    waiting,      \* the deque
    batch,        \* _running, _cache and _attn
    continuous,
    delivered,    \* events returned for the current use of each id (history)
    lost,         \* requests taken from the queue by a prefill that raised (history)
    failures,     \* calls of the model that raised (history)
    slip          \* and how many of them were decodes of this batch (history)

history == <<lost, failures, slip>>
vars == <<waiting, batch, continuous, delivered, lost, failures, slip>>

(* _Seq: the length of token_ids, and the fields as they are.                *)
Sequence == [id : SeqIds, tokens : Nat, max : 1..MaxNew, generated : Nat, finished : BOOLEAN]

Row == [id : SeqIds, held : Nat]

Batch == [seqs : Seq(Sequence), rows : Seq(Row), width : Nat, ones : Seq(Nat), mask : Nat]

(* The fields of RealModelWorker; no request has had more events than its     *)
(* max_tokens.                                                               *)
TypeOK ==
    /\ waiting \in Seq(Sequence)
    /\ batch \in Batch
    /\ continuous \in BOOLEAN
    /\ delivered \in [SeqIds -> 0..MaxNew]
    /\ lost \subseteq SeqIds
    /\ failures \in 0..MaxFailures
    /\ slip \in 0..failures

(* No batch: _running is empty, _cache and _attn are None.                   *)
NoBatch == [seqs |-> <<>>, rows |-> <<>>, width |-> 0, ones |-> <<>>, mask |-> 0]

Init ==
    /\ waiting = <<>>
    /\ batch = NoBatch
    /\ continuous \in Modes
    /\ delivered = [id \in SeqIds |-> 0]
    /\ lost = {}
    /\ failures = 0
    /\ slip = 0

Ids(seqs) == {seqs[i].id : i \in DOMAIN seqs}

(* The requests whose final event has not been returned.                     *)
Resident ==
    Ids(waiting) \cup {batch.seqs[i].id : i \in {j \in DOMAIN batch.seqs : ~batch.seqs[j].finished}}

-------------------------------------------------------------------------------
(* admit(req); request ids are unique, and `new' stands for max_tokens.      *)
Admit(id, prompt, new) ==
    /\ id \notin Ids(waiting) \cup Ids(batch.seqs) \cup lost
    /\ batch.mask <= MaxWidth
    /\ waiting' = Append(waiting, [id |-> id, tokens |-> prompt, max |-> new,
                                   generated |-> 0, finished |-> FALSE])
    /\ delivered' = [delivered EXCEPT ![id] = 0]
    /\ UNCHANGED <<batch, continuous, history>>

(* set_continuous(mode), between any two steps.                              *)
SetContinuous ==
    /\ continuous' \in Modes
    /\ UNCHANGED <<waiting, batch, delivered, history>>

(* reset(), which only the benchmark calls.                                  *)
Reset ==
    /\ waiting' = <<>>
    /\ batch' = NoBatch
    /\ UNCHANGED <<continuous, delivered, history>>

(* The elements of a sequence at the positions in I: what indexing a tensor   *)
(* with a list of row numbers gives.                                         *)
Select(s, I) ==
    LET order == CHOOSE f \in [1..Cardinality(I) -> I] :
                     \A j, k \in 1..Cardinality(I) : j < k => f[j] < f[k]
    IN  [k \in DOMAIN order |-> s[order[k]]]

FaultyEvictFinished(b) ==       \* the cache keeps the rows of those that left
    LET keep == {i \in DOMAIN b.seqs : ~b.seqs[i].finished}
    IN  IF keep = DOMAIN b.seqs THEN b
        ELSE IF keep = {} THEN NoBatch
        ELSE [b EXCEPT !.seqs = Select(@, keep), !.rows = SubSeq(@, 1, Cardinality(keep)),
                       !.ones = Select(@, keep)]

EagerEvictFinished(b) ==        \* cuts the tensors down also when nobody leaves
    LET keep == {i \in DOMAIN b.seqs : ~b.seqs[i].finished}
    IN  IF keep = {} THEN NoBatch
        ELSE [b EXCEPT !.seqs = Select(@, keep), !.rows = Select(@, keep),
                       !.ones = Select(@, keep)]

NoEviction(b) == b              \* nobody ever leaves the batch

(* _evict_finished: sequences, cache rows and mask rows are cut down alike.   *)
EvictFinished(b) ==
    LET keep == {i \in DOMAIN b.seqs : ~b.seqs[i].finished}
    IN  IF keep = DOMAIN b.seqs THEN b
        ELSE IF keep = {} THEN NoBatch
        ELSE [b EXCEPT !.seqs = Select(@, keep), !.rows = Select(@, keep),
                       !.ones = Select(@, keep)]

FaultySampled(s, ended) ==      \* > for >= : one token past max_tokens
    [s EXCEPT !.tokens = @ + 1, !.generated = @ + 1,
              !.finished = s.id \in ended \/ s.generated + 1 > s.max]

(* _sample_and_emit for one sequence.                                        *)
Sampled(s, ended) ==
    [s EXCEPT !.tokens = @ + 1, !.generated = @ + 1,
              !.finished = s.id \in ended \/ s.generated + 1 >= s.max]

FaultyChunk(q, free) == q       \* the whole queue, whatever is free

(* The sequences _prefill_step takes from the queue.                         *)
Chunk(q, free) == SubSeq(q, 1, Min({free, Len(q)}))

(* _merge: the rows of a chunk are put behind those of the batch, both        *)
(* padded on the left to the wider of the two masks.  The mask comes first;   *)
(* joining the caches raises if the batch's is not as wide as its mask.       *)
Merge(b, rows, ones, width) ==
    LET s == Max({b.mask, width})
    IN  [b EXCEPT !.ones = @ \o ones, !.mask = s,
                  !.width = IF b.width = b.mask THEN s ELSE @,
                  !.rows = IF b.width = b.mask THEN @ \o rows ELSE @]

(* The batch after a prefill of the chunk.                                   *)
Prefilled(b, chunk, ended) ==
    LET width == Max({chunk[i].tokens : i \in DOMAIN chunk})
        rows  == [i \in DOMAIN chunk |-> [id |-> chunk[i].id, held |-> chunk[i].tokens]]
        ones  == [i \in DOMAIN chunk |-> chunk[i].tokens]
        grown == IF b.seqs = <<>>
                 THEN [b EXCEPT !.rows = rows, !.width = width, !.ones = ones, !.mask = width]
                 ELSE Merge(b, rows, ones, width)
    IN  IF b.width # b.mask THEN grown
        ELSE [grown EXCEPT !.seqs =
                 @ \o [i \in DOMAIN chunk |-> Sampled(chunk[i], ended)]]

(* _decode_step up to the call of the model: the mask grows a column.        *)
Widened(b) == [b EXCEPT !.ones = [i \in DOMAIN @ |-> @[i] + 1], !.mask = @ + 1]

(* ... and after it: the last token of each row is in the cache and the next  *)
(* one is sampled.                                                           *)
Decoded(b, ended) ==
    [Widened(b) EXCEPT
        !.rows = [i \in DOMAIN @ |-> [id |-> @[i].id, held |-> @[i].held + 1]],
        !.width = @ + 1,
        !.seqs = [i \in DOMAIN @ |-> Sampled(@[i], ended)]]

(* One event for each of these sequences.                                    *)
Emit(seqs) ==
    delivered' = [id \in SeqIds |-> IF id \in Ids(seqs) THEN delivered[id] + 1 ELSE delivered[id]]

FaultyMayPrefill(b) ==          \* static mode refills like continuous mode
    waiting # <<>> /\ MaxBatch > Len(b.seqs)

FullBatchMayPrefill(b) ==       \* static mode waits until it can fill a batch
    /\ continuous \/ b.seqs = <<>>
    /\ Len(waiting) >= MaxBatch
    /\ MaxBatch > Len(b.seqs)

(* admit_ok                                                                  *)
MayPrefill(b) ==
    /\ continuous \/ b.seqs = <<>>
    /\ waiting # <<>>
    /\ MaxBatch > Len(b.seqs)

(* The mask has rows that belong to no sequence; no further column fits it.    *)
Wedged(b) == Len(b.ones) # Len(b.seqs)

SlipOf(b) == IF b.seqs = <<>> THEN 0 ELSE slip

(* step(): evict, then either prefill or decode.  The chunk is lost if it     *)
(* cannot be joined to the batch.                                            *)
PrefillStep ==
    LET b     == EvictFinished(batch)
        chunk == Chunk(waiting, MaxBatch - Len(b.seqs))
    IN  /\ MayPrefill(b)
        /\ \E ended \in SUBSET Ids(chunk) : batch' = Prefilled(b, chunk, ended)
        /\ waiting' = SubSeq(waiting, Len(chunk) + 1, Len(waiting))
        /\ slip' = SlipOf(b)
        /\ IF b.width = b.mask
           THEN Emit(chunk) /\ UNCHANGED lost
           ELSE lost' = lost \cup Ids(chunk) /\ UNCHANGED delivered
        /\ UNCHANGED <<continuous, failures>>

(* The model raises: the chunk is neither in the queue nor in the batch.       *)
PrefillRaises ==
    LET b     == EvictFinished(batch)
        chunk == Chunk(waiting, MaxBatch - Len(b.seqs))
    IN  /\ MayPrefill(b)
        /\ failures < MaxFailures
        /\ failures' = failures + 1
        /\ batch' = b
        /\ waiting' = SubSeq(waiting, Len(chunk) + 1, Len(waiting))
        /\ lost' = lost \cup Ids(chunk)
        /\ slip' = SlipOf(b)
        /\ UNCHANGED <<continuous, delivered>>

(* An idle step changes nothing, and neither does one of a wedged batch, which *)
(* raises when the column is joined to the mask.                             *)
DecodeStep ==
    LET b    == EvictFinished(batch)
        runs == b.seqs # <<>> /\ ~Wedged(b)
    IN  /\ ~MayPrefill(b)
        /\ IF runs THEN \E ended \in SUBSET Ids(b.seqs) : batch' = Decoded(b, ended)
           ELSE batch' = b
        /\ Emit(IF runs THEN b.seqs ELSE <<>>)
        /\ slip' = SlipOf(b)
        /\ UNCHANGED <<waiting, continuous, lost, failures>>

(* The model raises, for want of memory or because the mask is wider than the  *)
(* cache by more than the new column: the column stays.                      *)
DecodeRaises ==
    LET b == EvictFinished(batch)
    IN  /\ ~MayPrefill(b) /\ b.seqs # <<>> /\ ~Wedged(b)
        /\ failures < MaxFailures
        /\ failures' = failures + 1
        /\ batch' = Widened(b)
        /\ slip' = slip + 1
        /\ UNCHANGED <<waiting, continuous, delivered, lost>>

Step == PrefillStep \/ PrefillRaises \/ DecodeStep \/ DecodeRaises

Submit == \E id \in SeqIds, prompt \in 1..MaxPrompt, new \in 1..MaxNew : Admit(id, prompt, new)

Next == Submit \/ SetContinuous \/ Step

Spec == Init /\ [][Next]_vars

-------------------------------------------------------------------------------
(* "Persistent batched DynamicCache, rows align to _running": row i of the    *)
(* cache belongs to sequence i and holds all of its tokens but the one just   *)
(* sampled, and the ones in row i of the mask are the "next position per row  *)
(* (0-indexed)", whoever was spliced in or cut out before.  Every decode that *)
(* raised moves the positions of all rows of its batch on by one, and nothing *)
(* else does; the next batch starts aligned.                                 *)
RowsAligned ==
    /\ TypeOK
    /\ Len(batch.rows) = Len(batch.seqs) /\ Len(batch.ones) >= Len(batch.seqs)
    /\ \A i \in DOMAIN batch.seqs :
         /\ batch.rows[i] = [id |-> batch.seqs[i].id, held |-> batch.seqs[i].tokens - 1]
         /\ batch.ones[i] = batch.seqs[i].tokens - 1 + slip
    /\ IF Wedged(batch) THEN batch.width + slip <= batch.mask
       ELSE batch.width + slip = batch.mask

(* The batch never holds more than max_batch_size sequences, and a request is *)
(* lost to no fault of the model, or of a batch, but one that raised.         *)
LostOnlyByFailure ==
    /\ Len(batch.seqs) <= MaxBatch
    /\ failures = 0 => lost = {}
    /\ Wedged(batch) => slip > 0 /\ lost # {}

(* A decode that raised in continuous mode and a newcomer joined after it are  *)
(* enough to stop the worker for ever: no request that is in it, or comes      *)
(* later, gets another token, and each one taken from the queue is lost.       *)
WedgedForEver ==
    [][Step /\ Wedged(batch)
        => Wedged(batch') /\ delivered' = delivered /\ batch'.seqs = batch.seqs]_vars

(* No request gets a token past max_tokens, a row still in the batch has one  *)
(* event for each token it generated, and it is final when that many came.   *)
TokensWithinBudget ==
    \A i \in DOMAIN batch.seqs :
        LET s == batch.seqs[i]
        IN  /\ s.generated = delivered[s.id]
            /\ s.generated <= s.max
            /\ s.generated = s.max => s.finished

(* "Running sequences finish, then admission follows the new rule": in static *)
(* mode nobody enters the batch beside a sequence that is not finished,       *)
(* however often the mode was switched.                                      *)
StaticDrainsFirst ==
    [][Step /\ ~continuous /\ Ids(batch'.seqs) \ Ids(batch.seqs) # {}
           => \A i \in DOMAIN batch.seqs : batch.seqs[i].finished]_vars

(* What the pool's loop gives a worker as long as no worker before it in the   *)
(* pool raises on every step: it is stepped again and again.                  *)
KeepsBeingStepped == WF_vars(Step)

(* No decode raises for ever.                                                *)
DecodesRecover == <>[][~DecodeRaises]_vars

(* A request starves only while every step is a prefill: prefill goes first,   *)
(* so a stream of one-token requests in continuous mode can keep the others    *)
(* from being decoded.  If decode steps keep happening, or if the mode stays   *)
(* static, the worker keeps being stepped and decodes do not raise for ever,   *)
(* everybody who was admitted gets a final event, or is lost to a prefill that *)
(* raised, unless the batch is wedged.                                        *)
StarvesOnlyUnderPrefill ==
    (\/ []<><<DecodeStep>>_vars
     \/ KeepsBeingStepped /\ DecodesRecover /\ <>[]~continuous)
        => \A id \in SeqIds : (id \in Resident) ~> (id \notin Resident \/ Wedged(batch))

(* The Worker protocol: at most one event per request and step, the final one *)
(* last; a finished sequence that is still in the batch gets no more.        *)
Worker == INSTANCE WorkerProtocol WITH resident <- Resident \cup lost, Burst <- 1

KeepsWorkerProtocol == Worker!Spec
===============================================================================
