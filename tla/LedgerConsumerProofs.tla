------------------------ MODULE LedgerConsumerProofs ------------------------
(***************************************************************************)
(* The consumers' safety, for any ledger, batch size and number of         *)
(* failures: no entry is lost from the daily counts, none is missing from  *)
(* a player's history before one that is there, and a page of it reads in  *)
(* the order of the ledger, which is what a client waiting for the view    *)
(* relies on.                                                              *)
(***************************************************************************)
EXTENDS HistoryWait, SortingProofs

\* How many of the first n entries of s count for player p on day d.
OnDayIn(s, p, d, n) ==
    {i \in 1..n : s[i].valid /\ s[i].player = p /\ DayOf(s[i].id.ms) = d}
Tally(s, p, d, n) == Cardinality(OnDayIn(s, p, d, n))

LEMMA OnDayFinite ==
    ASSUME NEW s, NEW p, NEW d, NEW n \in Nat
    PROVE  IsFiniteSet(OnDayIn(s, p, d, n)) /\ Tally(s, p, d, n) \in Nat
<1>1. IsFiniteSet(1..n)
      BY FS_Interval
<1>2. OnDayIn(s, p, d, n) \subseteq 1..n
      BY DEF OnDayIn
<1>3. IsFiniteSet(OnDayIn(s, p, d, n))
      BY <1>1, <1>2, FS_Subset
<1> QED
    BY <1>3, FS_CardinalityType DEF Tally

\* Those from the one after n to m.
Between(s, p, d, n, m) ==
    {i \in n+1..m : s[i].valid /\ s[i].player = p /\ DayOf(s[i].id.ms) = d}

\* Folding the entries from n + 1 to m adds as many as there are among them.
LEMMA TallyFold ==
    ASSUME NEW s, NEW p, NEW d, NEW n \in Nat, NEW m \in Nat, n <= m,
           NEW added, added = Between(s, p, d, n, m)
    PROVE  /\ Cardinality(added) \in Nat
           /\ Tally(s, p, d, m) = Tally(s, p, d, n) + Cardinality(added)
<1>1. IsFiniteSet(OnDayIn(s, p, d, n)) /\ IsFiniteSet(OnDayIn(s, p, d, m))
      BY OnDayFinite
<1>2. OnDayIn(s, p, d, m) = OnDayIn(s, p, d, n) \cup added
      BY DEF OnDayIn, Between
<1>3. OnDayIn(s, p, d, n) \cap added = {}
      BY DEF OnDayIn, Between
<1>4. IsFiniteSet(added)
      BY <1>1, <1>2, FS_Subset
<1>5. Cardinality(OnDayIn(s, p, d, n) \cap added) = 0
      BY <1>3, FS_EmptySet
<1>6. Cardinality(OnDayIn(s, p, d, n) \cup added) =
          Cardinality(OnDayIn(s, p, d, n)) + Cardinality(added)
          - Cardinality(OnDayIn(s, p, d, n) \cap added)
      BY <1>1, <1>4, FS_Union
<1>7. Cardinality(added) \in Nat /\ Cardinality(OnDayIn(s, p, d, n)) \in Nat
      BY <1>1, <1>4, FS_CardinalityType
<1> QED
    BY <1>2, <1>5, <1>6, <1>7 DEF Tally

LEMMA TallyGrows ==
    ASSUME NEW s, NEW p, NEW d, NEW n \in Nat, NEW m \in Nat, n <= m
    PROVE  Tally(s, p, d, n) <= Tally(s, p, d, m)
<1>1. PICK added : added = Between(s, p, d, n, m)
      OBVIOUS
<1>2. /\ Cardinality(added) \in Nat
      /\ Tally(s, p, d, m) = Tally(s, p, d, n) + Cardinality(added)
      BY <1>1, TallyFold
<1> QED
    BY <1>2, OnDayFinite

\* An append leaves the tally of what was there.
LEMMA TallyAppend ==
    ASSUME NEW s \in Seq(Entry), NEW e, NEW p, NEW d, NEW n \in Nat, n <= Len(s)
    PROVE  Tally(Append(s, e), p, d, n) = Tally(s, p, d, n)
<1>1. \A i \in 1..n : Append(s, e)[i] = s[i]
      OBVIOUS
<1>2. OnDayIn(Append(s, e), p, d, n) = OnDayIn(s, p, d, n)
      BY <1>1 DEF OnDayIn
<1> QED
    BY <1>2 DEF Tally

-----------------------------------------------------------------------------
\* What a consumer has folded for certain: the saved cursor, or, between apply
\* and save, the end of the batch.
Folded(v) == IF pc[v] = "save" THEN batch[v].last ELSE cursor[v]

\* A batch is what follows the cursor, which does not move while it is in hand.
BatchInv ==
    \A v \in Views :
        /\ cursor[v] <= Len(stream)
        /\ pc[v] # "load" => from[v] = cursor[v]
        /\ pc[v] \in {"apply", "save"} =>
               /\ batch[v].first = cursor[v] + 1
               /\ cursor[v] < batch[v].last /\ batch[v].last <= Len(stream)

\* A count has everything folded for certain, and at most all there is once more
\* for every failure.
CountInv ==
    \A d \in Days, p \in Players :
        /\ counts[d][p] >= Tally(stream, p, d, Folded("daily_activity"))
        /\ counts[d][p] <= Tally(stream, p, d, Folded("daily_activity"))
                           + faults * Tally(stream, p, d, Len(stream))

\* The history of h among the first n entries of s.
HistoryIn(s, h, n) == {i \in 1..n : s[i].valid /\ <<s[i].player, s[i].board>> = h}

\* An index is the history up to some point, no earlier than what is folded.
IndexInv ==
    \A h \in Histories : \E n \in Folded("player_history")..Len(stream) :
        index[h] = HistoryIn(stream, h, n)

\* What a pipeline, or a prefix of one, applies: the valid entries from the
\* first of the batch up to one of them.
UpTo(s, n, k) == {i \in n+1..k : s[i].valid}

LEMMA WholeBatch ==
    ASSUME TypeOK, BatchInv, NEW v \in Views, pc[v] = "apply"
    PROVE  /\ Events(v) = UpTo(stream, cursor[v], batch[v].last)
           /\ cursor[v] \in Nat /\ batch[v].last \in Nat
           /\ cursor[v] <= batch[v].last /\ batch[v].last <= Len(stream)
  BY DEF TypeOK, BatchInv, Events, UpTo, Batch

LEMMA PrefixOfBatch ==
    ASSUME TypeOK, BatchInv, NEW v \in Views, pc[v] = "apply", NEW k \in Events(v)
    PROVE  /\ {i \in Events(v) : i <= k} = UpTo(stream, cursor[v], k)
           /\ k \in Nat /\ cursor[v] <= k /\ k <= Len(stream)
<1>1. cursor[v] \in Nat /\ batch[v].last \in Nat /\ Len(stream) \in Nat
      BY DEF TypeOK, Batch
<1>2. Events(v) = UpTo(stream, cursor[v], batch[v].last) /\ batch[v].last <= Len(stream)
      BY WholeBatch
<1> QED
    BY <1>1, <1>2 DEF UpTo

LEMMA UpToIsFinite ==
    ASSUME NEW s, NEW n \in Nat, NEW k \in Nat, NEW T, T \subseteq UpTo(s, n, k)
    PROVE  Cardinality(T) \in Nat /\ T \subseteq Nat
<1>1. IsFiniteSet(n+1..k)
      BY FS_Interval
<1>2. T \subseteq n+1..k
      BY DEF UpTo
<1>3. IsFiniteSet(T)
      BY <1>1, <1>2, FS_Subset
<1>4. T \subseteq Nat
      BY <1>2
<1> QED
    BY <1>3, <1>4, FS_CardinalityType

\* Applying up to k changes types as it should.
LEMMA ApplyTypes ==
    ASSUME TypeOK, NEW v \in Views, NEW n \in Nat, NEW k \in Nat,
           ApplyEvents(v, UpTo(stream, n, k))
    PROVE  /\ counts' \in [Days -> [Players -> Nat]]
           /\ index' \in [Histories -> SUBSET Nat]
<1> DEFINE done == UpTo(stream, n, k)
<1>1. \A d \in Days, p \in Players :
          Cardinality({i \in done : OnDayOf(i, p, d)}) \in Nat
  <2>1. SUFFICES ASSUME NEW d \in Days, NEW p \in Players
                 PROVE  Cardinality({i \in done : OnDayOf(i, p, d)}) \in Nat
        OBVIOUS
  <2>2. PICK T : T = {i \in done : OnDayOf(i, p, d)}
        OBVIOUS
  <2>3. T \subseteq done
        BY <2>2
  <2> QED
      BY <2>2, <2>3, UpToIsFinite
<1>2. done \subseteq Nat
      BY UpToIsFinite
<1>3. ApplyEvents(v, done)
      OBVIOUS
<1> HIDE DEF done
<1>4. CASE v = "daily_activity"
  <2>1. /\ counts' = [d \in Days |-> [p \in Players |->
               counts[d][p] + Cardinality({i \in done : OnDayOf(i, p, d)})]]
        /\ index' = index
        BY <1>3, <1>4 DEF ApplyEvents
  <2>2. \A d \in Days, p \in Players :
            counts[d][p] + Cardinality({i \in done : OnDayOf(i, p, d)}) \in Nat
        BY <1>1 DEF TypeOK
  <2> QED
      BY <2>1, <2>2 DEF TypeOK
<1>5. CASE v # "daily_activity"
  <2>1. /\ index' = [h \in Histories |-> index[h] \cup {i \in done : InHistory(i, h)}]
        /\ counts' = counts
        BY <1>3, <1>5 DEF ApplyEvents
  <2>2. \A h \in Histories : index[h] \cup {i \in done : InHistory(i, h)} \in SUBSET Nat
        BY <1>2 DEF TypeOK
  <2> QED
      BY <2>1, <2>2 DEF TypeOK
<1> QED
    BY <1>4, <1>5

\* Whatever is applied goes from the cursor up to some entry.
LEMMA Applied ==
    ASSUME TypeOK, BatchInv, NEW v \in Views, Apply(v) \/ ApplyPrefix(v)
    PROVE  \E k \in Nat :
               /\ cursor[v] <= k /\ k <= Len(stream)
               /\ Apply(v) => k = batch[v].last
               /\ ApplyEvents(v, UpTo(stream, cursor[v], k))
<1>1. CASE Apply(v)
      BY <1>1, WholeBatch DEF Apply
<1>2. CASE ApplyPrefix(v) /\ ~Apply(v)
      BY <1>2, PrefixOfBatch DEF ApplyPrefix
<1> QED
    BY <1>1, <1>2

LEMMA XAddTypes ==
    ASSUME TypeOK, NEW p \in Players, NEW b \in Boards, NEW valid \in BOOLEAN,
           NEW clock \in Clocks, XAdd(p, b, valid, clock)
    PROVE  TypeOK'
<1>1. NextId(clock) \in EntryId
  <2>1. CASE stream # << >> /\ clock <= stream[Len(stream)].id.ms
    <3>1. stream[Len(stream)].id \in EntryId
      <4>1. Len(stream) \in 1..Len(stream)
            BY <2>1 DEF TypeOK
      <4>2. stream[Len(stream)] \in Entry
            BY <4>1 DEF TypeOK
      <4>3. QED
            BY <4>2 DEF Entry
    <3>2. QED
          BY <2>1, <3>1 DEF NextId, EntryId
  <2>2. CASE ~(stream # << >> /\ clock <= stream[Len(stream)].id.ms)
        BY <2>2 DEF NextId, EntryId
  <2>3. QED
        BY <2>1, <2>2
<1>2. Contents[Len(stream) + 1] \in Range(Contents)
  <2>1. Len(stream) + 1 \in 1..Len(Contents)
        BY LedgerConsumerAssumption DEF XAdd, TypeOK, MaxEntries
  <2>2. DOMAIN Contents = 1..Len(Contents)
        BY LedgerConsumerAssumption
  <2>3. QED
        BY <2>1, <2>2 DEF Range
<1>3. [id |-> NextId(clock), player |-> p, board |-> b,
       content |-> Contents[Len(stream) + 1], valid |-> valid] \in Entry
      BY <1>1, <1>2 DEF Entry
<1> QED
    BY <1>3 DEF XAdd, TypeOK

LEMMA ConsumerTypes == TypeOK /\ BatchInv /\ [Next]_vars => TypeOK'
<1> SUFFICES ASSUME TypeOK, BatchInv, [Next]_vars PROVE TypeOK'
    OBVIOUS
<1> USE LedgerConsumerAssumption DEF durable
<1>1. ASSUME NEW p \in Players, NEW b \in Boards, NEW valid \in BOOLEAN,
             NEW clock \in Clocks, XAdd(p, b, valid, clock)
      PROVE  TypeOK'
      BY <1>1, XAddTypes
<1>2. ASSUME NEW v \in Views, LoadCursor(v) PROVE TypeOK'
      BY <1>2 DEF TypeOK, LoadCursor, Goto
<1>3. ASSUME NEW v \in Views, ReadNothing(v) PROVE TypeOK'
      BY <1>3 DEF TypeOK, ReadNothing, Goto
<1>4. ASSUME NEW v \in Views, ReadBatch(v) PROVE TypeOK'
  <2>1. NextBatch(from[v]) \in Batch
        BY DEF NextBatch, Batch, Smaller, TypeOK
  <2>2. QED
        BY <1>4, <2>1 DEF TypeOK, ReadBatch, Goto
<1>5. ASSUME NEW v \in Views, Apply(v) PROVE TypeOK'
  <2>1. /\ counts' \in [Days -> [Players -> Nat]]
        /\ index' \in [Histories -> SUBSET Nat]
    <3>1. PICK k \in Nat : ApplyEvents(v, UpTo(stream, cursor[v], k))
          BY <1>5, Applied
    <3>2. cursor[v] \in Nat
          BY DEF TypeOK
    <3>3. QED
          BY <3>1, <3>2, ApplyTypes
  <2>2. QED
        BY <1>5, <2>1 DEF TypeOK, Apply, Goto
<1>6. ASSUME NEW v \in Views, SaveCursor(v) PROVE TypeOK'
      BY <1>6 DEF TypeOK, SaveCursor, LastId, NoBatch, Batch, Goto
<1>7. ASSUME NEW v \in Views, FailCommand(v) PROVE TypeOK'
      BY <1>7 DEF TypeOK, FailCommand, Abort, NoBatch, Batch, Goto
<1>8. ASSUME NEW v \in Views, FailInPipeline(v) \/ ResendPipeline(v) PROVE TypeOK'
  <2>1. /\ counts' \in [Days -> [Players -> Nat]]
        /\ index' \in [Histories -> SUBSET Nat]
    <3>1. PICK k \in Nat : ApplyEvents(v, UpTo(stream, cursor[v], k))
          BY <1>8, Applied DEF FailInPipeline, ResendPipeline
    <3>2. cursor[v] \in Nat
          BY DEF TypeOK
    <3>3. QED
          BY <3>1, <3>2, ApplyTypes
  <2>2. CASE FailInPipeline(v)
        BY <2>1, <2>2 DEF TypeOK, FailInPipeline, Abort, NoBatch, Batch, Goto
  <2>3. CASE ResendPipeline(v)
        BY <2>1, <2>3 DEF TypeOK, ResendPipeline
  <2>4. QED
        BY <1>8, <2>2, <2>3
<1>9. ASSUME NEW v \in Views, FailAfterSave(v) PROVE TypeOK'
      BY <1>9 DEF TypeOK, FailAfterSave, LastId, Abort, NoBatch, Batch, Goto
<1>10. ASSUME UNCHANGED vars PROVE TypeOK'
      BY <1>10 DEF TypeOK, vars
<1> QED
    BY <1>1, <1>2, <1>3, <1>4, <1>5, <1>6, <1>7, <1>8, <1>9, <1>10
    DEF Next, ProcessOnce, Fault

LEMMA BatchStep == TypeOK /\ BatchInv /\ [Next]_vars => BatchInv'
<1> SUFFICES ASSUME TypeOK, BatchInv, [Next]_vars PROVE BatchInv'
    OBVIOUS
<1> USE LedgerConsumerAssumption DEF durable
<1>1. ASSUME NEW p \in Players, NEW b \in Boards, NEW valid \in BOOLEAN,
             NEW clock \in Clocks, XAdd(p, b, valid, clock)
      PROVE  BatchInv'
  <2>1. Len(stream') = Len(stream) + 1
        BY <1>1 DEF XAdd, TypeOK
  <2>2. QED
        BY <1>1, <2>1 DEF XAdd, TypeOK, BatchInv, Batch
<1>2. ASSUME NEW v \in Views, LoadCursor(v) PROVE BatchInv'
      BY <1>2 DEF TypeOK, BatchInv, LoadCursor, Goto
<1>3. ASSUME NEW v \in Views, ReadNothing(v) PROVE BatchInv'
      BY <1>3 DEF TypeOK, BatchInv, ReadNothing, Goto
<1>4. ASSUME NEW v \in Views, ReadBatch(v) PROVE BatchInv'
      BY <1>4 DEF TypeOK, BatchInv, ReadBatch, NextBatch, Smaller, Batch, Goto
<1>5. ASSUME NEW v \in Views, Apply(v) PROVE BatchInv'
      BY <1>5 DEF TypeOK, BatchInv, Apply, Goto
<1>6. ASSUME NEW v \in Views, SaveCursor(v) PROVE BatchInv'
      BY <1>6 DEF TypeOK, BatchInv, SaveCursor, LastId, NoBatch, Batch, Goto
<1>7. ASSUME NEW v \in Views, FailCommand(v) PROVE BatchInv'
      BY <1>7 DEF TypeOK, BatchInv, FailCommand, Abort, NoBatch, Batch, Goto
<1>8. ASSUME NEW v \in Views, FailInPipeline(v) PROVE BatchInv'
      BY <1>8 DEF TypeOK, BatchInv, FailInPipeline, Abort, NoBatch, Batch, Goto
<1>9. ASSUME NEW v \in Views, ResendPipeline(v) PROVE BatchInv'
      BY <1>9 DEF TypeOK, BatchInv, ResendPipeline
<1>10. ASSUME NEW v \in Views, FailAfterSave(v) PROVE BatchInv'
      BY <1>10 DEF TypeOK, BatchInv, FailAfterSave, LastId, Abort, NoBatch, Batch, Goto
<1>11. ASSUME UNCHANGED vars PROVE BatchInv'
      BY <1>11 DEF BatchInv, vars
<1> QED
    BY <1>1, <1>2, <1>3, <1>4, <1>5, <1>6, <1>7, <1>8, <1>9, <1>10, <1>11
    DEF Next, ProcessOnce, Fault

-----------------------------------------------------------------------------
LEMMA FoldedRange ==
    ASSUME TypeOK, BatchInv, NEW v \in Views
    PROVE  /\ Folded(v) \in Nat /\ Len(stream) \in Nat
           /\ cursor[v] <= Folded(v) /\ Folded(v) <= Len(stream)
  BY DEF TypeOK, BatchInv, Folded, Batch

LEMMA OncePer ==
    ASSUME NEW f \in Nat, NEW m \in Nat, NEW n \in Nat, m <= n
    PROVE  /\ f * m \in Nat /\ f * n \in Nat /\ f * m <= f * n
           /\ (f + 1) * m = f * m + m
  OBVIOUS

\* The count of one player and day, before and after a step.
CountOK(s, p, d, n, c, f) ==
    Tally(s, p, d, n) <= c /\ c <= Tally(s, p, d, n) + f * Tally(s, p, d, Len(s))

Daily == "daily_activity"

LEMMA CountXAdd ==
    ASSUME TypeOK, BatchInv, CountInv, NEW p \in Players, NEW b \in Boards,
           NEW valid \in BOOLEAN, NEW clock \in Clocks, XAdd(p, b, valid, clock)
    PROVE  CountInv'
<1>1. PICK e : stream' = Append(stream, e)
      BY DEF XAdd
<1>2. /\ counts' = counts /\ faults' = faults
      /\ Folded(Daily)' = Folded(Daily)
      BY DEF XAdd, Folded
<1>3. /\ Folded(Daily) \in Nat /\ Folded(Daily) <= Len(stream)
      /\ stream \in Seq(Entry) /\ Len(stream') = Len(stream) + 1
      /\ Len(stream) \in Nat
      BY <1>1, FoldedRange DEF TypeOK, Views, Daily
<1> SUFFICES ASSUME NEW d \in Days, NEW q \in Players
             PROVE  CountOK(stream', q, d, Folded(Daily), counts[d][q], faults)
    BY <1>2 DEF CountInv, CountOK, Daily
<1>4. Tally(stream', q, d, Folded(Daily)) = Tally(stream, q, d, Folded(Daily))
      BY <1>1, <1>3, TallyAppend
<1>5. Tally(stream', q, d, Len(stream)) = Tally(stream, q, d, Len(stream))
      BY <1>1, <1>3, TallyAppend
<1>6. /\ Tally(stream', q, d, Len(stream)) <= Tally(stream', q, d, Len(stream'))
      /\ Tally(stream', q, d, Len(stream')) \in Nat
      /\ Tally(stream, q, d, Len(stream)) \in Nat
      /\ Tally(stream, q, d, Folded(Daily)) \in Nat
      BY <1>3, TallyGrows, OnDayFinite
<1>7. /\ faults * Tally(stream, q, d, Len(stream)) \in Nat
      /\ faults * Tally(stream', q, d, Len(stream')) \in Nat
      /\ faults * Tally(stream, q, d, Len(stream))
             <= faults * Tally(stream', q, d, Len(stream'))
  <2>1. faults \in Nat
        BY DEF TypeOK
  <2>2. QED
        BY <1>5, <1>6, <2>1, OncePer
<1>8. CountOK(stream, q, d, Folded(Daily), counts[d][q], faults)
      BY DEF CountInv, CountOK, Daily
<1>9. counts[d][q] \in Nat
      BY DEF TypeOK
<1> QED
    BY <1>4, <1>6, <1>7, <1>8, <1>9 DEF CountOK

\* A step that folds, fails and applies nothing of the daily counts.
LEMMA CountKept ==
    ASSUME CountInv, stream' = stream, counts' = counts, faults' = faults,
           Folded(Daily)' = Folded(Daily)
    PROVE  CountInv'
  BY DEF CountInv, Daily

\* A failure that applied nothing; a saved cursor may not count as saved.
LEMMA CountAborted ==
    ASSUME TypeOK, BatchInv, CountInv, stream' = stream, counts' = counts,
           faults' = faults + 1,
           Folded(Daily)' \in Nat, Folded(Daily)' <= Folded(Daily)
    PROVE  CountInv'
<1>1. /\ Folded(Daily) \in Nat /\ Len(stream) \in Nat
      /\ Folded(Daily) <= Len(stream) /\ faults \in Nat
      BY FoldedRange DEF TypeOK, Views, Daily
<1>2. PICK m \in Nat : m = Folded(Daily)'
      OBVIOUS
<1> SUFFICES ASSUME NEW d \in Days, NEW q \in Players
             PROVE  CountOK(stream, q, d, m, counts[d][q], faults + 1)
    BY <1>2 DEF CountInv, CountOK, Daily
<1>3. CountOK(stream, q, d, Folded(Daily), counts[d][q], faults)
      BY DEF CountInv, CountOK, Daily
<1>4. /\ Tally(stream, q, d, m) <= Tally(stream, q, d, Folded(Daily))
      /\ Tally(stream, q, d, Folded(Daily)) <= Tally(stream, q, d, Len(stream))
      BY <1>1, <1>2, TallyGrows
<1>5. /\ Tally(stream, q, d, m) \in Nat
      /\ Tally(stream, q, d, Folded(Daily)) \in Nat
      /\ Tally(stream, q, d, Len(stream)) \in Nat
      BY <1>1, <1>2, OnDayFinite
<1>6. counts[d][q] \in Nat
      BY DEF TypeOK
<1>7. PICK t \in Nat, a \in Nat, aa \in Nat :
          /\ t = Tally(stream, q, d, Len(stream))
          /\ a = Tally(stream, q, d, Folded(Daily))
          /\ aa = Tally(stream, q, d, m)
      BY <1>5
<1>8. a <= counts[d][q] /\ counts[d][q] <= a + faults * t /\ aa <= a /\ a <= t
      BY <1>3, <1>4, <1>7 DEF CountOK
<1>9. aa <= counts[d][q] /\ counts[d][q] <= aa + (faults + 1) * t
  <2>1. PICK c \in Nat, ft \in Nat : c = counts[d][q] /\ ft = faults * t
        BY <1>1, <1>6, OncePer
  <2>2. (faults + 1) * t = ft + t
        BY <1>1, <2>1, OncePer
  <2> QED
      BY <1>8, <2>1, <2>2
<1> QED
    BY <1>7, <1>9 DEF CountOK

\* A batch applied up to k: to its end, or as far as a broken pipeline came.
LEMMA CountApplied ==
    ASSUME TypeOK, BatchInv, CountInv, stream' = stream, pc[Daily] = "apply",
           NEW k \in Nat, cursor[Daily] <= k, k <= Len(stream),
           ApplyEvents(Daily, UpTo(stream, cursor[Daily], k)),
           \/ faults' = faults /\ Folded(Daily)' = k
           \/ faults' = faults + 1 /\ Folded(Daily)' = cursor[Daily]
    PROVE  CountInv'
<1> DEFINE n == cursor[Daily]
<1>1. /\ n \in Nat /\ Len(stream) \in Nat /\ faults \in Nat /\ n <= Len(stream)
      /\ Folded(Daily) = n
      BY FoldedRange DEF TypeOK, Views, Daily, Folded
<1>2. counts' = [d \in Days |-> [q \in Players |-> counts[d][q]
                 + Cardinality({i \in UpTo(stream, n, k) : OnDayOf(i, q, d)})]]
      BY DEF ApplyEvents, Daily
<1>3. PICK m : m = Folded(Daily)'
      OBVIOUS
<1> HIDE DEF n
<1> SUFFICES ASSUME NEW d \in Days, NEW q \in Players
             PROVE  CountOK(stream, q, d, m, counts'[d][q], faults')
    BY <1>3 DEF CountInv, CountOK, Daily
<1>4. PICK T : T = {i \in UpTo(stream, n, k) : OnDayOf(i, q, d)}
      OBVIOUS
<1>5. T = Between(stream, q, d, n, k)
      BY <1>4 DEF UpTo, OnDayOf, Between
<1>6. n <= k
      BY DEF n
<1>7. /\ Cardinality(T) \in Nat
      /\ Tally(stream, q, d, k) = Tally(stream, q, d, n) + Cardinality(T)
      BY <1>1, <1>5, <1>6, TallyFold
<1>8. /\ Tally(stream, q, d, n) <= Tally(stream, q, d, Len(stream))
      /\ Tally(stream, q, d, k) <= Tally(stream, q, d, Len(stream))
      BY <1>1, TallyGrows
<1>9. PICK t \in Nat, a \in Nat, b \in Nat, add \in Nat, c \in Nat :
          /\ t = Tally(stream, q, d, Len(stream)) /\ a = Tally(stream, q, d, n)
          /\ b = Tally(stream, q, d, k) /\ add = Cardinality(T)
          /\ c = counts[d][q]
      BY <1>1, <1>7, OnDayFinite DEF TypeOK
<1>10. CountOK(stream, q, d, n, c, faults)
      BY <1>1, <1>9 DEF CountInv, CountOK, Daily
<1>11. a <= c /\ c <= a + faults * t
      BY <1>9, <1>10 DEF CountOK
<1>12. a <= t /\ b <= t /\ b = a + add
      BY <1>7, <1>8, <1>9
<1>13. counts'[d][q] = c + add
      BY <1>2, <1>4, <1>9
<1>14. CASE faults' = faults /\ Folded(Daily)' = k
  <2>1. b <= c + add /\ c + add <= b + faults * t
        BY <1>1, <1>11, <1>12, OncePer
  <2> QED
      BY <2>1, <1>3, <1>9, <1>13, <1>14 DEF CountOK
<1>15. CASE faults' = faults + 1 /\ Folded(Daily)' = cursor[Daily]
  <2>1. a <= c + add /\ c + add <= a + (faults + 1) * t
        BY <1>1, <1>11, <1>12, OncePer
  <2> QED
      BY <2>1, <1>3, <1>9, <1>13, <1>15 DEF CountOK, n
<1> QED
    BY <1>14, <1>15

LEMMA CountStep == TypeOK /\ BatchInv /\ CountInv /\ [Next]_vars => CountInv'
<1> SUFFICES ASSUME TypeOK, BatchInv, CountInv, [Next]_vars PROVE CountInv'
    OBVIOUS
<1> USE DEF durable
<1>0. /\ cursor[Daily] \in Nat /\ Daily \in Views
      /\ Folded(Daily) \in Nat /\ cursor[Daily] <= Folded(Daily)
      BY FoldedRange DEF TypeOK, Views, Daily
<1>1. ASSUME NEW p \in Players, NEW b \in Boards, NEW valid \in BOOLEAN,
             NEW clock \in Clocks, XAdd(p, b, valid, clock)
      PROVE  CountInv'
      BY <1>1, CountXAdd
<1>2. ASSUME NEW v \in Views, LoadCursor(v) \/ ReadNothing(v) \/ ReadBatch(v)
      PROVE  CountInv'
  <2>1. stream' = stream /\ counts' = counts /\ faults' = faults
        BY <1>2 DEF LoadCursor, ReadNothing, ReadBatch
  <2>2. Folded(Daily)' = Folded(Daily)
    <3>1. CASE LoadCursor(v)
          BY <3>1 DEF LoadCursor, Goto, Folded, TypeOK
    <3>2. CASE ReadNothing(v)
          BY <3>2 DEF ReadNothing, Goto, Folded, TypeOK
    <3>3. CASE ReadBatch(v)
          BY <3>3 DEF ReadBatch, Goto, Folded, TypeOK
    <3> QED
        BY <1>2, <3>1, <3>2, <3>3
  <2> QED
      BY <2>1, <2>2, CountKept
<1>3. ASSUME NEW v \in Views, SaveCursor(v) PROVE CountInv'
  <2>1. stream' = stream /\ counts' = counts /\ faults' = faults
        BY <1>3 DEF SaveCursor
  <2>2. Folded(Daily)' = Folded(Daily)
        BY <1>3 DEF SaveCursor, LastId, Goto, Folded, TypeOK
  <2> QED
      BY <2>1, <2>2, CountKept
<1>4. ASSUME NEW v \in Views, v # Daily, Apply(v) PROVE CountInv'
  <2>1. stream' = stream /\ counts' = counts /\ faults' = faults
        BY <1>4 DEF Apply, ApplyEvents, Daily
  <2>2. Folded(Daily)' = Folded(Daily)
        BY <1>4 DEF Apply, Goto, Folded, TypeOK
  <2> QED
      BY <2>1, <2>2, CountKept
<1>5. ASSUME Apply(Daily) PROVE CountInv'
  <2>1. PICK k \in Nat : /\ cursor[Daily] <= k /\ k <= Len(stream)
                         /\ k = batch[Daily].last
                         /\ ApplyEvents(Daily, UpTo(stream, cursor[Daily], k))
        BY <1>0, <1>5, Applied
  <2>2. stream' = stream /\ faults' = faults /\ pc[Daily] = "apply"
        BY <1>5 DEF Apply
  <2>3. Folded(Daily)' = k
        BY <1>0, <1>5, <2>1 DEF Apply, Goto, Folded, TypeOK
  <2> QED
      BY <2>1, <2>2, <2>3, CountApplied
<1>6. ASSUME NEW v \in Views,
             \/ FailCommand(v) \/ FailAfterSave(v)
             \/ v # Daily /\ (FailInPipeline(v) \/ ResendPipeline(v))
      PROVE  CountInv'
  <2>1. stream' = stream /\ faults' = faults + 1
        BY <1>6 DEF FailCommand, FailAfterSave, FailInPipeline, ResendPipeline, Abort
  <2>2. counts' = counts
        BY <1>6 DEF FailCommand, FailAfterSave, FailInPipeline, ResendPipeline,
                    ApplyPrefix, ApplyEvents, Daily
  <2>3. Folded(Daily)' \in Nat /\ Folded(Daily)' <= Folded(Daily)
    <3>1. CASE FailCommand(v)
          BY <1>0, <3>1 DEF FailCommand, Abort, Goto, Folded, TypeOK
    <3>2. CASE FailAfterSave(v)
          BY <1>0, <3>2 DEF FailAfterSave, LastId, Abort, Goto, Folded, TypeOK
    <3>3. CASE v # Daily /\ FailInPipeline(v)
          BY <1>0, <3>3 DEF FailInPipeline, Abort, Goto, Folded, TypeOK
    <3>4. CASE v # Daily /\ ResendPipeline(v)
          BY <1>0, <3>4 DEF ResendPipeline, Folded, TypeOK
    <3> QED
        BY <1>6, <3>1, <3>2, <3>3, <3>4
  <2> QED
      BY <2>1, <2>2, <2>3, CountAborted
<1>7. ASSUME FailInPipeline(Daily) \/ ResendPipeline(Daily) PROVE CountInv'
  <2>1. PICK k \in Nat : /\ cursor[Daily] <= k /\ k <= Len(stream)
                         /\ ApplyEvents(Daily, UpTo(stream, cursor[Daily], k))
        BY <1>0, <1>7, Applied DEF FailInPipeline, ResendPipeline
  <2>2. stream' = stream /\ faults' = faults + 1 /\ pc[Daily] = "apply"
        BY <1>7 DEF FailInPipeline, ResendPipeline, ApplyPrefix, Abort
  <2>3. Folded(Daily)' = cursor[Daily]
        BY <1>0, <1>7, <2>2 DEF FailInPipeline, ResendPipeline, Abort, Goto, Folded, TypeOK
  <2> QED
      BY <2>1, <2>2, <2>3, CountApplied
<1>8. ASSUME UNCHANGED vars PROVE CountInv'
  <2>1. /\ stream' = stream /\ counts' = counts /\ faults' = faults
        /\ Folded(Daily)' = Folded(Daily)
        BY <1>8 DEF vars, Folded
  <2> QED
      BY <2>1, CountKept
<1> QED
    BY <1>1, <1>2, <1>3, <1>4, <1>5, <1>6, <1>7, <1>8 DEF Next, ProcessOnce, Fault

-----------------------------------------------------------------------------
Indexer == "player_history"

\* A step that indexes nothing, and may forget that something was folded.
LEMMA IndexKept ==
    ASSUME TypeOK, BatchInv, IndexInv, stream' = stream, index' = index,
           Folded(Indexer)' \in Nat, Folded(Indexer)' <= Folded(Indexer)
    PROVE  IndexInv'
<1>1. Folded(Indexer) \in Nat /\ Len(stream) \in Nat
      BY FoldedRange DEF Views, Indexer
<1>2. PICK m \in Nat : m = Folded(Indexer)'
      OBVIOUS
<1> SUFFICES ASSUME NEW h \in Histories
             PROVE  \E n \in m..Len(stream) : index[h] = HistoryIn(stream, h, n)
    BY <1>2 DEF IndexInv, Indexer
<1>3. PICK n \in Folded(Indexer)..Len(stream) : index[h] = HistoryIn(stream, h, n)
      BY DEF IndexInv, Indexer
<1>4. n \in m..Len(stream)
      BY <1>1, <1>2, <1>3
<1> QED
    BY <1>3, <1>4

LEMMA IndexXAdd ==
    ASSUME TypeOK, BatchInv, IndexInv, NEW p \in Players, NEW b \in Boards,
           NEW valid \in BOOLEAN, NEW clock \in Clocks, XAdd(p, b, valid, clock)
    PROVE  IndexInv'
<1>1. PICK e : stream' = Append(stream, e)
      BY DEF XAdd
<1>2. index' = index /\ Folded(Indexer)' = Folded(Indexer)
      BY DEF XAdd, Folded
<1>3. /\ Folded(Indexer) \in Nat /\ Len(stream) \in Nat
      /\ stream \in Seq(Entry) /\ Len(stream') = Len(stream) + 1
      BY <1>1, FoldedRange DEF TypeOK, Views, Indexer
<1> SUFFICES ASSUME NEW h \in Histories
             PROVE  \E n \in Folded(Indexer)..Len(stream') :
                        index[h] = HistoryIn(stream', h, n)
    BY <1>2 DEF IndexInv, Indexer
<1>4. PICK n \in Folded(Indexer)..Len(stream) : index[h] = HistoryIn(stream, h, n)
      BY DEF IndexInv, Indexer
<1>5. \A i \in 1..n : stream'[i] = stream[i]
      BY <1>1, <1>3, <1>4
<1>6. HistoryIn(stream', h, n) = HistoryIn(stream, h, n)
      BY <1>5 DEF HistoryIn
<1>7. n \in Folded(Indexer)..Len(stream')
      BY <1>3, <1>4
<1> QED
    BY <1>4, <1>6, <1>7

\* A batch indexed up to k: the history reaches as far as k, or as it did when
\* an interrupted batch had come further before.
LEMMA IndexApplied ==
    ASSUME TypeOK, BatchInv, IndexInv, stream' = stream, pc[Indexer] = "apply",
           NEW k \in Nat, cursor[Indexer] <= k, k <= Len(stream),
           ApplyEvents(Indexer, UpTo(stream, cursor[Indexer], k)),
           Folded(Indexer)' = k \/ Folded(Indexer)' = cursor[Indexer]
    PROVE  IndexInv'
<1>1. PICK c \in Nat : c = cursor[Indexer]
      BY DEF TypeOK, Views, Indexer
<1>2. Folded(Indexer) = c /\ Len(stream) \in Nat
      BY <1>1 DEF Folded, TypeOK
<1>3. index' = [h \in Histories |->
                index[h] \cup {i \in UpTo(stream, c, k) : InHistory(i, h)}]
      BY <1>1 DEF ApplyEvents, Indexer
<1>4. PICK m \in {c, k} : m = Folded(Indexer)'
      BY <1>1
<1> SUFFICES ASSUME NEW h \in Histories
             PROVE  \E n \in m..Len(stream) : index'[h] = HistoryIn(stream, h, n)
    BY <1>4 DEF IndexInv, Indexer
<1>5. PICK n \in c..Len(stream) : index[h] = HistoryIn(stream, h, n)
      BY <1>2 DEF IndexInv, Indexer
<1>6. index'[h] = HistoryIn(stream, h, n) \cup {i \in UpTo(stream, c, k) : InHistory(i, h)}
      BY <1>3, <1>5
<1>7. CASE k <= n
  <2>1. index'[h] = HistoryIn(stream, h, n)
        BY <1>1, <1>2, <1>5, <1>6, <1>7 DEF HistoryIn, UpTo, InHistory
  <2>2. n \in m..Len(stream)
        BY <1>1, <1>2, <1>4, <1>5, <1>7
  <2> QED
      BY <2>1, <2>2
<1>8. CASE n < k
  <2>1. index'[h] = HistoryIn(stream, h, k)
        BY <1>1, <1>2, <1>5, <1>6, <1>8 DEF HistoryIn, UpTo, InHistory
  <2>2. k \in m..Len(stream)
        BY <1>1, <1>2, <1>4, <1>5, <1>8
  <2> QED
      BY <2>1, <2>2
<1> QED
    BY <1>1, <1>2, <1>5, <1>7, <1>8

LEMMA IndexStep == TypeOK /\ BatchInv /\ IndexInv /\ [Next]_vars => IndexInv'
<1> SUFFICES ASSUME TypeOK, BatchInv, IndexInv, [Next]_vars PROVE IndexInv'
    OBVIOUS
<1> USE DEF durable
<1>0. /\ cursor[Indexer] \in Nat /\ Indexer \in Views
      /\ Folded(Indexer) \in Nat /\ cursor[Indexer] <= Folded(Indexer)
      BY FoldedRange DEF TypeOK, Views, Indexer
<1>1. ASSUME NEW p \in Players, NEW b \in Boards, NEW valid \in BOOLEAN,
             NEW clock \in Clocks, XAdd(p, b, valid, clock)
      PROVE  IndexInv'
      BY <1>1, IndexXAdd
<1>2. ASSUME NEW v \in Views,
             \/ LoadCursor(v) \/ ReadNothing(v) \/ ReadBatch(v) \/ SaveCursor(v)
             \/ FailCommand(v) \/ FailAfterSave(v)
             \/ v # Indexer /\ (Apply(v) \/ FailInPipeline(v) \/ ResendPipeline(v))
      PROVE  IndexInv'
  <2>1. stream' = stream
        BY <1>2 DEF LoadCursor, ReadNothing, ReadBatch, SaveCursor, FailCommand,
                    FailAfterSave, Apply, FailInPipeline, ResendPipeline, Abort
  <2>2. index' = index
    <3>1. v # Indexer => v = "daily_activity"
          BY DEF Views, Indexer
    <3> QED
        BY <1>2, <3>1 DEF LoadCursor, ReadNothing, ReadBatch, SaveCursor, FailCommand,
               FailAfterSave, Apply, FailInPipeline, ResendPipeline, ApplyPrefix,
               ApplyEvents
  <2>3. Folded(Indexer)' \in Nat /\ Folded(Indexer)' <= Folded(Indexer)
    <3>1. CASE LoadCursor(v)
          BY <1>0, <3>1 DEF LoadCursor, Goto, Folded, TypeOK
    <3>2. CASE ReadNothing(v)
          BY <1>0, <3>2 DEF ReadNothing, Goto, Folded, TypeOK
    <3>3. CASE ReadBatch(v)
          BY <1>0, <3>3 DEF ReadBatch, Goto, Folded, TypeOK
    <3>4. CASE SaveCursor(v)
          BY <1>0, <3>4 DEF SaveCursor, LastId, Goto, Folded, TypeOK
    <3>5. CASE FailCommand(v)
          BY <1>0, <3>5 DEF FailCommand, Abort, Goto, Folded, TypeOK
    <3>6. CASE FailAfterSave(v)
          BY <1>0, <3>6 DEF FailAfterSave, LastId, Abort, Goto, Folded, TypeOK
    <3>7. CASE v # Indexer /\ Apply(v)
          BY <1>0, <3>7 DEF Apply, Goto, Folded, TypeOK
    <3>8. CASE v # Indexer /\ FailInPipeline(v)
          BY <1>0, <3>8 DEF FailInPipeline, Abort, Goto, Folded, TypeOK
    <3>9. CASE v # Indexer /\ ResendPipeline(v)
          BY <1>0, <3>9 DEF ResendPipeline, Folded, TypeOK
    <3> QED
        BY <1>2, <3>1, <3>2, <3>3, <3>4, <3>5, <3>6, <3>7, <3>8, <3>9
  <2> QED
      BY <2>1, <2>2, <2>3, IndexKept
<1>3. ASSUME Apply(Indexer) \/ FailInPipeline(Indexer) \/ ResendPipeline(Indexer)
      PROVE  IndexInv'
  <2>1. PICK k \in Nat : /\ cursor[Indexer] <= k /\ k <= Len(stream)
                         /\ Apply(Indexer) => k = batch[Indexer].last
                         /\ ApplyEvents(Indexer, UpTo(stream, cursor[Indexer], k))
        BY <1>0, <1>3, Applied DEF FailInPipeline, ResendPipeline
  <2>2. stream' = stream /\ pc[Indexer] = "apply"
        BY <1>3 DEF Apply, FailInPipeline, ResendPipeline, ApplyPrefix, Abort
  <2>3. Folded(Indexer)' = k \/ Folded(Indexer)' = cursor[Indexer]
    <3>1. CASE Apply(Indexer)
          BY <1>0, <2>1, <3>1 DEF Apply, Goto, Folded, TypeOK
    <3>2. CASE FailInPipeline(Indexer)
          BY <1>0, <3>2 DEF FailInPipeline, Abort, Goto, Folded, TypeOK
    <3>3. CASE ResendPipeline(Indexer)
          BY <1>0, <2>2, <3>3 DEF ResendPipeline, Folded, TypeOK
    <3> QED
        BY <1>3, <3>1, <3>2, <3>3
  <2> QED
      BY <2>1, <2>2, <2>3, IndexApplied
<1>4. ASSUME UNCHANGED vars PROVE IndexInv'
  <2>1. stream' = stream /\ index' = index /\ Folded(Indexer)' = Folded(Indexer)
        BY <1>4 DEF vars, Folded
  <2> QED
      BY <1>0, <2>1, IndexKept
<1> QED
    BY <1>1, <1>2, <1>3, <1>4 DEF Next, ProcessOnce, Fault

-----------------------------------------------------------------------------
ConsumerInv == TypeOK /\ BatchInv /\ CountInv /\ IndexInv

LEMMA ConsumerInvHolds == Spec => []ConsumerInv
<1>1. Init => ConsumerInv
  <2> SUFFICES ASSUME Init PROVE ConsumerInv
      OBVIOUS
  <2>1. TypeOK
        BY DEF Init, TypeOK, NoBatch, Batch, Days
  <2>2. BatchInv
        BY <2>1 DEF Init, BatchInv, TypeOK
  <2>3. /\ stream = << >> /\ faults = 0 /\ Len(stream) = 0
        /\ Folded("daily_activity") = 0 /\ Folded("player_history") = 0
        BY DEF Init, Folded, Views
  <2>4. CountInv
    <3>1. SUFFICES ASSUME NEW d \in Days, NEW p \in Players
                   PROVE  /\ counts[d][p] = 0 /\ Tally(stream, p, d, 0) = 0
          BY <2>3 DEF CountInv
    <3>2. OnDayIn(stream, p, d, 0) = {}
          BY DEF OnDayIn
    <3>3. Tally(stream, p, d, 0) = 0
          BY <3>2, FS_EmptySet DEF Tally
    <3> QED
        BY <3>3 DEF Init
  <2>5. IndexInv
    <3>1. SUFFICES ASSUME NEW h \in Histories
                   PROVE  index[h] = HistoryIn(stream, h, 0)
          BY <2>3 DEF IndexInv
    <3> QED
        BY DEF Init, HistoryIn
  <2> QED
      BY <2>1, <2>2, <2>4, <2>5 DEF ConsumerInv
<1>2. ConsumerInv /\ [Next]_vars => ConsumerInv'
      BY ConsumerTypes, BatchStep, CountStep, IndexStep DEF ConsumerInv
<1> QED
    BY <1>1, <1>2, PTL DEF Spec

\* Whatever fails and however often, no entry that a consumer's cursor has
\* passed is missing from the daily counts, and none is in them more often than
\* once and once more for every failure.
THEOREM NothingIsLost == Spec => []NeverLost
<1>1. ConsumerInv => NeverLost
  <2> SUFFICES ASSUME ConsumerInv, NEW d \in Days, NEW p \in Players
               PROVE  /\ counts[d][p] >= Cardinality(OnDay(p, d, cursor["daily_activity"]))
                      /\ counts[d][p] <= (1 + faults) * Cardinality(OnDay(p, d, Len(stream)))
      BY DEF NeverLost
  <2>1. \A n \in Nat : Cardinality(OnDay(p, d, n)) = Tally(stream, p, d, n)
        BY DEF OnDay, OnDayOf, Tally, OnDayIn
  <2>2. /\ cursor[Daily] \in Nat /\ Len(stream) \in Nat /\ faults \in Nat
        /\ Folded(Daily) \in Nat
        /\ cursor[Daily] <= Folded(Daily) /\ Folded(Daily) <= Len(stream)
        BY FoldedRange DEF ConsumerInv, TypeOK, Views, Daily
  <2>3. /\ Tally(stream, p, d, cursor[Daily]) <= Tally(stream, p, d, Folded(Daily))
        /\ Tally(stream, p, d, Folded(Daily)) <= Tally(stream, p, d, Len(stream))
        BY <2>2, TallyGrows
  <2>4. PICK c \in Nat, x \in Nat, a \in Nat, t \in Nat :
            /\ c = counts[d][p] /\ x = Tally(stream, p, d, cursor[Daily])
            /\ a = Tally(stream, p, d, Folded(Daily)) /\ t = Tally(stream, p, d, Len(stream))
        BY <2>2, OnDayFinite DEF ConsumerInv, TypeOK
  <2>5. c >= a /\ c <= a + faults * t
        BY <2>4 DEF ConsumerInv, CountInv, Daily
  <2>6. c >= x /\ c <= (1 + faults) * t
    <3>1. (faults + 1) * t = faults * t + t /\ faults * t \in Nat
          BY <2>2, OncePer
    <3>2. 1 + faults = faults + 1
          BY <2>2
    <3> QED
        BY <2>3, <2>4, <2>5, <3>1, <3>2
  <2> QED
      BY <2>1, <2>2, <2>4, <2>6 DEF Daily
<1> QED
    BY <1>1, ConsumerInvHolds, PTL

\* As long as nothing fails, the daily counts are exact.
THEOREM ExactWithoutFaults == Spec => []ExactUnlessFaulty
<1>1. ConsumerInv => ExactUnlessFaulty
  <2> SUFFICES ASSUME ConsumerInv, NEW d \in Days, NEW p \in Players,
                      faults = 0, pc["daily_activity"] # "save"
               PROVE  counts[d][p] = Cardinality(OnDay(p, d, cursor["daily_activity"]))
      BY DEF ExactUnlessFaulty
  <2>1. Folded(Daily) = cursor[Daily] /\ cursor[Daily] \in Nat /\ Len(stream) \in Nat
        BY DEF Folded, ConsumerInv, TypeOK, Views, Daily
  <2>2. Cardinality(OnDay(p, d, cursor[Daily])) = Tally(stream, p, d, cursor[Daily])
        BY DEF OnDay, OnDayOf, Tally, OnDayIn
  <2>3. PICK c \in Nat, x \in Nat, t \in Nat :
            /\ c = counts[d][p] /\ x = Tally(stream, p, d, cursor[Daily])
            /\ t = Tally(stream, p, d, Len(stream))
        BY <2>1, OnDayFinite DEF ConsumerInv, TypeOK
  <2>4. c >= x /\ c <= x + 0 * t
        BY <2>1, <2>3 DEF ConsumerInv, CountInv, Daily
  <2> QED
      BY <2>2, <2>3, <2>4 DEF Daily
<1> QED
    BY <1>1, ConsumerInvHolds, PTL

\* A player's history never has an entry while it lacks an earlier one.
THEOREM HistoryIsAPrefix == Spec => []HistoryHasNoHoles
<1>1. ConsumerInv => HistoryHasNoHoles
  <2> SUFFICES ASSUME ConsumerInv, NEW h \in Histories
               PROVE  \E n \in cursor["player_history"]..Len(stream) :
                          index[h] = History(h, n)
      BY DEF HistoryHasNoHoles
  <2>1. PICK n \in Folded(Indexer)..Len(stream) : index[h] = HistoryIn(stream, h, n)
        BY DEF ConsumerInv, IndexInv, Indexer
  <2>2. /\ cursor[Indexer] \in Nat /\ Len(stream) \in Nat /\ Folded(Indexer) \in Nat
        /\ cursor[Indexer] <= Folded(Indexer)
        BY FoldedRange DEF ConsumerInv, TypeOK, Views, Indexer
  <2>3. History(h, n) = HistoryIn(stream, h, n)
        BY DEF History, HistoryIn, InHistory
  <2>4. n \in cursor["player_history"]..Len(stream)
        BY <2>1, <2>2 DEF Indexer
  <2> QED
      BY <2>1, <2>3, <2>4
<1> QED
    BY <1>1, ConsumerInvHolds, PTL

\* No step moves a cursor back.
THEOREM CursorsAdvance == Spec => CursorAdvances
<1>1. ConsumerInv /\ [Next]_vars => [\A v \in Views : cursor'[v] >= cursor[v]]_cursor
  <2> SUFFICES ASSUME ConsumerInv, [Next]_vars, NEW w \in Views
               PROVE  cursor'[w] >= cursor[w]
      OBVIOUS
  <2>0. cursor[w] \in Nat
        BY DEF ConsumerInv, TypeOK
  <2>1. ASSUME NEW v \in Views, SaveCursor(v) \/ FailAfterSave(v)
        PROVE  cursor'[w] >= cursor[w]
    <3>1. cursor' = [cursor EXCEPT ![v] = batch[v].last] /\ pc[v] = "save"
          BY <2>1 DEF SaveCursor, FailAfterSave, LastId
    <3>2. cursor[v] < batch[v].last
          BY <3>1 DEF ConsumerInv, BatchInv
    <3> QED
        BY <2>0, <3>1, <3>2 DEF ConsumerInv, TypeOK, Batch
  <2>2. ASSUME cursor' = cursor
        PROVE  cursor'[w] >= cursor[w]
        BY <2>0, <2>2
  <2>3. \/ \E v \in Views : SaveCursor(v) \/ FailAfterSave(v)
        \/ cursor' = cursor
        BY DEF Next, ProcessOnce, Fault, XAdd, LoadCursor, ReadNothing, ReadBatch,
               Apply, FailCommand, FailInPipeline, ResendPipeline, durable, vars
  <2> QED
      BY <2>1, <2>2, <2>3
<1> QED
    BY <1>1, ConsumerInvHolds, PTL DEF Spec, CursorAdvances

-----------------------------------------------------------------------------
\* The order of ids: the later half of two decides where the first are equal.
Earlier(a, b) == a.ms < b.ms \/ (a.ms = b.ms /\ a.seq < b.seq)

\* XADD's ids increase, whatever the clock does.
IdsInv == \A i, j \in DOMAIN stream : i < j => Earlier(stream[i].id, stream[j].id)

LEMMA NextIdIsLater ==
    ASSUME TypeOK, IdsInv, NEW clock \in Clocks
    PROVE  /\ NextId(clock) \in EntryId
           /\ \A i \in DOMAIN stream : Earlier(stream[i].id, NextId(clock))
<1>1. clock \in Nat /\ Clocks \subseteq Nat
      BY LedgerConsumerAssumption
<1>2. \A i \in DOMAIN stream : stream[i].id \in EntryId
  <2>1. \A i \in DOMAIN stream : stream[i] \in Entry
        BY DEF TypeOK
  <2> QED
      BY <2>1 DEF Entry
<1>3. PICK n \in Nat : n = Len(stream) /\ DOMAIN stream = 1..n
      BY DEF TypeOK
<1>4. CASE stream # << >> /\ clock <= stream[n].id.ms
  <2>1. n \in DOMAIN stream
        BY <1>3, <1>4 DEF TypeOK
  <2>2. PICK a \in EntryId : a = stream[n].id
        BY <1>2, <2>1
  <2>3. NextId(clock) = [a EXCEPT !.seq = @ + 1]
        BY <1>3, <1>4, <2>2 DEF NextId
  <2>4. PICK m \in Nat, q \in Nat : m = a.ms /\ q = a.seq /\ m \in Clocks
        BY <1>1, <2>2 DEF EntryId
  <2>5. /\ NextId(clock) \in EntryId
        /\ NextId(clock).ms = m /\ NextId(clock).seq = q + 1
        BY <2>2, <2>3, <2>4 DEF EntryId
  <2>6. ASSUME NEW i \in DOMAIN stream PROVE Earlier(stream[i].id, NextId(clock))
    <3>1. i = n \/ i < n
          BY <1>3
    <3>2. PICK k \in Nat, r \in Nat : k = stream[i].id.ms /\ r = stream[i].id.seq
          BY <1>1, <1>2 DEF EntryId
    <3>3. i < n => k < m \/ (k = m /\ r < q)
          BY <2>1, <2>2, <2>4, <3>2 DEF IdsInv, Earlier
    <3>4. i = n => k = m /\ r = q
          BY <2>2, <2>4, <3>2
    <3>5. k < m \/ (k = m /\ r < q + 1)
          BY <2>4, <3>1, <3>2, <3>3, <3>4
    <3> QED
        BY <2>5, <3>2, <3>5 DEF Earlier
  <2> QED
      BY <2>5, <2>6
<1>5. CASE ~(stream # << >> /\ clock <= stream[n].id.ms)
  <2>1. NextId(clock) = [ms |-> clock, seq |-> 0]
        BY <1>3, <1>5 DEF NextId
  <2>2. /\ NextId(clock) \in EntryId
        /\ NextId(clock).ms = clock /\ NextId(clock).seq = 0
        BY <2>1 DEF EntryId
  <2>3. ASSUME NEW i \in DOMAIN stream PROVE Earlier(stream[i].id, NextId(clock))
    <3>1. n \in DOMAIN stream /\ stream # << >> /\ (i = n \/ i < n)
          BY <1>3 DEF TypeOK
    <3>2. PICK k \in Nat : k = stream[i].id.ms
          BY <1>1, <1>2 DEF EntryId
    <3>3. PICK m \in Nat : m = stream[n].id.ms
          BY <1>1, <1>2, <3>1 DEF EntryId
    <3>4. k <= m
          BY <3>1, <3>2, <3>3 DEF IdsInv, Earlier
    <3>5. m < clock
          BY <1>1, <1>5, <3>1, <3>3
    <3>6. k < clock
          BY <1>1, <3>2, <3>3, <3>4, <3>5
    <3> QED
        BY <2>2, <3>2, <3>6 DEF Earlier
  <2> QED
      BY <2>2, <2>3
<1> QED
    BY <1>3, <1>4, <1>5

LEMMA IdsStep == TypeOK /\ IdsInv /\ [Next]_vars => IdsInv'
<1> SUFFICES ASSUME TypeOK, IdsInv, [Next]_vars PROVE IdsInv'
    OBVIOUS
<1>1. ASSUME stream' = stream PROVE IdsInv'
      BY <1>1 DEF IdsInv
<1>2. ASSUME NEW p \in Players, NEW b \in Boards, NEW valid \in BOOLEAN,
             NEW clock \in Clocks, XAdd(p, b, valid, clock)
      PROVE  IdsInv'
  <2>1. PICK e : stream' = Append(stream, e) /\ e.id = NextId(clock)
        BY <1>2 DEF XAdd
  <2>2. PICK n \in Nat : n = Len(stream) /\ DOMAIN stream = 1..n
        BY DEF TypeOK
  <2>3. /\ Len(stream') = n + 1 /\ DOMAIN stream' = 1..(n + 1) /\ stream'[n + 1] = e
        /\ \A i \in 1..n : stream'[i] = stream[i]
        BY <2>1, <2>2 DEF TypeOK
  <2>4. ASSUME NEW i \in DOMAIN stream', NEW j \in DOMAIN stream', i < j
        PROVE  Earlier(stream'[i].id, stream'[j].id)
    <3>1. i \in 1..n /\ (j \in 1..n \/ j = n + 1)
          BY <2>2, <2>3, <2>4
    <3>2. CASE j \in 1..n
          BY <2>2, <2>3, <2>4, <3>1, <3>2 DEF IdsInv
    <3>3. CASE j = n + 1
          BY <2>1, <2>2, <2>3, <3>1, <3>3, NextIdIsLater
    <3> QED
        BY <3>1, <3>2, <3>3
  <2> QED
      BY <2>4 DEF IdsInv, Earlier
<1>3. \/ stream' = stream
      \/ \E p \in Players, b \in Boards, valid \in BOOLEAN, clock \in Clocks :
             XAdd(p, b, valid, clock)
      BY DEF Next, ProcessOnce, Fault, LoadCursor, ReadNothing, ReadBatch, Apply,
             SaveCursor, FailCommand, FailInPipeline, ResendPipeline, FailAfterSave,
             Abort, durable, vars
<1> QED
    BY <1>1, <1>2, <1>3
-----------------------------------------------------------------------------
\* Two index scores whose ids differ in the millisecond.
LEMMA ScoreGap ==
    ASSUME NEW m \in Nat, NEW n \in Nat, m < n, NEW s \in Nat \ {0},
           NEW x \in Nat, x < s, NEW y \in Nat
    PROVE  m * s + x < n * s + y /\ m * s \in Nat /\ n * s \in Nat
<1>1. PICK d \in Nat : n = (m + 1) + d
      BY n - (m + 1) \in Nat
<1>2. PICK ms \in Nat, ds \in Nat : ms = m * s /\ ds = d * s
      OBVIOUS
<1>3. n * s = (ms + s) + ds
      BY <1>1, <1>2
<1> QED
    BY <1>2, <1>3

\* Entry a is before entry b in ZRANGE REV, by their ids.
AfterId(a, b) ==
    \/ StreamIdScore(a) > StreamIdScore(b)
    \/ StreamIdScore(a) = StreamIdScore(b) /\ IdBefore(b, a)

\* The id's sequence number is as wide as the clamp, where it is clamped.
Fits(id) == id.seq >= SeqScale - 1 => Width(id.seq) = Width(SeqScale - 1)

\* ZRANGE REV puts the later of two ids first: where the scores differ, because
\* they are in order, and where the clamp has made them equal, because the ids
\* then are equally wide and their texts are in order.
LEMMA LaterIdFirst ==
    ASSUME NEW a \in EntryId, NEW b \in EntryId, Earlier(a, b), Fits(a), Fits(b)
    PROVE  AfterId(b, a) /\ ~AfterId(a, b)
<1>1. PICK am \in Nat, as \in Nat, bm \in Nat, bs \in Nat, S \in Nat \ {0} :
          /\ am = a.ms /\ as = a.seq /\ bm = b.ms /\ bs = b.seq
          /\ S = SeqScale
  <2>1. a.ms \in Nat /\ a.seq \in Nat /\ b.ms \in Nat /\ b.seq \in Nat
        BY LedgerConsumerAssumption DEF EntryId
  <2>2. SeqScale \in Nat \ {0}
        BY LedgerConsumerAssumption
  <2> QED
      BY <2>1, <2>2
<1>2. PICK x \in Nat, y \in Nat : x = Smaller(as, S - 1) /\ y = Smaller(bs, S - 1)
      BY <1>1 DEF Smaller
<1>3. StreamIdScore(a) = am * S + x /\ StreamIdScore(b) = bm * S + y
      BY <1>1, <1>2 DEF StreamIdScore
<1>4. x < S /\ y < S
      BY <1>1, <1>2 DEF Smaller
<1>5. CASE am < bm
  <2>1. am * S + x < bm * S + y /\ am * S \in Nat /\ bm * S \in Nat
        BY <1>1, <1>2, <1>4, <1>5, ScoreGap
  <2>2. PICK u \in Nat, w \in Nat : u = am * S /\ w = bm * S
        BY <2>1
  <2>3. StreamIdScore(a) = u + x /\ StreamIdScore(b) = w + y /\ u + x < w + y
        BY <1>3, <2>1, <2>2
  <2>4. ~(u + x > w + y) /\ u + x # w + y
        BY <2>2, <2>3
  <2> QED
      BY <2>3, <2>4 DEF AfterId
<1>6. CASE am = bm /\ as < bs
  <2>1. PICK c \in Nat : c = am * S
        BY <1>1
  <2>2. StreamIdScore(a) = c + x /\ StreamIdScore(b) = c + y
        BY <1>3, <1>6, <2>1
  <2>3. CASE x < y
    <3>1. c + x < c + y /\ c + x \in Nat /\ c + y \in Nat
          BY <2>3
    <3>2. ~(c + x > c + y) /\ c + x # c + y
          BY <2>3
    <3> QED
        BY <2>2, <3>1, <3>2 DEF AfterId
  <2>4. CASE ~(x < y)
    <3>1. x = y /\ as >= S - 1 /\ bs >= S - 1
          BY <1>1, <1>2, <1>4, <1>6, <2>4 DEF Smaller
    <3>2. Width(as) = Width(bs)
          BY <1>1, <3>1 DEF Fits
    <3>3. TextBefore(as, bs) /\ ~TextBefore(bs, as) /\ ~TextBefore(am, bm) /\ ~TextBefore(bm, am)
      <4> HIDE DEF Width
      <4> QED
          BY <1>1, <1>6, <3>2 DEF TextBefore
    <3>4. IdBefore(a, b) /\ ~IdBefore(b, a)
          BY <1>1, <1>6, <3>3 DEF IdBefore
    <3>5. StreamIdScore(a) = StreamIdScore(b) /\ StreamIdScore(a) \in Nat
      <4>1. c + x = c + y /\ c + x \in Nat
            BY <3>1
      <4> QED
          BY <2>2, <4>1
    <3> QED
        BY <3>4, <3>5 DEF AfterId
  <2> QED
      BY <2>3, <2>4
<1> QED
    BY <1>1, <1>5, <1>6 DEF Earlier

LEMMA NewerIsLater ==
    ASSUME TypeOK, IdsInv, NEW i \in DOMAIN stream, NEW j \in DOMAIN stream,
           Fits(stream[i].id), Fits(stream[j].id)
    PROVE  Newer(i, j) <=> i > j
<1>1. stream[i] \in Entry /\ stream[j] \in Entry
      BY DEF TypeOK
<1>2. PICK a \in EntryId, b \in EntryId : a = stream[i].id /\ b = stream[j].id
      BY <1>1 DEF Entry
<1>3. Newer(i, j) <=> AfterId(a, b)
      BY <1>2 DEF Newer, AfterId
<1>4. PICK n \in Nat : DOMAIN stream = 1..n
      BY DEF TypeOK
<1>5. CASE i < j
  <2>1. Earlier(a, b)
        BY <1>2, <1>5 DEF IdsInv
  <2> QED
      BY <1>2, <1>3, <1>4, <1>5, <2>1, LaterIdFirst
<1>6. CASE j < i
  <2>1. Earlier(b, a)
        BY <1>2, <1>6 DEF IdsInv
  <2> QED
      BY <1>2, <1>3, <1>4, <1>6, <2>1, LaterIdFirst
<1>7. CASE i = j
  <2>1. a = b
        BY <1>2, <1>7
  <2>2. PICK m \in Nat, q \in Nat, S \in Nat \ {0} : m = a.ms /\ q = a.seq /\ S = SeqScale
        BY LedgerConsumerAssumption DEF EntryId
  <2>3. StreamIdScore(a) \in Nat
        BY <2>2 DEF StreamIdScore, Smaller
  <2>4. ~TextBefore(m, m) /\ ~TextBefore(q, q)
        BY <2>2 DEF TextBefore
  <2>5. ~AfterId(a, a)
        BY <2>2, <2>3, <2>4 DEF AfterId, IdBefore
  <2> QED
      BY <1>3, <1>4, <1>7, <2>1, <2>5
<1> QED
    BY <1>4, <1>5, <1>6, <1>7

-----------------------------------------------------------------------------
\* A set of entries in descending order: there is one such sequence.
IsDescending(s, S) ==
    /\ s \in [1..Cardinality(S) -> S]
    /\ \A i, j \in DOMAIN s : i < j => s[i] > s[j]

LEMMA DescendingIsUnique ==
    ASSUME NEW S, S \subseteq Nat, IsFiniteSet(S)
    PROVE  /\ Cardinality(S) \in Nat
           /\ \E s : IsDescending(s, S)
           /\ \A s, t : IsDescending(s, S) /\ IsDescending(t, S) => s = t
           /\ \A s : IsDescending(s, S) => \A x \in S : \E i \in DOMAIN s : s[i] = x
<1> DEFINE R == {r \in S \X S : r[1] > r[2]}
<1>1. \A x, y \in S : <<x, y>> \in R <=> x > y
      OBVIOUS
<1> HIDE DEF R
<1>2. StrictlyOrders(R, S)
      BY <1>1 DEF StrictlyOrders
<1>3. \A s : IsDescending(s, S) <=> SortedBy(R, S, s)
      BY <1>1 DEF IsDescending, SortedBy
<1>4. Cardinality(S) \in Nat /\ \E s : IsDescending(s, S)
      BY <1>2, <1>3, SortExists, FS_CardinalityType
<1>5. ASSUME NEW s, NEW t, IsDescending(s, S), IsDescending(t, S) PROVE s = t
  <2>1. SortedBy(R, S, s) /\ SortedBy(R, S, t)
        BY <1>3, <1>5
  <2>2. /\ \A n \in 1..Cardinality(S) : s[n] \in S /\ RankIn(R, S, s[n]) = n
        /\ \A n \in 1..Cardinality(S) : t[n] \in S /\ RankIn(R, S, t[n]) = n
        BY <1>2, <2>1, SortedByRank
  <2>3. \A x, y \in S : RankIn(R, S, x) = RankIn(R, S, y) => x = y
        BY <1>2, RankIsBijection
  <2>4. ASSUME NEW n \in 1..Cardinality(S) PROVE s[n] = t[n]
    <3>1. s[n] \in S /\ t[n] \in S /\ RankIn(R, S, s[n]) = RankIn(R, S, t[n])
          BY <2>2
    <3> QED
        BY <2>3, <3>1
  <2>5. /\ s = [n \in 1..Cardinality(S) |-> s[n]]
        /\ t = [n \in 1..Cardinality(S) |-> t[n]]
        BY <1>5 DEF IsDescending
  <2> QED
      BY <2>4, <2>5
<1>6. ASSUME NEW s, IsDescending(s, S) PROVE \A x \in S : \E i \in DOMAIN s : s[i] = x
  <2>1. SortedBy(R, S, s) /\ DOMAIN s = 1..Cardinality(S)
        BY <1>3, <1>6 DEF IsDescending
  <2> QED
      BY <1>2, <2>1, SortedByRank
<1> QED
    BY <1>4, <1>5, <1>6

LEMMA PositionsAreFinite ==
    ASSUME TypeOK, NEW S, S \subseteq DOMAIN stream
    PROVE  IsFiniteSet(S) /\ S \subseteq Nat
<1>1. PICK n \in Nat : DOMAIN stream = 1..n
      BY DEF TypeOK
<1> QED
    BY <1>1, FS_Interval, FS_Subset

\* What ZRANGE REV lists is descending, where the sequence numbers fit.
LEMMA ReverseIsDescending ==
    ASSUME TypeOK, IdsInv, NEW S, S \subseteq DOMAIN stream, \A i \in S : Fits(stream[i].id)
    PROVE  IsDescending(InReverse(S), S)
<1>1. IsFiniteSet(S) /\ S \subseteq Nat
      BY PositionsAreFinite
<1>2. PICK s : IsDescending(s, S)
      BY <1>1, DescendingIsUnique
<1>3. ASSUME NEW t \in [1..Cardinality(S) -> S]
      PROVE  (\A i, j \in DOMAIN t : i < j => Newer(t[i], t[j])) <=> IsDescending(t, S)
  <2>1. \A i \in DOMAIN t : t[i] \in DOMAIN stream /\ Fits(stream[t[i]].id)
        BY <1>3
  <2>2. \A i, j \in DOMAIN t : Newer(t[i], t[j]) <=> t[i] > t[j]
        BY <2>1, NewerIsLater
  <2> QED
      BY <1>3, <2>2 DEF IsDescending
<1>4. s \in [1..Cardinality(S) -> S]
      BY <1>2 DEF IsDescending
<1>5. \E t \in [1..Cardinality(S) -> S] :
          \A i, j \in DOMAIN t : i < j => Newer(t[i], t[j])
      BY <1>2, <1>3, <1>4
<1>6. /\ InReverse(S) \in [1..Cardinality(S) -> S]
      /\ \A i, j \in DOMAIN InReverse(S) : i < j => Newer(InReverse(S)[i], InReverse(S)[j])
      BY <1>5 DEF InReverse
<1> QED
    BY <1>3, <1>6

\* The first entries of a descending sequence.
LEMMA FirstOfDescending ==
    ASSUME NEW S, NEW s, IsDescending(s, S), Cardinality(S) \in Nat,
           NEW m \in Nat, m <= Cardinality(S)
    PROVE  /\ SubSeq(s, 1, m) \in Seq(S) /\ Len(SubSeq(s, 1, m)) = m
           /\ DOMAIN SubSeq(s, 1, m) = 1..m
           /\ \A k \in 1..m : k \in DOMAIN s /\ SubSeq(s, 1, m)[k] = s[k]
<1>1. s \in Seq(S) /\ Len(s) = Cardinality(S) /\ DOMAIN s = 1..Cardinality(S)
      BY DEF IsDescending
<1> QED
    BY <1>1

OrderInv == ConsumerInv /\ IdsInv

LEMMA OrderInvHolds == Spec => []OrderInv
<1>1. Init => IdsInv
      BY DEF Init, IdsInv
<1>2. ConsumerInv /\ IdsInv /\ [Next]_vars => IdsInv'
      BY IdsStep DEF ConsumerInv
<1> QED
    BY <1>1, <1>2, ConsumerInvHolds, PTL DEF Spec, OrderInv

LEMMA IndexIsHistory ==
    ASSUME OrderInv, NEW h \in Histories
    PROVE  /\ \E n \in 0..Len(stream) : index[h] = History(h, n)
           /\ index[h] \subseteq History(h, Len(stream))
           /\ History(h, Len(stream)) \subseteq DOMAIN stream
<1>1. PICK n \in Folded(Indexer)..Len(stream) : index[h] = HistoryIn(stream, h, n)
      BY DEF OrderInv, ConsumerInv, IndexInv, Indexer
<1>2. Folded(Indexer) \in Nat /\ Len(stream) \in Nat /\ DOMAIN stream = 1..Len(stream)
      BY FoldedRange DEF OrderInv, ConsumerInv, TypeOK, Views, Indexer
<1>3. \A k \in Nat : HistoryIn(stream, h, k) = History(h, k)
      BY DEF History, HistoryIn, InHistory
<1>4. n \in 0..Len(stream) /\ n \in Nat
      BY <1>1, <1>2
<1>5. History(h, n) \subseteq History(h, Len(stream))
      BY <1>2, <1>4 DEF History
<1>6. History(h, Len(stream)) \subseteq DOMAIN stream
      BY <1>2 DEF History
<1> QED
    BY <1>1, <1>3, <1>4, <1>5, <1>6

\* A history page lists entries in the reverse order of the ledger, in a ledger
\* of any length: whatever Redis's clock does, ids increase, and where their
\* scores are clamped to the same number, the order of their texts is theirs, up
\* to the ten thousandth entry of a millisecond.
THEOREM PagesReadBackwards == Spec => []PagesAreNewestFirst
<1>1. OrderInv => PagesAreNewestFirst
  <2> SUFFICES ASSUME OrderInv, NEW h \in Histories,
                      SequencesFit(h),
                      NEW k \in 1..Len(PlayerHistory(h, MaxEntries)) - 1
               PROVE  PlayerHistory(h, MaxEntries)[k] > PlayerHistory(h, MaxEntries)[k+1]
      BY DEF PagesAreNewestFirst
  <2>1. index[h] \subseteq DOMAIN stream
        BY IndexIsHistory
  <2>2. IsFiniteSet(index[h]) /\ IsDescending(InReverse(index[h]), index[h])
        BY <2>1, PositionsAreFinite, ReverseIsDescending
           DEF OrderInv, ConsumerInv, SequencesFit, Fits
  <2>3. Cardinality(index[h]) \in Nat /\ MaxEntries \in Nat
        BY <2>2, FS_CardinalityType, LedgerConsumerAssumption DEF MaxEntries
  <2>4. PICK m \in Nat : m = Smaller(MaxEntries, Cardinality(index[h]))
                         /\ m <= Cardinality(index[h])
        BY <2>3 DEF Smaller
  <2>5. PICK s : s = InReverse(index[h]) /\ IsDescending(s, index[h])
        BY <2>2
  <2>6. PlayerHistory(h, MaxEntries) = SubSeq(s, 1, m)
        BY <2>4, <2>5 DEF PlayerHistory
  <2>7. /\ Len(SubSeq(s, 1, m)) = m
        /\ \A i \in 1..m : i \in DOMAIN s /\ SubSeq(s, 1, m)[i] = s[i]
        BY <2>3, <2>4, <2>5, FirstOfDescending
  <2>8. k \in 1..m /\ k + 1 \in 1..m /\ k < k + 1
        BY <2>6, <2>7
  <2>9. s[k] > s[k+1]
        BY <2>5, <2>7, <2>8 DEF IsDescending
  <2> QED
      BY <2>6, <2>7, <2>8, <2>9
<1> QED
    BY <1>1, OrderInvHolds, PTL

\* What a list of entries says, and its beginning.
LEMMA SaidFacts ==
    ASSUME TypeOK, NEW S, S \subseteq DOMAIN stream, NEW s \in Seq(S)
    PROVE  /\ Said(s) \in Seq(Range(Contents)) /\ Len(Said(s)) = Len(s)
           /\ \A k \in 1..Len(s) : Said(s)[k] = stream[s[k]].content
           /\ s # << >> => Head(Said(s)) = stream[s[1]].content
<1>1. PICK n \in Nat : n = Len(s) /\ DOMAIN s = 1..n /\ \A k \in 1..n : s[k] \in S
      BY DEF Said
<1>2. \A i \in DOMAIN stream : stream[i].content \in Range(Contents)
  <2>1. \A i \in DOMAIN stream : stream[i] \in Entry
        BY DEF TypeOK
  <2> QED
      BY <2>1 DEF Entry
<1>3. PICK f : f = Said(s)
      OBVIOUS
<1>4. f = [k \in 1..n |-> stream[s[k]].content]
      BY <1>1, <1>3 DEF Said
<1>5. PICK C : C = Range(Contents)
      OBVIOUS
<1>6. f \in [1..n -> C]
      BY <1>1, <1>2, <1>4, <1>5
<1>7. f \in Seq(C) /\ Len(f) = n /\ \A k \in 1..n : f[k] = stream[s[k]].content
      BY <1>1, <1>4, <1>6
<1>8. s # << >> => n >= 1
      BY <1>1
<1>9. s # << >> => Head(f) = f[1]
      BY <1>7, <1>8
<1> QED
    BY <1>1, <1>3, <1>5, <1>7, <1>8, <1>9

\* The beginning of what is said is what the beginning says.
LEMMA SaidPrefix ==
    ASSUME TypeOK, NEW S, S \subseteq DOMAIN stream, NEW s, IsDescending(s, S),
           Cardinality(S) \in Nat, NEW m \in Nat, m <= Cardinality(S)
    PROVE  Said(SubSeq(s, 1, m)) = SubSeq(Said(s), 1, m)
<1>1. s \in Seq(S) /\ Len(s) = Cardinality(S)
      BY DEF IsDescending
<1>2. PICK p : p = SubSeq(s, 1, m)
      OBVIOUS
<1>3. p \in Seq(S) /\ Len(p) = m /\ \A k \in 1..m : p[k] = s[k]
      BY <1>2, FirstOfDescending
<1>4. PICK C, f, g : C = Range(Contents) /\ f = Said(s) /\ g = Said(p)
      OBVIOUS
<1>5. /\ f \in Seq(C) /\ Len(f) = Cardinality(S)
      /\ \A k \in 1..Cardinality(S) : f[k] = stream[s[k]].content
      BY <1>1, <1>4, SaidFacts
<1>6. /\ g \in Seq(C) /\ Len(g) = m
      /\ \A k \in 1..m : g[k] = stream[p[k]].content
      BY <1>3, <1>4, SaidFacts
<1>7. \A k \in 1..m : g[k] = f[k]
      BY <1>3, <1>5, <1>6
<1>8. /\ SubSeq(f, 1, m) \in Seq(C) /\ Len(SubSeq(f, 1, m)) = m
      /\ \A k \in 1..m : SubSeq(f, 1, m)[k] = f[k]
      BY <1>5
<1>9. g = SubSeq(f, 1, m)
      BY <1>6, <1>7, <1>8
<1> QED
    BY <1>2, <1>4, <1>9

\* When the history script's wait is over, its page is everything it wrote,
\* provided that the head of what it wrote says something no earlier write says
\* or that all of it fits in a page, and that no millisecond has more entries
\* than text order can tell apart: the consumer may have failed anywhere.
THEOREM WaitingIsEnough == Spec => []WaitMeansIndexed
<1>1. OrderInv => WaitMeansIndexed
  <2> SUFFICES ASSUME OrderInv, NEW h \in Histories, WaitIsOver(h), HeadIsTelling(h),
                      SequencesFit(h)
               PROVE  index[h] = History(h, Len(stream)) /\ Verified(h)
      BY DEF WaitMeansIndexed
  <2> TypeOK /\ IdsInv
      BY DEF OrderInv, ConsumerInv
  <2>1. PICK W, I : W = History(h, Len(stream)) /\ I = index[h]
        OBVIOUS
  <2>2. I \subseteq W /\ W \subseteq DOMAIN stream /\ I \subseteq DOMAIN stream
        BY <2>1, IndexIsHistory
  <2>3. /\ IsFiniteSet(W) /\ IsFiniteSet(I) /\ W \subseteq Nat
        /\ IsDescending(InReverse(I), I)
        BY <2>1, <2>2, PositionsAreFinite, ReverseIsDescending DEF SequencesFit, Fits
  <2>4. PICK c \in Nat, d \in Nat : c = Cardinality(W) /\ d = Cardinality(I)
        BY <2>3, FS_CardinalityType
  <2>5. PICK w : w = Written(h) /\ IsDescending(w, W)
    <3>1. \E s \in [1..Cardinality(W) -> W] : \A i, j \in DOMAIN s : i < j => s[i] > s[j]
          BY <2>3, DescendingIsUnique DEF IsDescending
    <3> QED
        BY <2>1, <3>1 DEF Written, IsDescending
  <2>6. w \in Seq(W) /\ Len(w) = c /\ DOMAIN w = 1..c
        BY <2>4, <2>5 DEF IsDescending
  <2>7. PICK r : r = InReverse(I) /\ IsDescending(r, I) /\ DOMAIN r = 1..d
        BY <2>3, <2>4 DEF IsDescending
  <2>8. PICK m \in Nat : /\ m = Want(h) /\ m <= c
                         /\ c <= PageLimit => m = c
        BY <2>4, <2>5, <2>6, HistoryWaitAssumption DEF Want, Smaller
  <2>9. Page(h) = SubSeq(r, 1, Smaller(m, d))
        BY <2>1, <2>4, <2>7, <2>8 DEF Page, PlayerHistory
  <2>10. m <= d /\ Page(h) = SubSeq(r, 1, m) /\ m >= 1
    <3>1. PICK k \in Nat : k = Smaller(m, d) /\ k <= d
          BY DEF Smaller
    <3>2. SubSeq(r, 1, k) \in Seq(I) /\ Len(SubSeq(r, 1, k)) = k
          BY <2>4, <2>7, <3>1, FirstOfDescending
    <3>3. k = m /\ SubSeq(r, 1, k) # << >>
          BY <2>8, <2>9, <3>1, <3>2 DEF WaitIsOver
    <3> QED
        BY <2>9, <3>1, <3>2, <3>3
  <2>11. PICK p : p = SubSeq(r, 1, m) /\ p \in Seq(I) /\ p # << >> /\ p[1] = r[1]
                  /\ 1 \in DOMAIN r /\ r[1] \in I
    <3>1. /\ SubSeq(r, 1, m) \in Seq(I) /\ Len(SubSeq(r, 1, m)) = m
          /\ \A k \in 1..m : k \in DOMAIN r /\ SubSeq(r, 1, m)[k] = r[k]
          BY <2>4, <2>7, <2>10, FirstOfDescending
    <3>2. 1 \in 1..m
          BY <2>10
    <3> QED
        BY <2>7, <2>10, <3>1, <3>2 DEF IsDescending
  <2>12. Head(Said(p)) = stream[r[1]].content
        BY <2>2, <2>11, SaidFacts
  <2>13. /\ Len(Said(w)) = c /\ \A k \in 1..c : Said(w)[k] = stream[w[k]].content
         /\ Head(Said(w)) = stream[w[1]].content
    <3>1. w # << >>
          BY <2>6, <2>8, <2>10
    <3> QED
        BY <2>2, <2>6, <3>1, SaidFacts
  <2>14. I = W
    <3>1. CASE c <= PageLimit
      <4>1. d >= c
            BY <2>8, <2>10, <3>1
      <4>2. d <= c /\ (d = c => I = W)
            BY <2>2, <2>3, <2>4, FS_Subset
      <4> QED
          BY <4>1, <4>2
    <3>2. CASE ~(c <= PageLimit)
      <4>1. \A k \in 2..c : stream[w[k]].content # stream[w[1]].content
            BY <2>5, <2>6, <2>13, <3>2 DEF HeadIsTelling
      <4>2. stream[r[1]].content = stream[w[1]].content
            BY <2>5, <2>10, <2>11, <2>12, <2>13 DEF WaitIsOver
      <4>3. PICK k \in 1..c : w[k] = r[1]
            BY <2>2, <2>3, <2>5, <2>6, <2>11, DescendingIsUnique
      <4>4. w[1] = r[1]
            BY <4>1, <4>2, <4>3
      <4>5. PICK n \in 0..Len(stream) : I = History(h, n)
            BY <2>1, IndexIsHistory
      <4>6. w[1] \in Nat /\ w[1] <= n /\ n \in Nat
            BY <2>11, <4>4, <4>5 DEF History
      <4>7. ASSUME NEW x \in W PROVE x \in I
        <5>1. PICK j \in 1..c : w[j] = x
              BY <2>3, <2>5, <2>6, DescendingIsUnique
        <5>2. x <= w[1]
              BY <2>3, <2>5, <2>6, <4>6, <5>1 DEF IsDescending
        <5> QED
            BY <2>1, <4>5, <4>6, <5>2 DEF History
      <4> QED
          BY <2>2, <4>7
    <3> QED
        BY <3>1, <3>2
  <2>15. r = w
        BY <2>3, <2>5, <2>7, <2>14, DescendingIsUnique
  <2>16. Said(SubSeq(w, 1, m)) = SubSeq(Said(w), 1, m)
        BY <2>2, <2>4, <2>5, <2>8, SaidPrefix
  <2> QED
      BY <2>1, <2>5, <2>8, <2>10, <2>14, <2>15, <2>16 DEF Verified
<1> QED
    BY <1>1, OrderInvHolds, PTL
=============================================================================
