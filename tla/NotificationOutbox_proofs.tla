---------------------- MODULE NotificationOutbox_proofs ----------------------
(***************************************************************************)
(* Theorems about NotificationOutbox for any number of notifiers, any      *)
(* size of batch and any MAX_ATTEMPTS.                                     *)
(*                                                                         *)
(* A notifier holds a row as long as the row is in what remains of its     *)
(* batch.  Only a pending row is taken into a batch, so that, from the     *)
(* decision on a row on, each attempt takes one holder away and nobody     *)
(* becomes one: attempts, or recorded successes, plus holders never grow.  *)
(***************************************************************************)
EXTENDS NotificationOutbox, TLAPS, FiniteSetTheorems

-----------------------------------------------------------------------------
(* The inductive invariant *)

\* The row without the bound on its delay.
LooseRow == [status : {"pending", "sent", "failed", "deleted"},
             attempts : Nat, wait : Int]

Batches == [ids : SUBSET Nat, age : Nat]

RowsAndBatches ==
    /\ outbox \in Seq(LooseRow)
    /\ Len(outbox) <= MaxDeliveries
    /\ batch \in [Notifiers -> Batches \cup {None}]
    /\ \A n \in Notifiers : batch[n] # None => batch[n].ids \subseteq Ids
    /\ sent \in [1..MaxDeliveries -> Nat]

\* The notifiers that may still attempt the row.
Holders(d) == {n \in Notifiers : batch[n] # None /\ d \in batch[n].ids}

\* What is not decided yet: a waiting row has attempts left, a row that was
\* never queued has no success.
UndecidedIsFresh ==
    /\ \A d \in Ids : outbox[d].status = "pending" => outbox[d].attempts < MaxAttempts
    /\ \A d \in 1..MaxDeliveries : d \notin Ids => sent[d] = 0

\* Attempts and successes are paid with holders.
HoldersPay ==
    \A d \in Ids :
        /\ outbox[d].attempts + Cardinality(Holders(d))
             < MaxAttempts + Cardinality(Notifiers)
        /\ sent[d] + Cardinality(Holders(d)) <= Cardinality(Notifiers)

IInv ==
    /\ RowsAndBatches
    /\ UndecidedIsFresh
    /\ StatusIsTruthful
    /\ HoldersPay

-----------------------------------------------------------------------------
(* Operators *)

LEMMA MaxOfTwo ==
    ASSUME NEW a \in Int, NEW b \in Int
    PROVE  Max({a, b}) \in {a, b}
<1>1. \E x \in {a, b} : \A y \in {a, b} : x >= y
  OBVIOUS
<1> QED BY <1>1 DEF Max

LEMMA MinOfTwo ==
    ASSUME NEW a \in Int, NEW b \in Int
    PROVE  Min({a, b}) \in {a, b}
<1>1. \E x \in {a, b} : \A y \in {a, b} : x <= y
  OBVIOUS
<1> QED BY <1>1 DEF Min

LEMMA NotifiersAreFinite ==
    /\ IsFiniteSet(Notifiers)
    /\ Cardinality(Notifiers) \in Nat \ {0}
<1>1. IsFiniteSet(Notifiers)
  BY OutboxAssumption, FS_AddElement DEF Notifiers
<1>2. Notifiers # {}
  BY DEF Notifiers
<1> QED BY <1>1, <1>2, FS_CardinalityType, FS_EmptySet

\* What a failed attempt leaves of a row: counted, given up at the limit.
LEMMA FailureCounts ==
    ASSUME NEW row \in LooseRow, NEW age \in Nat
    PROVE  /\ AfterFailure(row, age) \in LooseRow
           /\ AfterFailure(row, age).attempts = row.attempts + 1
           /\ AfterFailure(row, age).status =
                IF row.attempts + 1 >= MaxAttempts THEN "failed" ELSE row.status
<1> DEFINE exponent == Max({0, (row.attempts + 1) - 1})
           factor == 2 ^ exponent
           delay == Max({0, Min({60, factor}) - age})
           tried == [row EXCEPT !.attempts = row.attempts + 1]
<1>1. delay \in Int
  <2>1. exponent \in Nat
    BY MaxOfTwo DEF LooseRow
  <2> HIDE DEF exponent
  <2>2. factor \in Int
    BY <2>1
  <2> HIDE DEF factor
  <2>3. Min({60, factor}) \in Int
    BY <2>2, MinOfTwo
  <2> QED BY <2>3, MaxOfTwo
<1>2. RetryDelay(row.attempts + 1) = Min({60, factor})
  BY DEF RetryDelay
<1>3. tried \in LooseRow /\ tried.attempts = row.attempts + 1 /\ tried.status = row.status
  BY DEF LooseRow
<1>4. AfterFailure(row, age) =
        IF tried.attempts >= MaxAttempts
        THEN [tried EXCEPT !.status = "failed"]
        ELSE [tried EXCEPT !.wait = delay]
  BY <1>2, <1>3 DEF AfterFailure, LooseRow
<1> HIDE DEF delay, tried
<1> QED BY <1>1, <1>3, <1>4 DEF LooseRow

\* The holders of a row are finitely many, and no more than the notifiers.
LEMMA HoldersAreFew ==
    ASSUME NEW d
    PROVE  /\ IsFiniteSet(Holders(d))
           /\ Cardinality(Holders(d)) \in Nat
           /\ Cardinality(Holders(d)) <= Cardinality(Notifiers)
<1>1. Holders(d) \in SUBSET Notifiers
  BY DEF Holders
<1> QED BY <1>1, NotifiersAreFinite, FS_Subset, FS_CardinalityType

\* Whoever takes some holders away and adds none lowers their number.
LEMMA FewerHolders ==
    ASSUME NEW d, Holders(d)' \subseteq Holders(d)
    PROVE  /\ Cardinality(Holders(d)') \in Nat
           /\ Cardinality(Holders(d)') <= Cardinality(Holders(d))
           /\ \A n \in Holders(d) : n \notin Holders(d)'
                => Cardinality(Holders(d)') < Cardinality(Holders(d))
<1>1. IsFiniteSet(Holders(d)) /\ Cardinality(Holders(d)) \in Nat
  BY HoldersAreFew
<1>2. /\ IsFiniteSet(Holders(d)')
      /\ Cardinality(Holders(d)') <= Cardinality(Holders(d))
      /\ Cardinality(Holders(d)) = Cardinality(Holders(d)') => Holders(d) = Holders(d)'
  BY <1>1, FS_Subset
<1>3. Cardinality(Holders(d)') \in Nat
  BY <1>2, FS_CardinalityType
<1> QED BY <1>1, <1>2, <1>3

-----------------------------------------------------------------------------
(* The invariant is inductive *)

LEMMA InitIInv == Init => IInv
<1> SUFFICES ASSUME Init PROVE IInv
  OBVIOUS
<1>1. Len(outbox) = 0 /\ Ids = {} /\ MaxDeliveries \in Nat
  BY OutboxAssumption DEF Init, Ids
<1>2. RowsAndBatches
  BY <1>1 DEF RowsAndBatches, Init, Batches
<1> QED BY <1>1, <1>2 DEF IInv, UndecidedIsFresh, StatusIsTruthful, HoldersPay, Init

LEMMA RowType ==
    ASSUME RowsAndBatches, NEW d \in Ids
    PROVE  /\ d \in 1..MaxDeliveries
           /\ outbox[d] \in LooseRow
           /\ outbox[d].attempts \in Nat
           /\ outbox[d].wait \in Int
           /\ sent[d] \in Nat
<1>1. outbox[d] \in LooseRow /\ d \in 1..MaxDeliveries
  BY OutboxAssumption DEF RowsAndBatches, Ids
<1> QED BY <1>1 DEF RowsAndBatches, LooseRow

\* A step that only takes holders away, and takes one away from each row that
\* it attempts, is paid.
LEMMA PaidStep ==
    ASSUME IInv, RowsAndBatches', Ids' = Ids,
           \A d \in Ids : Holders(d)' \subseteq Holders(d),
           \A d \in Ids :
              \/ outbox'[d].attempts = outbox[d].attempts /\ sent'[d] = sent[d]
              \/ /\ outbox'[d].attempts = outbox[d].attempts + 1
                 /\ sent'[d] = sent[d] \/ sent'[d] = sent[d] + 1
                 /\ \E n \in Holders(d) : n \notin Holders(d)'
    PROVE  HoldersPay'
<1> SUFFICES ASSUME NEW d \in Ids
             PROVE  /\ outbox'[d].attempts + Cardinality(Holders(d)')
                         < MaxAttempts + Cardinality(Notifiers)
                    /\ sent'[d] + Cardinality(Holders(d)') <= Cardinality(Notifiers)
  BY DEF HoldersPay
<1>1. /\ outbox[d].attempts \in Nat
      /\ sent[d] \in Nat
      /\ MaxAttempts \in Nat
      /\ Cardinality(Notifiers) \in Nat
  BY OutboxAssumption, NotifiersAreFinite, RowType DEF IInv
<1>2. /\ outbox[d].attempts + Cardinality(Holders(d))
           < MaxAttempts + Cardinality(Notifiers)
      /\ sent[d] + Cardinality(Holders(d)) <= Cardinality(Notifiers)
  BY DEF IInv, HoldersPay
<1>3. /\ Cardinality(Holders(d)) \in Nat
      /\ Cardinality(Holders(d)') \in Nat
      /\ Cardinality(Holders(d)') <= Cardinality(Holders(d))
      /\ (\E n \in Holders(d) : n \notin Holders(d)')
           => Cardinality(Holders(d)') < Cardinality(Holders(d))
  BY HoldersAreFew, FewerHolders
<1> QED BY <1>1, <1>2, <1>3

\* A notifier that has done with a row holds the rest of its batch only.
LEMMA TurnDropsOne ==
    ASSUME RowsAndBatches, NEW n \in Notifiers, NEW d \in Ids, Turn(n, d)
    PROVE  /\ batch' \in [Notifiers -> Batches \cup {None}]
           /\ \A m \in Notifiers : batch'[m] # None => batch'[m].ids \subseteq Ids
           /\ \A e \in Ids : Holders(e)' \subseteq Holders(e)
           /\ n \in Holders(d) /\ n \notin Holders(d)'
<1>1. batch[n] \in Batches /\ d \in batch[n].ids
  BY DEF Turn, Attempting, RowsAndBatches
<1>2. batch' = [batch EXCEPT ![n] = Rest(n, d)]
  BY DEF Turn
<1>3. CASE batch[n].ids = {d}
  <2>1. batch' = [batch EXCEPT ![n] = None]
    BY <1>2, <1>3 DEF Rest
  <2> QED BY <2>1, <1>1, NoneIsNoBatch DEF RowsAndBatches, Holders, Batches
<1>4. CASE batch[n].ids # {d}
  <2> DEFINE rest == [batch[n] EXCEPT !.ids = batch[n].ids \ {d}]
  <2>1. batch' = [batch EXCEPT ![n] = rest]
    BY <1>2, <1>4 DEF Rest
  <2>2. rest \in Batches /\ rest.ids = batch[n].ids \ {d}
    BY <1>1 DEF Batches
  <2> HIDE DEF rest
  <2>3. batch[n] # None /\ rest # None
    BY <1>1, <2>2, NoneIsNoBatch DEF Batches
  <2> QED BY <2>1, <2>2, <2>3, <1>1 DEF RowsAndBatches, Holders
<1> QED BY <1>3, <1>4

\* A notifier that dies forgets its batch.
LEMMA ForgottenBatch ==
    ASSUME RowsAndBatches, NEW n \in Notifiers, batch' = [batch EXCEPT ![n] = None]
    PROVE  /\ batch' \in [Notifiers -> Batches \cup {None}]
           /\ \A m \in Notifiers : batch'[m] # None => batch'[m].ids \subseteq Ids
           /\ \A e \in Ids : Holders(e)' \subseteq Holders(e)
BY NoneIsNoBatch DEF RowsAndBatches, Holders, Batches

LEMMA QueueStep == ASSUME IInv, Queue PROVE IInv'
<1> DEFINE l == Len(outbox) + 1
<1>1. /\ outbox \in Seq(LooseRow) /\ NewRow \in LooseRow
      /\ Len(outbox) < MaxDeliveries /\ MaxDeliveries \in Nat
      /\ outbox' = Append(outbox, NewRow)
      /\ batch' = batch /\ sent' = sent
  BY OutboxAssumption DEF IInv, RowsAndBatches, Queue, NewRow, LooseRow
<1>2. /\ outbox' \in Seq(LooseRow)
      /\ Len(outbox') <= MaxDeliveries
      /\ Ids' = Ids \cup {l} /\ l \notin Ids /\ l \in 1..MaxDeliveries
      /\ Ids \subseteq 1..MaxDeliveries
      /\ outbox'[l] = NewRow
      /\ \A d \in Ids : outbox'[d] = outbox[d]
  BY <1>1 DEF Ids
<1>3. RowsAndBatches'
  BY <1>1, <1>2 DEF IInv, RowsAndBatches
<1>4. sent[l] = 0
  BY <1>2 DEF IInv, UndecidedIsFresh
<1>5. UndecidedIsFresh' /\ StatusIsTruthful'
  <2>1. /\ outbox'[l].status = "pending" /\ outbox'[l].attempts < MaxAttempts
        /\ sent'[l] = 0
    BY <1>1, <1>2, <1>4, OutboxAssumption DEF NewRow
  <2> HIDE DEF l
  <2>2. UndecidedIsFresh'
    BY <2>1, <1>1, <1>2 DEF IInv, UndecidedIsFresh
  <2>3. StatusIsTruthful'
    BY <2>1, <1>1, <1>2 DEF IInv, StatusIsTruthful
  <2> QED BY <2>2, <2>3
<1>6. HoldersPay'
  <2>1. ASSUME NEW d PROVE Holders(d)' = Holders(d)
    BY <1>1 DEF Holders
  <2>2. Holders(l) = {}
    BY <1>2 DEF Holders, IInv, RowsAndBatches
  <2>3. /\ NewRow.attempts + Cardinality(Holders(l))
             < MaxAttempts + Cardinality(Notifiers)
        /\ sent[l] + Cardinality(Holders(l)) <= Cardinality(Notifiers)
    <3>1. Cardinality(Holders(l)) = 0
      BY <2>2, FS_EmptySet
    <3>2. NewRow.attempts = 0
      BY DEF NewRow
    <3> HIDE DEF l
    <3> QED BY <3>1, <3>2, <1>4, NotifiersAreFinite, OutboxAssumption
  <2> QED BY <2>1, <2>3, <1>1, <1>2 DEF HoldersPay, IInv
<1> QED BY <1>3, <1>5, <1>6 DEF IInv

LEMMA ReadBatchStep ==
    ASSUME IInv, NEW n \in Notifiers, ReadBatch(n) PROVE IInv'
<1> DEFINE read == [ids |-> Oldest(DueIds), age |-> 0]
<1>1. /\ outbox' = outbox /\ sent' = sent /\ Ids' = Ids
      /\ batch[n] = None
      /\ batch' = [batch EXCEPT ![n] = read]
  BY DEF ReadBatch, Ids
<1>2. Oldest(DueIds) \subseteq Ids /\ Ids \subseteq Nat
      /\ \A d \in Oldest(DueIds) : outbox[d].status = "pending"
  BY DEF Oldest, DueIds, Due, Ids, IInv, RowsAndBatches
<1>3. read \in Batches /\ read.ids = Oldest(DueIds)
  BY <1>2 DEF Batches
<1> HIDE DEF read
<1>4. RowsAndBatches'
  BY <1>1, <1>2, <1>3 DEF IInv, RowsAndBatches
<1>5. UndecidedIsFresh' /\ StatusIsTruthful'
  BY <1>1 DEF IInv, UndecidedIsFresh, StatusIsTruthful
<1>6. HoldersPay'
  <2> SUFFICES ASSUME NEW d \in Ids
               PROVE  /\ outbox[d].attempts + Cardinality(Holders(d)')
                           < MaxAttempts + Cardinality(Notifiers)
                      /\ sent[d] + Cardinality(Holders(d)') <= Cardinality(Notifiers)
    BY <1>1 DEF HoldersPay
  <2>1. CASE d \in Oldest(DueIds)
    <3>1. outbox[d].attempts < MaxAttempts /\ sent[d] = 0
      BY <2>1, <1>2 DEF IInv, UndecidedIsFresh, StatusIsTruthful
    <3>2. Holders(d)' \subseteq Notifiers
      BY DEF Holders
    <3>3. /\ Cardinality(Holders(d)') \in Nat
          /\ Cardinality(Holders(d)') <= Cardinality(Notifiers)
      BY <3>2, NotifiersAreFinite, FS_Subset, FS_CardinalityType
    <3>4. outbox[d].attempts \in Nat
      BY RowType DEF IInv
    <3> QED BY <3>1, <3>3, <3>4, NotifiersAreFinite, OutboxAssumption
  <2>2. CASE d \notin Oldest(DueIds)
    <3>1. Holders(d)' = Holders(d)
      BY <2>2, <1>1, <1>3 DEF Holders, IInv, RowsAndBatches
    <3> QED BY <3>1 DEF IInv, HoldersPay
  <2> QED BY <2>1, <2>2
<1> QED BY <1>4, <1>5, <1>6 DEF IInv

LEMMA DeliverStep ==
    ASSUME IInv, NEW n \in Notifiers, NEW d \in Ids, Deliver(n, d) PROVE IInv'
<1>1. /\ RowsAndBatches /\ Turn(n, d)
      /\ outbox \in Seq(LooseRow) /\ outbox[d] \in LooseRow
      /\ outbox' = [outbox EXCEPT ![d].status = "sent", ![d].attempts = @ + 1]
      /\ sent' = [sent EXCEPT ![d] = @ + 1]
      /\ d \in 1..MaxDeliveries
      /\ MaxDeliveries \in Nat
  BY OutboxAssumption DEF IInv, RowsAndBatches, Deliver, Ids
<1>2. /\ Ids' = Ids /\ Len(outbox') = Len(outbox)
      /\ outbox' \in Seq(LooseRow)
      /\ outbox'[d].status = "sent"
      /\ outbox'[d].attempts = outbox[d].attempts + 1
      /\ \A e \in Ids \ {d} : outbox'[e] = outbox[e]
  <2> DEFINE row == [outbox[d] EXCEPT !.status = "sent", !.attempts = outbox[d].attempts + 1]
  <2>1. /\ row \in LooseRow
        /\ row.status = "sent"
        /\ row.attempts = outbox[d].attempts + 1
    <3>1. outbox[d].attempts + 1 \in Nat /\ outbox[d] \in LooseRow
      BY <1>1, RowType
    <3> QED BY <3>1 DEF LooseRow
  <2>2. outbox' = [outbox EXCEPT ![d] = row]
    BY <1>1, RowType DEF LooseRow, Ids
  <2> HIDE DEF row
  <2> QED BY <2>1, <2>2, <1>1 DEF Ids
<1>3. /\ sent' \in [1..MaxDeliveries -> Nat]
      /\ sent'[d] = sent[d] + 1
      /\ \A e \in 1..MaxDeliveries : e # d => sent'[e] = sent[e]
  BY <1>1 DEF RowsAndBatches
<1>4. Ids \subseteq 1..MaxDeliveries
  BY <1>1 DEF RowsAndBatches, Ids
<1>5. RowsAndBatches'
  BY <1>1, <1>2, <1>3, TurnDropsOne DEF RowsAndBatches
<1>6. UndecidedIsFresh' /\ StatusIsTruthful'
  <2>1. sent[d] \in Nat
    BY <1>1 DEF RowsAndBatches
  <2>2. UndecidedIsFresh'
    BY <1>2, <1>3, <1>4 DEF IInv, UndecidedIsFresh
  <2>3. sent'[d] > 0 /\ outbox'[d].status = "sent"
    BY <2>1, <1>2, <1>3
  <2>4. ASSUME NEW e \in Ids, e # d
        PROVE  outbox'[e] = outbox[e] /\ sent'[e] = sent[e]
    BY <2>4, <1>2, <1>3, <1>4
  <2>5. StatusIsTruthful'
    BY <2>3, <2>4, <1>2 DEF IInv, StatusIsTruthful
  <2> QED BY <2>2, <2>5
<1>7. HoldersPay'
  BY <1>1, <1>2, <1>3, <1>4, <1>5, TurnDropsOne, PaidStep
<1> QED BY <1>5, <1>6, <1>7 DEF IInv

LEMMA FailStep ==
    ASSUME IInv, NEW n \in Notifiers, NEW d \in Ids, Fail(n, d) PROVE IInv'
<1> DEFINE after == AfterFailure(outbox[d], batch[n].age)
<1>1. /\ RowsAndBatches /\ Turn(n, d)
      /\ outbox \in Seq(LooseRow) /\ outbox[d] \in LooseRow
      /\ outbox' = [outbox EXCEPT ![d] = after]
      /\ sent' = sent
      /\ batch[n].age \in Nat
  BY DEF IInv, RowsAndBatches, Fail, Ids, Turn, Attempting, Batches
<1>2. /\ after \in LooseRow
      /\ after.attempts = outbox[d].attempts + 1
      /\ after.status = IF outbox[d].attempts + 1 >= MaxAttempts
                        THEN "failed" ELSE outbox[d].status
  BY <1>1, FailureCounts
<1> HIDE DEF after
<1>3. /\ Ids' = Ids /\ Len(outbox') = Len(outbox)
      /\ outbox' \in Seq(LooseRow)
      /\ outbox'[d] = after
      /\ \A e \in Ids \ {d} : outbox'[e] = outbox[e]
  BY <1>1, <1>2 DEF Ids
<1>4. RowsAndBatches'
  BY <1>1, <1>3, TurnDropsOne DEF RowsAndBatches
<1>5. UndecidedIsFresh' /\ StatusIsTruthful'
  <2>1. outbox[d].attempts \in Nat /\ MaxAttempts \in Nat
    BY <1>1, OutboxAssumption DEF LooseRow
  <2>2. CASE outbox[d].attempts + 1 >= MaxAttempts
    <3>1. after.status = "failed" /\ after.attempts >= MaxAttempts
      BY <2>2, <1>2
    <3> QED BY <3>1, <1>1, <1>3 DEF IInv, UndecidedIsFresh, StatusIsTruthful
  <2>3. CASE ~ (outbox[d].attempts + 1 >= MaxAttempts)
    <3>1. after.status = outbox[d].status /\ after.attempts < MaxAttempts
          /\ outbox[d].attempts < MaxAttempts
          /\ after.status # "failed"
      BY <2>1, <2>3, <1>2 DEF IInv, StatusIsTruthful
    <3> QED BY <3>1, <1>1, <1>3 DEF IInv, UndecidedIsFresh, StatusIsTruthful
  <2> QED BY <2>2, <2>3
<1>6. HoldersPay'
  BY <1>1, <1>2, <1>3, <1>4, TurnDropsOne, PaidStep
<1> QED BY <1>4, <1>5, <1>6 DEF IInv

\* A process that dies changes nothing of the rows.
LEMMA DeathStep ==
    ASSUME IInv, NEW n \in Notifiers, batch' = [batch EXCEPT ![n] = None],
           outbox' = outbox, sent' = sent
    PROVE  IInv'
<1>1. Ids' = Ids /\ RowsAndBatches
  BY DEF Ids, IInv
<1>2. RowsAndBatches'
  BY <1>1, ForgottenBatch DEF RowsAndBatches
<1>3. UndecidedIsFresh' /\ StatusIsTruthful'
  BY <1>1 DEF IInv, UndecidedIsFresh, StatusIsTruthful
<1>4. HoldersPay'
  BY <1>1, <1>2, ForgottenBatch, PaidStep
<1> QED BY <1>2, <1>3, <1>4 DEF IInv

LEMMA ResetStep == ASSUME IInv, Reset PROVE IInv'
<1>1. /\ RowsAndBatches /\ Watch \in Notifiers
      /\ outbox \in Seq(LooseRow)
      /\ outbox' = [d \in Ids |-> [outbox[d] EXCEPT !.status = "deleted"]]
      /\ batch' = [batch EXCEPT ![Watch] = None]
      /\ sent' = sent
  BY DEF IInv, RowsAndBatches, Reset, Notifiers
<1>2. /\ Ids' = Ids /\ Len(outbox') = Len(outbox)
      /\ outbox' \in Seq(LooseRow)
      /\ \A d \in Ids : /\ outbox'[d].status = "deleted"
                        /\ outbox'[d].attempts = outbox[d].attempts
  <2> DEFINE row(d) == [outbox[d] EXCEPT !.status = "deleted"]
  <2>1. ASSUME NEW d \in Ids
        PROVE  /\ row(d) \in LooseRow
               /\ row(d).status = "deleted"
               /\ row(d).attempts = outbox[d].attempts
    BY <1>1, RowType DEF LooseRow
  <2>2. outbox' = [d \in Ids |-> row(d)]
    BY <1>1
  <2> HIDE DEF row
  <2> QED BY <2>1, <2>2, <1>1 DEF Ids
<1>3. RowsAndBatches'
  BY <1>1, <1>2, ForgottenBatch DEF RowsAndBatches
<1>4. UndecidedIsFresh' /\ StatusIsTruthful'
  BY <1>1, <1>2 DEF IInv, UndecidedIsFresh, StatusIsTruthful
<1>5. HoldersPay'
  BY <1>1, <1>2, <1>3, ForgottenBatch, PaidStep
<1> QED BY <1>3, <1>4, <1>5 DEF IInv

LEMMA TickStep == ASSUME IInv, Tick PROVE IInv'
<1>1. /\ RowsAndBatches
      /\ outbox \in Seq(LooseRow)
      /\ outbox' = [d \in Ids |-> [outbox[d] EXCEPT !.wait = Max({0, outbox[d].wait - 1})]]
      /\ sent' = sent
  BY DEF IInv, RowsAndBatches, Tick
<1>2. ASSUME NEW d \in Ids
      PROVE  Max({0, outbox[d].wait - 1}) \in Int
  <2>1. outbox[d].wait - 1 \in Int
    BY <1>1, RowType
  <2> QED BY <2>1, MaxOfTwo
<1>3. /\ Ids' = Ids /\ Len(outbox') = Len(outbox)
      /\ outbox' \in Seq(LooseRow)
      /\ \A d \in Ids : /\ outbox'[d].status = outbox[d].status
                        /\ outbox'[d].attempts = outbox[d].attempts
  <2> DEFINE row(d) == [outbox[d] EXCEPT !.wait = Max({0, outbox[d].wait - 1})]
  <2>1. ASSUME NEW d \in Ids
        PROVE  /\ row(d) \in LooseRow
               /\ row(d).status = outbox[d].status
               /\ row(d).attempts = outbox[d].attempts
    BY <1>1, <1>2, RowType DEF LooseRow
  <2>2. outbox' = [d \in Ids |-> row(d)]
    BY <1>1
  <2> HIDE DEF row
  <2> QED BY <2>1, <2>2, <1>1 DEF Ids
<1>4. ASSUME NEW n \in Notifiers
      PROVE  /\ batch'[n] \in Batches \cup {None}
             /\ batch'[n] = None <=> batch[n] = None
             /\ batch[n] # None => batch'[n].ids = batch[n].ids
  <2>1. CASE batch[n] # None /\ batch[n].age < LongestDelay
    <3>1. batch'[n] = [batch[n] EXCEPT !.age = @ + 1] /\ batch[n] \in Batches
      BY <2>1, <1>1 DEF Tick, RowsAndBatches
    <3> QED BY <3>1, <2>1, NoneIsNoBatch DEF Batches
  <2>2. CASE ~ (batch[n] # None /\ batch[n].age < LongestDelay)
    <3>1. batch'[n] = batch[n]
      BY <2>2 DEF Tick
    <3> QED BY <3>1, <1>1 DEF RowsAndBatches
  <2> QED BY <2>1, <2>2
<1>5. batch' = [n \in Notifiers |-> batch'[n]]
  BY DEF Tick
<1>6. RowsAndBatches'
  BY <1>1, <1>3, <1>4, <1>5 DEF RowsAndBatches
<1>7. UndecidedIsFresh' /\ StatusIsTruthful'
  BY <1>1, <1>3 DEF IInv, UndecidedIsFresh, StatusIsTruthful
<1>8. HoldersPay'
  <2>1. ASSUME NEW d PROVE Holders(d)' = Holders(d)
    BY <1>4 DEF Holders
  <2> QED BY <2>1, <1>1, <1>3, <1>6, PaidStep
<1> QED BY <1>6, <1>7, <1>8 DEF IInv

LEMMA NextIInv == IInv /\ [Next]_vars => IInv'
<1> SUFFICES ASSUME IInv, [Next]_vars PROVE IInv'
  OBVIOUS
<1>1. CASE QueueAssignment
  BY <1>1, QueueStep DEF QueueAssignment
<1>2. ASSUME NEW author \in Users, NEW employee \in Users, NEW manager \in Users,
             QueueComment(author, employee, manager) \/ QueueReopening(author, manager)
      PROVE  IInv'
  BY <1>2, QueueStep DEF QueueComment, QueueReopening
<1>3. ASSUME NEW n \in Notifiers, ReadBatch(n) \/ Attempt(n) \/ Crash(n)
      PROVE  IInv'
  <2>1. CASE ReadBatch(n)
    BY <2>1, ReadBatchStep
  <2>2. ASSUME NEW d \in Ids, Deliver(n, d) PROVE IInv'
    BY <2>2, DeliverStep
  <2>3. ASSUME NEW d \in Ids, Fail(n, d) PROVE IInv'
    BY <2>3, FailStep
  <2>4. CASE CrashAfterMail(n)
    BY <2>4, DeathStep DEF CrashAfterMail
  <2>5. CASE CrashOnMissing(n)
    BY <2>5, DeathStep DEF CrashOnMissing
  <2>6. CASE Crash(n)
    BY <2>6, DeathStep DEF Crash
  <2> QED BY <1>3, <2>1, <2>2, <2>3, <2>4, <2>5, <2>6 DEF Attempt
<1>4. CASE Reset
  BY <1>4, ResetStep
<1>5. CASE Tick
  BY <1>5, TickStep
<1>6. CASE UNCHANGED vars
  BY <1>6 DEF vars, IInv, RowsAndBatches, UndecidedIsFresh, StatusIsTruthful,
              HoldersPay, Holders, Ids
<1> QED BY <1>1, <1>2, <1>3, <1>4, <1>5, <1>6 DEF Next

THEOREM Inductive == Spec => []IInv
BY InitIInv, NextIInv, PTL DEF Spec

-----------------------------------------------------------------------------
(* Theorems *)

\* Attempts are bounded for any number of notifiers: deliver_due_notifications
\* does not test the status of the row it locks, and still attempts it at most
\* MAX_ATTEMPTS times and once more by each other holder of a stale batch.
THEOREM AttemptsAlwaysBounded == Spec => []AttemptsBounded
<1>1. IInv => AttemptsBounded
  <2> SUFFICES ASSUME IInv, NEW d \in Ids
               PROVE  outbox[d].attempts < MaxAttempts + Cardinality(Notifiers)
    BY DEF AttemptsBounded
  <2>1. outbox[d].attempts \in Nat
    BY RowType DEF IInv
  <2> QED BY <2>1, HoldersAreFew, NotifiersAreFinite, OutboxAssumption DEF IInv, HoldersPay
<1> QED BY <1>1, Inductive, PTL

\* A recorded success ends a row: it is recorded again only by a notifier that
\* read its batch before, once each.
THEOREM RecordedOncePerNotifier == Spec => []RecordedAtMostOncePerNotifier
<1>1. IInv => RecordedAtMostOncePerNotifier
  <2> SUFFICES ASSUME IInv, NEW d \in Ids
               PROVE  sent[d] <= Cardinality(Notifiers)
    BY DEF RecordedAtMostOncePerNotifier
  <2>1. sent[d] \in Nat
    BY RowType DEF IInv
  <2> QED BY <2>1, HoldersAreFew, NotifiersAreFinite DEF IInv, HoldersPay
<1> QED BY <1>1, Inductive, PTL

\* The status of a row is what happened to it, whoever wrote it last.
THEOREM StatusTellsTheTruth == Spec => []StatusIsTruthful
<1>1. IInv => StatusIsTruthful
  BY DEF IInv
<1> QED BY <1>1, Inductive, PTL
=============================================================================
