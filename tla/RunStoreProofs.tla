--------------------------- MODULE RunStoreProofs ---------------------------
(***************************************************************************)
(* Safety of the run store, for any number of runs and workers, any lease  *)
(* terms, any backoffs and any length of the event stream.                 *)
(***************************************************************************)
EXTENDS RunStore, TLAPS

-----------------------------------------------------------------------------
(* The fold of the event stream: every accepted event leaves a well-formed *)
(* state, and what an accepted event may change.                           *)

\* The tables hold no edge out of a terminal status and no status is both.
LEMMA StatusTables ==
  /\ ActiveStatuses \cap TerminalStatuses = {}
  /\ \A from, to \in RunStatuses :
       <<from, to>> \in SuccessEdges \cup FailureEdges => from \in ActiveStatuses
  /\ "CREATED" \in ActiveStatuses
  /\ "ABSENT" \notin RunStatuses
  /\ "CANCELLED" \in TerminalStatuses
<1>1. ActiveStatuses \cap TerminalStatuses = {}
  BY DEF ActiveStatuses, TerminalStatuses
<1>2. \A from, to \in RunStatuses :
        <<from, to>> \in SuccessEdges \cup FailureEdges => from \in ActiveStatuses
  BY DEF ActiveStatuses, SuccessEdges, FailureEdges
<1>3. "CREATED" \in ActiveStatuses /\ "ABSENT" \notin RunStatuses /\ "CANCELLED" \in TerminalStatuses
  BY DEF ActiveStatuses, TerminalStatuses, RunStatuses
<1> QED
  BY <1>1, <1>2, <1>3

\* Before its first event a stream is well formed.
LEMMA EmptyStreamType == EmptyStream \in StreamState
BY StatusTables DEF EmptyStream, StreamState, RunStatuses

\* Every event advances the count and the time, and nothing else of its own.
LEMMA AfterFields ==
  ASSUME NEW s \in StreamState, NEW e, e.at \in Nat
  PROVE  /\ After(s, e) \in StreamState
         /\ After(s, e).count = s.count + 1
         /\ After(s, e).last = e.at
         /\ After(s, e).status = s.status
         /\ After(s, e).holder = s.holder
         /\ After(s, e).generation = s.generation
         /\ After(s, e).expires = s.expires
         /\ After(s, e).retries = s.retries
         /\ After(s, e).notBefore = s.notBefore
         /\ After(s, e).intact = s.intact
<1> DEFINE counted == [s EXCEPT !.count = s.count + 1]
<1>1. counted \in StreamState
  BY DEF StreamState
<1>2. [counted EXCEPT !.last = e.at] \in StreamState
  <2> HIDE DEF counted
  <2> QED BY <1>1 DEF StreamState
<1>3. After(s, e) = [counted EXCEPT !.last = e.at]
  BY DEF After
<1>4. After(s, e) \in StreamState
  BY <1>2, <1>3
<1> QED
  BY <1>4 DEF After, StreamState

\* A status event moves the status and drops the lease of a run that ends.
LEMMA AfterStatusFields ==
  ASSUME NEW s \in StreamState, NEW e, e.at \in Nat, NEW to \in RunStatuses
  PROVE  /\ AfterStatus(s, e, to) \in StreamState
         /\ AfterStatus(s, e, to).count = s.count + 1
         /\ AfterStatus(s, e, to).last = e.at
         /\ AfterStatus(s, e, to).status = to
         /\ to \in TerminalStatuses => AfterStatus(s, e, to).holder = NoWorker
         /\ to \notin TerminalStatuses => AfterStatus(s, e, to).holder = s.holder
         /\ AfterStatus(s, e, to).generation = s.generation
         /\ AfterStatus(s, e, to).expires = s.expires
         /\ AfterStatus(s, e, to).notBefore = s.notBefore
         /\ AfterStatus(s, e, to).intact = s.intact
<1> DEFINE a == After(s, e)
           holder == IF to \in TerminalStatuses THEN NoWorker ELSE s.holder
           moved == [a EXCEPT !.status = to]
<1>1. /\ a \in StreamState
      /\ a.count = s.count + 1 /\ a.last = e.at /\ a.generation = s.generation
      /\ a.expires = s.expires /\ a.notBefore = s.notBefore /\ a.intact = s.intact
  BY AfterFields
<1>2. AfterStatus(s, e, to) = [moved EXCEPT !.holder = holder]
  BY DEF AfterStatus
<1>3. holder \in Workers \cup {NoWorker}
  BY DEF StreamState
<1> HIDE DEF a, holder
<1>4. /\ moved \in StreamState
      /\ moved.status = to /\ moved.count = a.count /\ moved.last = a.last
      /\ moved.generation = a.generation /\ moved.expires = a.expires
      /\ moved.notBefore = a.notBefore /\ moved.intact = a.intact
  BY <1>1 DEF StreamState
<1> HIDE DEF moved
<1>5. /\ [moved EXCEPT !.holder = holder] \in StreamState
      /\ [moved EXCEPT !.holder = holder].holder = holder
  BY <1>3, <1>4 DEF StreamState
<1>6. /\ [moved EXCEPT !.holder = holder].status = moved.status
      /\ [moved EXCEPT !.holder = holder].count = moved.count
      /\ [moved EXCEPT !.holder = holder].last = moved.last
      /\ [moved EXCEPT !.holder = holder].generation = moved.generation
      /\ [moved EXCEPT !.holder = holder].expires = moved.expires
      /\ [moved EXCEPT !.holder = holder].notBefore = moved.notBefore
      /\ [moved EXCEPT !.holder = holder].intact = moved.intact
  BY <1>4 DEF StreamState
<1> QED
  BY <1>1, <1>2, <1>4, <1>5, <1>6 DEF holder

\* An acquired lease is recorded with its worker, generation and expiry.
LEMMA AfterAcquiredFields ==
  ASSUME NEW s \in StreamState, NEW e, e.at \in Nat,
         e.worker \in Workers, e.generation \in Nat, NEW expires \in Nat
  PROVE  /\ AfterAcquired(s, e, expires) \in StreamState
         /\ AfterAcquired(s, e, expires).count = s.count + 1
         /\ AfterAcquired(s, e, expires).last = e.at
         /\ AfterAcquired(s, e, expires).status = s.status
         /\ AfterAcquired(s, e, expires).holder = e.worker
         /\ AfterAcquired(s, e, expires).generation = e.generation
         /\ AfterAcquired(s, e, expires).expires = expires
         /\ AfterAcquired(s, e, expires).notBefore = s.notBefore
         /\ AfterAcquired(s, e, expires).intact = s.intact
<1> DEFINE a == After(s, e)
           held == [a EXCEPT !.holder = e.worker]
           numbered == [held EXCEPT !.generation = e.generation]
<1>1. AfterAcquired(s, e, expires) = [numbered EXCEPT !.expires = expires]
  BY DEF AfterAcquired
<1>2. a \in StreamState /\ a.count = s.count + 1 /\ a.last = e.at
      /\ a.status = s.status /\ a.holder = s.holder /\ a.generation = s.generation
      /\ a.expires = s.expires /\ a.notBefore = s.notBefore /\ a.intact = s.intact
  BY AfterFields
<1>0. e.worker \in Workers /\ e.generation \in Nat /\ expires \in Nat
  OBVIOUS
<1> HIDE DEF a
<1>3. held \in StreamState /\ held.holder = e.worker
      /\ held.count = a.count /\ held.last = a.last /\ held.status = a.status /\ held.generation = a.generation
      /\ held.expires = a.expires /\ held.notBefore = a.notBefore /\ held.intact = a.intact
  BY <1>2, <1>0, <1>2 DEF StreamState
<1> HIDE DEF held
<1>4. numbered \in StreamState /\ numbered.generation = e.generation
      /\ numbered.count = held.count /\ numbered.last = held.last /\ numbered.status = held.status /\ numbered.holder = held.holder
      /\ numbered.expires = held.expires /\ numbered.notBefore = held.notBefore /\ numbered.intact = held.intact
  BY <1>2, <1>0, <1>3 DEF StreamState
<1> HIDE DEF numbered
<1> QED
  BY <1>0, <1>1, <1>2, <1>3, <1>4 DEF StreamState

\* A renewal moves the expiry only.
LEMMA AfterRenewedFields ==
  ASSUME NEW s \in StreamState, NEW e, e.at \in Nat, NEW expires \in Nat
  PROVE  /\ AfterRenewed(s, e, expires) \in StreamState
         /\ AfterRenewed(s, e, expires).count = s.count + 1
         /\ AfterRenewed(s, e, expires).last = e.at
         /\ AfterRenewed(s, e, expires).status = s.status
         /\ AfterRenewed(s, e, expires).holder = s.holder
         /\ AfterRenewed(s, e, expires).generation = s.generation
         /\ AfterRenewed(s, e, expires).expires = expires
         /\ AfterRenewed(s, e, expires).notBefore = s.notBefore
         /\ AfterRenewed(s, e, expires).intact = s.intact
<1> DEFINE a == After(s, e)
<1>1. AfterRenewed(s, e, expires) = [a EXCEPT !.expires = expires]
  BY DEF AfterRenewed
<1>2. a \in StreamState /\ a.count = s.count + 1 /\ a.last = e.at
      /\ a.status = s.status /\ a.holder = s.holder /\ a.generation = s.generation
      /\ a.expires = s.expires /\ a.notBefore = s.notBefore /\ a.intact = s.intact
  BY AfterFields
<1>0. expires \in Nat
  OBVIOUS
<1> HIDE DEF a
<1> QED
  BY <1>0, <1>1, <1>2 DEF StreamState

\* The end of a lease leaves the stream without a holder.
LEMMA AfterLeaseEndFields ==
  ASSUME NEW s \in StreamState, NEW e, e.at \in Nat
  PROVE  /\ AfterLeaseEnd(s, e) \in StreamState
         /\ AfterLeaseEnd(s, e).count = s.count + 1
         /\ AfterLeaseEnd(s, e).last = e.at
         /\ AfterLeaseEnd(s, e).status = s.status
         /\ AfterLeaseEnd(s, e).holder = NoWorker
         /\ AfterLeaseEnd(s, e).generation = s.generation
         /\ AfterLeaseEnd(s, e).expires = s.expires
         /\ AfterLeaseEnd(s, e).notBefore = s.notBefore
         /\ AfterLeaseEnd(s, e).intact = s.intact
<1> DEFINE a == After(s, e)
<1>1. AfterLeaseEnd(s, e) = [a EXCEPT !.holder = NoWorker]
  BY DEF AfterLeaseEnd
<1>2. a \in StreamState /\ a.count = s.count + 1 /\ a.last = e.at
      /\ a.status = s.status /\ a.holder = s.holder /\ a.generation = s.generation
      /\ a.expires = s.expires /\ a.notBefore = s.notBefore /\ a.intact = s.intact
  BY AfterFields
<1>0. NoWorker \in Workers \cup {NoWorker}
  OBVIOUS
<1> HIDE DEF a
<1> QED
  BY <1>0, <1>1, <1>2 DEF StreamState

\* A retry counts its attempt, sets its backoff and leaves the lease.
LEMMA AfterRetryFields ==
  ASSUME NEW s \in StreamState, NEW e, e.at \in Nat,
         NEW operation \in RetryOperations, NEW attempt \in 1..MaxRetries
  PROVE  /\ AfterRetry(s, e, operation, attempt) \in StreamState
         /\ AfterRetry(s, e, operation, attempt).count = s.count + 1
         /\ AfterRetry(s, e, operation, attempt).last = e.at
         /\ AfterRetry(s, e, operation, attempt).status = s.status
         /\ AfterRetry(s, e, operation, attempt).holder = s.holder
         /\ AfterRetry(s, e, operation, attempt).generation = s.generation
         /\ AfterRetry(s, e, operation, attempt).notBefore = e.at + RetryDelay[attempt]
         /\ AfterRetry(s, e, operation, attempt).intact = s.intact
<1> DEFINE a == After(s, e)
           tried == [a EXCEPT !.retries[operation] = attempt]
           until == e.at + RetryDelay[attempt]
<1>1. AfterRetry(s, e, operation, attempt) = [tried EXCEPT !.notBefore = until]
  BY DEF AfterRetry
<1>2. a \in StreamState /\ a.count = s.count + 1 /\ a.last = e.at
      /\ a.status = s.status /\ a.holder = s.holder /\ a.generation = s.generation
      /\ a.intact = s.intact
  BY AfterFields
<1>3. attempt \in Nat /\ until \in Nat
  BY EventsAssumption DEF MaxRetries
<1> HIDE DEF a, until
<1>4. [a.retries EXCEPT ![operation] = attempt] \in [RetryOperations -> Nat]
  BY <1>2, <1>3 DEF StreamState
<1>5. tried = [a EXCEPT !.retries = [a.retries EXCEPT ![operation] = attempt]]
  BY <1>2 DEF StreamState
<1>6. tried \in StreamState
  BY <1>2, <1>4, <1>5 DEF StreamState
<1>7. /\ tried.count = a.count /\ tried.last = a.last /\ tried.status = a.status
      /\ tried.holder = a.holder /\ tried.generation = a.generation
      /\ tried.intact = a.intact
  BY <1>2, <1>5 DEF StreamState
<1> HIDE DEF tried
<1> QED
  BY <1>1, <1>2, <1>3, <1>6, <1>7 DEF StreamState, until

-----------------------------------------------------------------------------
(* What each update of a row does to its columns.                          *)

\* A claimed row has the claimer's lease under a new generation.
LEMMA ClaimedRowFields ==
  ASSUME NEW row \in Row, NEW w \in Workers, NEW expires \in Nat
  PROVE  /\ ClaimedRow(row, w, expires) \in Row
         /\ ClaimedRow(row, w, expires).status = row.status
         /\ ClaimedRow(row, w, expires).version = row.version + 1
         /\ ClaimedRow(row, w, expires).generation = row.generation + 1
         /\ ClaimedRow(row, w, expires).holder = w
         /\ ClaimedRow(row, w, expires).expires = expires
         /\ ClaimedRow(row, w, expires).nextAttempt = row.nextAttempt
         /\ ClaimedRow(row, w, expires).records = row.records
<1> DEFINE held == [row EXCEPT !.holder = w]
           numbered == [held EXCEPT !.generation = row.generation + 1]
           dated == [numbered EXCEPT !.expires = expires]
<1>1. ClaimedRow(row, w, expires) = [dated EXCEPT !.version = row.version + 1]
  BY DEF ClaimedRow
<1>2. /\ w \in Workers \cup {NoWorker} /\ expires \in Nat
      /\ row.generation + 1 \in Nat /\ row.version + 1 \in Nat
  BY DEF Row
<1>3. held \in Row /\ held.holder = w
      /\ held.status = row.status /\ held.version = row.version /\ held.generation = row.generation
      /\ held.expires = row.expires /\ held.nextAttempt = row.nextAttempt /\ held.records = row.records
  BY <1>2 DEF Row
<1> HIDE DEF held
<1>4. numbered \in Row /\ numbered.generation = row.generation + 1
      /\ numbered.status = held.status /\ numbered.version = held.version /\ numbered.holder = held.holder
      /\ numbered.expires = held.expires /\ numbered.nextAttempt = held.nextAttempt /\ numbered.records = held.records
  BY <1>2, <1>3 DEF Row
<1> HIDE DEF numbered
<1>5. dated \in Row /\ dated.expires = expires
      /\ dated.status = numbered.status /\ dated.version = numbered.version /\ dated.generation = numbered.generation
      /\ dated.holder = numbered.holder /\ dated.nextAttempt = numbered.nextAttempt /\ dated.records = numbered.records
  BY <1>2, <1>4 DEF Row
<1> HIDE DEF dated
<1> QED
  BY <1>1, <1>2, <1>3, <1>4, <1>5 DEF Row

\* A renewed row has its new expiry.
LEMMA RenewedRowFields ==
  ASSUME NEW row \in Row, NEW expires \in Nat
  PROVE  /\ RenewedRow(row, expires) \in Row
         /\ RenewedRow(row, expires).status = row.status
         /\ RenewedRow(row, expires).version = row.version + 1
         /\ RenewedRow(row, expires).generation = row.generation
         /\ RenewedRow(row, expires).holder = row.holder
         /\ RenewedRow(row, expires).expires = expires
         /\ RenewedRow(row, expires).nextAttempt = row.nextAttempt
         /\ RenewedRow(row, expires).records = row.records
<1> DEFINE dated == [row EXCEPT !.expires = expires]
<1>1. RenewedRow(row, expires) = [dated EXCEPT !.version = row.version + 1]
  BY DEF RenewedRow
<1>2. expires \in Nat /\ row.version + 1 \in Nat
  BY DEF Row
<1>3. dated \in Row /\ dated.expires = expires
      /\ dated.status = row.status /\ dated.version = row.version /\ dated.generation = row.generation
      /\ dated.holder = row.holder /\ dated.nextAttempt = row.nextAttempt /\ dated.records = row.records
  BY <1>2 DEF Row
<1> HIDE DEF dated
<1> QED
  BY <1>1, <1>2, <1>3 DEF Row

\* A released row has no lease and keeps its generation.
LEMMA WithoutLeaseFields ==
  ASSUME NEW row \in Row
  PROVE  /\ WithoutLease(row) \in Row
         /\ WithoutLease(row).status = row.status
         /\ WithoutLease(row).version = row.version + 1
         /\ WithoutLease(row).generation = row.generation
         /\ WithoutLease(row).holder = NoWorker
         /\ WithoutLease(row).expires = 0
         /\ WithoutLease(row).nextAttempt = row.nextAttempt
         /\ WithoutLease(row).records = row.records
<1> DEFINE freed == [row EXCEPT !.holder = NoWorker]
           undated == [freed EXCEPT !.expires = 0]
<1>1. WithoutLease(row) = [undated EXCEPT !.version = row.version + 1]
  BY DEF WithoutLease
<1>2. NoWorker \in Workers \cup {NoWorker} /\ row.version + 1 \in Nat
  BY DEF Row
<1>3. freed \in Row /\ freed.holder = NoWorker
      /\ freed.status = row.status /\ freed.version = row.version /\ freed.generation = row.generation
      /\ freed.expires = row.expires /\ freed.nextAttempt = row.nextAttempt /\ freed.records = row.records
  BY <1>2 DEF Row
<1> HIDE DEF freed
<1>4. undated \in Row /\ undated.expires = 0
      /\ undated.status = freed.status /\ undated.version = freed.version /\ undated.generation = freed.generation
      /\ undated.holder = freed.holder /\ undated.nextAttempt = freed.nextAttempt /\ undated.records = freed.records
  BY <1>2, <1>3 DEF Row
<1> HIDE DEF undated
<1> QED
  BY <1>1, <1>2, <1>3, <1>4 DEF Row

\* An append counts its record.
LEMMA AppendedRowFields ==
  ASSUME NEW row \in Row
  PROVE  /\ AppendedRow(row) \in Row
         /\ AppendedRow(row).status = row.status
         /\ AppendedRow(row).version = row.version + 1
         /\ AppendedRow(row).generation = row.generation
         /\ AppendedRow(row).holder = row.holder
         /\ AppendedRow(row).expires = row.expires
         /\ AppendedRow(row).nextAttempt = row.nextAttempt
         /\ AppendedRow(row).records = row.records + 1
<1> DEFINE counted == [row EXCEPT !.records = row.records + 1]
<1>1. AppendedRow(row) = [counted EXCEPT !.version = row.version + 1]
  BY DEF AppendedRow
<1>2. row.records + 1 \in Nat /\ row.version + 1 \in Nat
  BY DEF Row
<1>3. counted \in Row /\ counted.records = row.records + 1
      /\ counted.status = row.status /\ counted.version = row.version /\ counted.generation = row.generation
      /\ counted.holder = row.holder /\ counted.expires = row.expires /\ counted.nextAttempt = row.nextAttempt
  BY <1>2 DEF Row
<1> HIDE DEF counted
<1> QED
  BY <1>1, <1>2, <1>3 DEF Row

\* A row put off for a retry is released and due at the end of its backoff.
LEMMA PutOffRowFields ==
  ASSUME NEW row \in Row, NEW at \in Nat
  PROVE  /\ PutOffRow(row, at) \in Row
         /\ PutOffRow(row, at).status = row.status
         /\ PutOffRow(row, at).version = row.version + 1
         /\ PutOffRow(row, at).generation = row.generation
         /\ PutOffRow(row, at).holder = NoWorker
         /\ PutOffRow(row, at).expires = 0
         /\ PutOffRow(row, at).nextAttempt = at
         /\ PutOffRow(row, at).records = row.records
<1> DEFINE r0 == WithoutLease(row)
<1>1. PutOffRow(row, at) = [r0 EXCEPT !.nextAttempt = at]
  BY DEF PutOffRow
<1>2. at \in Nat
  OBVIOUS
<1>3. r0 \in Row /\ r0.status = row.status /\ r0.version = row.version + 1 /\ r0.generation = row.generation
      /\ r0.holder = NoWorker /\ r0.expires = 0 /\ r0.nextAttempt = row.nextAttempt /\ r0.records = row.records
  BY WithoutLeaseFields
<1> HIDE DEF r0
<1> QED
  BY <1>1, <1>2, <1>3 DEF Row

\* A moved row has its new status, and no lease if it ended.
LEMMA MovedRowFields ==
  ASSUME NEW row \in Row, NEW to \in RunStatuses
  PROVE  /\ MovedRow(row, to) \in Row
         /\ MovedRow(row, to).status = to
         /\ MovedRow(row, to).version = row.version + 1
         /\ MovedRow(row, to).generation = row.generation
         /\ MovedRow(row, to).nextAttempt = row.nextAttempt
         /\ MovedRow(row, to).records = row.records
         /\ to \in TerminalStatuses => MovedRow(row, to).holder = NoWorker
         /\ to \notin TerminalStatuses =>
              /\ MovedRow(row, to).holder = row.holder
              /\ MovedRow(row, to).expires = row.expires
<1>1. CASE to \in TerminalStatuses
  <2> DEFINE r0 == WithoutLease(row)
  <2>1. r0 \in Row /\ r0.version = row.version + 1 /\ r0.generation = row.generation
        /\ r0.holder = NoWorker /\ r0.nextAttempt = row.nextAttempt /\ r0.records = row.records
    BY WithoutLeaseFields
  <2>2. MovedRow(row, to) = [r0 EXCEPT !.status = to]
    BY <1>1 DEF MovedRow
  <2> HIDE DEF r0
  <2> QED
    BY <1>1, <2>1, <2>2 DEF Row
<1>2. CASE to \notin TerminalStatuses
  <2> DEFINE r1 == [row EXCEPT !.status = to]
  <2>1. r1 \in Row /\ r1.status = to /\ r1.version = row.version /\ r1.generation = row.generation
        /\ r1.holder = row.holder /\ r1.expires = row.expires
        /\ r1.nextAttempt = row.nextAttempt /\ r1.records = row.records
    BY DEF Row
  <2>2. MovedRow(row, to) = [r1 EXCEPT !.version = row.version + 1]
    BY <1>2 DEF MovedRow
  <2>3. row.version + 1 \in Nat
    BY DEF Row
  <2> HIDE DEF r1
  <2> QED
    BY <1>2, <2>1, <2>2, <2>3 DEF Row
<1> QED
  BY <1>1, <1>2

\* A new row is unclaimed and due when it is created.
LEMMA NewRowFields ==
  ASSUME NEW at \in Nat
  PROVE  /\ NewRow(at) \in Row /\ AbsentRow \in Row
         /\ NewRow(at).status = "CREATED" /\ NewRow(at).version = 0
         /\ NewRow(at).generation = 0 /\ NewRow(at).holder = NoWorker
         /\ NewRow(at).nextAttempt = at /\ NewRow(at).records = 0
<1> DEFINE r1 == [AbsentRow EXCEPT !.status = "CREATED"]
<1>1. /\ AbsentRow \in Row
      /\ AbsentRow.version = 0 /\ AbsentRow.generation = 0
      /\ AbsentRow.holder = NoWorker /\ AbsentRow.records = 0
  BY DEF AbsentRow, Row
<1>2. "CREATED" \in RunStatuses
  BY StatusTables DEF RunStatuses
<1>3. /\ r1 \in Row /\ r1.status = "CREATED" /\ r1.version = 0
      /\ r1.generation = 0 /\ r1.holder = NoWorker /\ r1.records = 0
  <2> HIDE DEF AbsentRow
  <2> QED BY <1>1, <1>2 DEF Row
<1>4. NewRow(at) = [r1 EXCEPT !.nextAttempt = at]
  BY DEF NewRow
<1> HIDE DEF r1
<1> QED
  BY <1>1, <1>3, <1>4 DEF Row

\* What a worker remembers of a row it was handed.
LEMMA GuardType == ASSUME NEW row \in Row PROVE GuardOf(row) \in Guard
BY DEF GuardOf, Guard, Row

-----------------------------------------------------------------------------
(* Types.                                                                  *)

\* The fields of a transaction under way, by its kind.
LEMMA TxnFields ==
  ASSUME TypeOK, NEW w \in Workers
  PROVE  /\ txn[w].op = "claim" =>
              txn[w].run \in Runs /\ txn[w].term \in LeaseTerms
         /\ txn[w].op = "transition" =>
              /\ txn[w].run \in Runs /\ txn[w].event \in EventBase
              /\ txn[w].from \in RunStatuses /\ txn[w].to \in RunStatuses
              /\ txn[w].version \in Nat /\ txn[w].records \in Nat
         /\ txn[w].op = "retry" =>
              /\ txn[w].run \in Runs /\ txn[w].event \in EventBase
              /\ txn[w].operation \in RetryOperations /\ txn[w].attempt \in Nat
<1>1. txn[w] \in Txn
  BY DEF TypeOK
<1>2. CASE txn[w] = NoTxn
  BY <1>2 DEF NoTxn
<1>3. CASE txn[w] \in ClaimTxn
  BY <1>3 DEF ClaimTxn
<1>4. CASE txn[w] \in TransitionTxn
  BY <1>4 DEF TransitionTxn
<1>5. CASE txn[w] \in RetryTxn
  BY <1>5 DEF RetryTxn
<1> QED
  BY <1>1, <1>2, <1>3, <1>4, <1>5 DEF Txn

\* The event a worker proposes from its guard.
LEMMA LeaseEventType ==
  ASSUME TypeOK, NEW w \in Workers, NEW r \in Runs
  PROVE  /\ LeaseEvent(w, r) \in EventBase
         /\ LeaseEvent(w, r).worker = w
         /\ LeaseEvent(w, r).generation = view[w][r].generation
         /\ LeaseEvent(w, r).at = clock
         /\ LeaseEvent(w, r).sequence = streams[r].count
BY DEF LeaseEvent, EventBase, TypeOK, Guard, StreamState

\* Writing off a stale lease leaves a well-formed stream without a holder.
LEMMA VacatedFields ==
  ASSUME TypeOK, RowMatchesStream, NEW r \in Runs
  PROVE  /\ Vacated(r) \in StreamState
         /\ Vacated(r).holder = NoWorker \/ runs[r].status = "ABSENT"
         /\ Vacated(r).status = streams[r].status
         /\ Vacated(r).count >= streams[r].count
         /\ Vacated(r).generation = streams[r].generation
         /\ Vacated(r).notBefore = streams[r].notBefore
         /\ Vacated(r).intact = streams[r].intact
<1>1. streams[r] \in StreamState /\ clock \in Nat /\ streams[r].count \in Nat
  BY DEF TypeOK, StreamState
<1>2. CASE runs[r].holder = NoWorker
  BY <1>1, <1>2 DEF Vacated, RowMatchesStream
<1>3. CASE runs[r].holder # NoWorker
  <2>1. ExpiryEvent(r).at \in Nat
    BY <1>1 DEF ExpiryEvent
  <2>2. Vacated(r) = AfterLeaseEnd(streams[r], ExpiryEvent(r))
    BY <1>3 DEF Vacated
  <2> QED
    BY <1>1, <2>1, <2>2, AfterLeaseEndFields
<1> QED
  BY <1>2, <1>3

\* The initial state has its types.
LEMMA InitTyped == Init => TypeOK
<1> SUFFICES ASSUME Init PROVE TypeOK
  OBVIOUS
<1>1. AbsentRow \in Row /\ EmptyStream \in StreamState
  BY NewRowFields, EmptyStreamType
<1>2. NoGuard \in Guard /\ NoTxn \in Txn
  BY DEF NoGuard, Guard, Txn
<1> QED
  BY <1>1, <1>2 DEF Init, TypeOK

\* Every step keeps the types: one case per action, and under it the types of
\* what the action writes.
LEMMA NextTyped ==
  ASSUME TypeOK, RowMatchesStream, [Next]_vars
  PROVE  TypeOK'
<1> USE DEF TypeOK
<1>1. /\ clock \in Nat /\ NoTxn \in Txn /\ NoGuard \in Guard
      /\ \A r \in Runs : runs[r] \in Row /\ streams[r] \in StreamState
      /\ \A w \in Workers : view[w] \in [Runs -> Guard] /\ txn[w] \in Txn
  BY DEF NoGuard, Guard, Txn
<1>2. ASSUME NEW r \in Runs, CreateRun(r) PROVE TypeOK'
  BY <1>1, <1>2, NewRowFields DEF CreateRun
<1>3. ASSUME NEW w \in Workers, SelectDue(w) PROVE TypeOK'
  <2>1. PICK r \in Selectable, term \in LeaseTerms :
          txn' = [txn EXCEPT ![w] = [op |-> "claim", run |-> r, term |-> term]]
    BY <1>3 DEF SelectDue
  <2>2. [op |-> "claim", run |-> r, term |-> term] \in Txn
    BY <2>1 DEF Selectable, Txn, ClaimTxn
  <2> QED
    BY <1>1, <1>3, <2>1, <2>2 DEF SelectDue
<1>4. ASSUME NEW w \in Workers, ClaimDue(w) PROVE TypeOK'
  <2> DEFINE r == txn[w].run
             expires == clock + txn[w].term
             row == ClaimedRow(runs[r], w, expires)
             s == AfterAcquired(Vacated(r), AcquiredEvent(w, r), expires)
  <2>1. r \in Runs /\ expires \in Nat
    <3>1. txn[w].op = "claim"
      BY <1>4 DEF ClaimDue
    <3>2. txn[w].run \in Runs /\ txn[w].term \in LeaseTerms
      BY <3>1, TxnFields
    <3>3. txn[w].term \in Nat
      BY <3>2, StoreAssumption
    <3> QED
      BY <1>1, <3>2, <3>3
  <2>2. row \in Row
    BY <1>1, <2>1, ClaimedRowFields
  <2>3. s \in StreamState
    <3>1. Vacated(r) \in StreamState
      BY <2>1, VacatedFields
    <3>2. /\ AcquiredEvent(w, r).at \in Nat /\ AcquiredEvent(w, r).worker \in Workers
          /\ AcquiredEvent(w, r).generation \in Nat
      BY <1>1, <2>1 DEF AcquiredEvent, Row
    <3> HIDE DEF expires, r
    <3> QED
      BY <2>1, <3>1, <3>2, AfterAcquiredFields
  <2>4. GuardOf(row) \in Guard
    BY <2>2, GuardType
  <2>5. /\ runs' = [runs EXCEPT ![r] = row] /\ streams' = [streams EXCEPT ![r] = s]
        /\ view' = [view EXCEPT ![w][r] = GuardOf(row)]
        /\ txn' = [txn EXCEPT ![w] = NoTxn] /\ clock' = clock
    BY <1>4 DEF ClaimDue
  <2> HIDE DEF r, expires, row, s
  <2> QED
    BY <1>1, <2>1, <2>2, <2>3, <2>4, <2>5
<1>5. ASSUME NEW w \in Workers, NEW r \in Runs, RenewLease(w, r) PROVE TypeOK'
  <2> DEFINE e == LeaseEvent(w, r)
             row(x) == RenewedRow(runs[r], x)
  <2>1. PICK term \in LeaseTerms :
          LET expires == LaterOf(clock, runs[r].expires) + term
          IN /\ runs' = [runs EXCEPT ![r] = row(expires)]
             /\ streams' = [streams EXCEPT ![r] = AfterRenewed(streams[r], e, expires)]
             /\ view' = [view EXCEPT ![w][r] = GuardOf(row(expires))]
             /\ UNCHANGED <<clock, txn>>
    BY <1>5 DEF RenewLease
  <2> DEFINE expires == LaterOf(clock, runs[r].expires) + term
  <2>2. expires \in Nat
    BY <1>1, StoreAssumption DEF LaterOf, Row
  <2>3. e \in EventBase /\ e.at \in Nat
    BY LeaseEventType, <1>1
  <2> HIDE DEF expires, e
  <2>4. row(expires) \in Row /\ AfterRenewed(streams[r], e, expires) \in StreamState
    BY <1>1, <2>2, <2>3, RenewedRowFields, AfterRenewedFields
  <2>5. GuardOf(row(expires)) \in Guard
    BY <2>4, GuardType
  <2> HIDE DEF row
  <2> QED
    BY <1>1, <2>1, <2>4, <2>5 DEF expires
<1>6. ASSUME NEW w \in Workers, NEW r \in Runs, ReleaseLease(w, r) PROVE TypeOK'
  <2>1. LeaseEvent(w, r).at \in Nat
    BY <1>1, LeaseEventType
  <2>2. /\ WithoutLease(runs[r]) \in Row
        /\ AfterLeaseEnd(streams[r], LeaseEvent(w, r)) \in StreamState
    BY <1>1, <2>1, WithoutLeaseFields, AfterLeaseEndFields
  <2> QED
    BY <1>1, <1>6, <2>2 DEF ReleaseLease
<1>7. ASSUME NEW w \in Workers, NEW r \in Runs, AppendPositioned(w, r) PROVE TypeOK'
  <2>1. AppendedRow(runs[r]) \in Row
    BY <1>1, AppendedRowFields
  <2>2. GuardOf(AppendedRow(runs[r])) \in Guard
    BY <2>1, GuardType
  <2> QED
    BY <1>1, <1>7, <2>1, <2>2 DEF AppendPositioned
<1>8. ASSUME NEW w \in Workers, NEW r \in Runs, Snapshot(w, r) PROVE TypeOK'
  BY <1>1, <1>8, GuardType DEF Snapshot
<1>9. ASSUME NEW w \in Workers, NEW r \in Runs, NEW to \in RunStatuses,
             AuthorizeTransition(w, r, to)
      PROVE  TypeOK'
  <2> DEFINE t == [op |-> "transition", run |-> r, event |-> LeaseEvent(w, r),
                   from |-> streams[r].status, to |-> to,
                   version |-> view[w][r].version, records |-> view[w][r].records]
  <2>1. /\ streams[r].status \in RunStatuses /\ LeaseEvent(w, r) \in EventBase
        /\ view[w][r].version \in Nat /\ view[w][r].records \in Nat
    BY <1>1, LeaseEventType DEF StreamState, Guard
  <2>2. t \in Txn
    BY <2>1 DEF Txn, TransitionTxn
  <2>3. txn' = [txn EXCEPT ![w] = t] /\ UNCHANGED <<clock, runs, streams, view>>
    BY <1>9 DEF AuthorizeTransition
  <2> HIDE DEF t
  <2> QED
    BY <1>1, <2>2, <2>3
<1>10. ASSUME NEW w \in Workers, NEW r \in Runs, NEW o \in RetryOperations,
              AuthorizeRetry(w, r, o)
       PROVE  TypeOK'
  <2> DEFINE t == [op |-> "retry", run |-> r, event |-> LeaseEvent(w, r),
                   operation |-> o, attempt |-> streams[r].retries[o] + 1]
  <2>1. /\ streams[r].retries[o] + 1 \in Nat /\ LeaseEvent(w, r) \in EventBase
    BY <1>1, LeaseEventType DEF StreamState
  <2>2. t \in Txn
    BY <2>1 DEF Txn, RetryTxn
  <2>3. txn' = [txn EXCEPT ![w] = t] /\ UNCHANGED <<clock, runs, streams, view>>
    BY <1>10 DEF AuthorizeRetry
  <2> HIDE DEF t
  <2> QED
    BY <1>1, <2>2, <2>3
<1>11. ASSUME NEW w \in Workers, Transition(w) PROVE TypeOK'
  <2> DEFINE t == txn[w]
             accepted == StatusAccepted(streams[t.run], t.event, t.from, t.to)
             after == AfterStatus(streams[t.run], t.event, t.to)
             row == MovedRow(runs[t.run], t.to)
             guard == IF row.holder = NoWorker THEN NoGuard ELSE GuardOf(row)
  <2>1. /\ t.run \in Runs /\ t.to \in RunStatuses /\ t.event.at \in Nat
    BY <1>11, TxnFields DEF Transition, EventBase
  <2>2. row \in Row /\ after \in StreamState
    BY <1>1, <2>1, MovedRowFields, AfterStatusFields
  <2>3. guard \in Guard
    BY <1>1, <2>2, GuardType
  <2>4. Persisted(accepted, after) \in StreamState
    <3>1. (after.intact /\ accepted) \in BOOLEAN
      BY <2>2
    <3> HIDE DEF after, accepted
    <3> QED
      BY <2>2, <3>1 DEF Persisted, StreamState
  <2>5. /\ runs' = [runs EXCEPT ![t.run] = row]
        /\ streams' = [streams EXCEPT ![t.run] = Persisted(accepted, after)]
        /\ view' = [view EXCEPT ![w][t.run] = guard]
        /\ txn' = [txn EXCEPT ![w] = NoTxn] /\ clock' = clock
    BY <1>11 DEF Transition
  <2> HIDE DEF guard, row, after, accepted, t
  <2> QED
    BY <1>1, <2>1, <2>2, <2>3, <2>4, <2>5
<1>12. ASSUME NEW w \in Workers, ScheduleRetry(w) PROVE TypeOK'
  <2> DEFINE t == txn[w]
             retried == AfterRetry(streams[t.run], t.event, t.operation, t.attempt)
             release == [t.event EXCEPT !.sequence = t.event.sequence + 1]
             row == PutOffRow(runs[t.run], t.event.at + RetryDelay[t.attempt])
  <2>1. /\ t.run \in Runs /\ t.operation \in RetryOperations /\ t.event \in EventBase
        /\ t.event.at \in Nat /\ t.attempt \in 1..MaxRetries
    BY <1>12, TxnFields DEF ScheduleRetry, RetryStillAccepted, RetryAccepted, EventBase
  <2>2. t.event.at + RetryDelay[t.attempt] \in Nat
    BY <2>1, EventsAssumption
  <2>3. row \in Row
    BY <1>1, <2>1, <2>2, PutOffRowFields
  <2>4. retried \in StreamState
    BY <1>1, <2>1, AfterRetryFields
  <2>5. release.at \in Nat
    BY <2>1 DEF EventBase
  <2>6. AfterLeaseEnd(retried, release) \in StreamState
    <3> HIDE DEF retried, release
    <3> QED BY <2>4, <2>5, AfterLeaseEndFields
  <2>7. /\ runs' = [runs EXCEPT ![t.run] = row]
        /\ streams' = [streams EXCEPT ![t.run] = AfterLeaseEnd(retried, release)]
        /\ view' = [view EXCEPT ![w][t.run] = NoGuard]
        /\ txn' = [txn EXCEPT ![w] = NoTxn] /\ clock' = clock
    BY <1>12 DEF ScheduleRetry
  <2> HIDE DEF row, retried, release, t
  <2> QED
    BY <1>1, <2>1, <2>3, <2>6, <2>7
<1>13. ASSUME NEW w \in Workers, Rejected(w) PROVE TypeOK'
  BY <1>1, <1>13 DEF Rejected
<1>14. ASSUME NEW w \in Workers, Crash(w) PROVE TypeOK'
  BY <1>1, <1>14 DEF Crash
<1>15. CASE Tick
  BY <1>1, <1>15 DEF Tick
<1>16. CASE UNCHANGED vars
  BY <1>16 DEF vars
<1> QED
  BY <1>2, <1>3, <1>4, <1>5, <1>6, <1>7, <1>8, <1>9, <1>10, <1>11, <1>12,
     <1>13, <1>14, <1>15, <1>16 DEF Next, WorkerStep

-----------------------------------------------------------------------------
(* The inductive invariant.                                                *)

\* The invariant holds at the start: every run is absent, every worker idle.
LEMMA InitInv == Init => StoreInv
<1> SUFFICES ASSUME Init PROVE StoreInv
  OBVIOUS
<1>1. TypeOK
  BY InitTyped
<1>2. /\ EmptyStream.intact /\ EmptyStream.last = 0 /\ EmptyStream.notBefore = 0
      /\ AbsentRow.status = "ABSENT" /\ AbsentRow.nextAttempt = 0
      /\ AbsentRow.version = 0 /\ AbsentRow.records = 0 /\ AbsentRow.holder = NoWorker
      /\ NoGuard.generation = 0 /\ NoGuard.version = 0 /\ NoGuard.records = 0
      /\ NoTxn.op = "none"
  BY DEF EmptyStream, AbsentRow, NoGuard, NoTxn
<1>3. StreamsIntact /\ RowMatchesStream
  BY <1>2 DEF Init, StreamsIntact, RowMatchesStream
<1>4. TransactionsAuthorized /\ ClaimsLock
  BY <1>2 DEF Init, TransactionsAuthorized, ClaimsLock
<1>5. StreamsPast
  BY <1>2 DEF Init, StreamsPast
<1>6. LeaseKnowledge
  BY <1>2 DEF Init, LeaseKnowledge, Believes
<1>7. VersionCoversRecords
  BY <1>2 DEF Init, VersionCoversRecords
<1> QED
  BY <1>1, <1>3, <1>4, <1>5, <1>6, <1>7 DEF StoreInv

\* What every transaction of worker w that writes run r has in common.
RunStep(w, r) ==
  /\ clock' = clock
  /\ \A q \in Runs \ {r} : runs'[q] = runs[q] /\ streams'[q] = streams[q]
  /\ \A v \in Workers, q \in Runs : v # w \/ q # r => view'[v][q] = view[v][q]
  /\ \A v \in Workers : txn'[v] = txn[v] \/ txn'[v] = NoTxn
  /\ \A v \in Workers : txn'[v].op = "claim" => txn'[v].run # r
  /\ \A v \in Workers \ {w} : ~Believes(v, r)
  /\ view'[w][r] = NoGuard \/ (view'[w][r] = GuardOf(runs'[r]) /\ runs'[r].holder = w)
  /\ runs'[r].version > runs[r].version
  /\ streams'[r] = streams[r] \/ streams'[r].count > streams[r].count
  /\ streams'[r].intact
  /\ streams'[r].last <= clock
  /\ streams'[r].notBefore <= runs'[r].nextAttempt
  /\ runs'[r].status = streams'[r].status
  /\ runs'[r].status # "ABSENT"
  /\ runs'[r].holder = streams'[r].holder
  /\ runs'[r].generation = streams'[r].generation
  /\ runs'[r].holder # NoWorker => runs'[r].expires = streams'[r].expires
  /\ runs'[r].status \in TerminalStatuses => runs'[r].holder = NoWorker

\* The columns of run r that a reader of the abstract lifecycle sees.
Leaves(r, status, generation, holder) ==
  /\ runs'[r].status = status
  /\ runs'[r].generation = generation
  /\ runs'[r].holder = holder

\* Such a transaction preserves the invariant: of its own run it establishes
\* it, and every other transaction under way on that run is left behind by the
\* version and the count it advances.
LEMMA RunStepInv ==
  ASSUME StoreInv, TypeOK', NEW w \in Workers, NEW r \in Runs, RunStep(w, r)
  PROVE  StoreInv'
<1>1. /\ TypeOK /\ StreamsIntact /\ RowMatchesStream /\ TransactionsAuthorized
      /\ ClaimsLock /\ StreamsPast /\ LeaseKnowledge /\ VersionCoversRecords
  BY DEF StoreInv
<1>2. /\ NoTxn.op = "none" /\ NoGuard.generation = 0 /\ NoGuard.version = 0
      /\ NoGuard.records = 0
  BY DEF NoTxn, NoGuard
<1>3. /\ GuardOf(runs'[r]).generation = runs'[r].generation
      /\ GuardOf(runs'[r]).version = runs'[r].version
      /\ GuardOf(runs'[r]).expires = runs'[r].expires
      /\ GuardOf(runs'[r]).records = runs'[r].records
  BY DEF GuardOf
<1>4. \A q \in Runs : /\ runs[q].version \in Nat /\ runs'[q].version \in Nat
                      /\ runs[q].expires \in Nat /\ runs'[q].expires \in Nat
                      /\ runs'[q].generation \in Nat
                      /\ streams[q].count \in Nat /\ streams'[q].count \in Nat
  BY <1>1 DEF TypeOK, Row, StreamState
<1>5. StreamsIntact' /\ RowMatchesStream'
  BY <1>1 DEF RunStep, StreamsIntact, RowMatchesStream
<1>6. TransactionsAuthorized'
  <2> SUFFICES ASSUME NEW v \in Workers, txn'[v].op \in {"transition", "retry"}
               PROVE  LET t == txn'[v]
                          s == streams'[t.run]
                      IN /\ t.event.worker = v
                         /\ t.event.at <= clock'
                         /\ t.event.sequence <= s.count
                         /\ t.op = "transition" /\ t.event.sequence = s.count =>
                              StatusAccepted(s, t.event, t.from, t.to)
    BY DEF TransactionsAuthorized
  <2>1. txn'[v] = txn[v]
    BY <1>2 DEF RunStep
  <2>2. /\ txn[v].run \in Runs /\ txn[v].event.sequence \in Nat
    BY <1>1, <2>1, TxnFields DEF EventBase
  <2>3. LET t == txn[v]
            s == streams[t.run]
        IN /\ t.event.worker = v
           /\ t.event.at <= clock
           /\ t.event.sequence <= s.count
           /\ t.op = "transition" /\ t.event.sequence = s.count =>
                StatusAccepted(s, t.event, t.from, t.to)
    BY <1>1, <2>1 DEF TransactionsAuthorized
  <2>4. \/ streams'[txn[v].run] = streams[txn[v].run]
        \/ streams'[txn[v].run].count > streams[txn[v].run].count
    BY <2>2 DEF RunStep
  <2> QED
    BY <1>4, <2>1, <2>2, <2>3, <2>4 DEF RunStep
<1>7. ClaimsLock'
  <2> SUFFICES ASSUME NEW v \in Workers, txn'[v].op = "claim"
               PROVE  /\ Due(txn[v].run)'
                      /\ \A u \in Workers \ {v} :
                           ~(txn'[u].op = "claim" /\ txn'[u].run = txn'[v].run)
                      /\ txn'[v] = txn[v]
    BY DEF ClaimsLock
  <2>1. txn'[v] = txn[v] /\ txn[v].run # r
    BY <1>2 DEF RunStep
  <2>2. txn[v].run \in Runs
    BY <1>1, <2>1, TxnFields
  <2>3. runs'[txn[v].run] = runs[txn[v].run] /\ clock' = clock
    BY <2>1, <2>2 DEF RunStep
  <2>4. Due(txn[v].run)'
    BY <1>1, <2>1, <2>3 DEF ClaimsLock, Due, LeaseLapsed
  <2>5. ASSUME NEW u \in Workers \ {v}, txn'[u].op = "claim"
        PROVE  txn'[u].run # txn'[v].run
    <3>1. txn'[u] = txn[u]
      BY <1>2, <2>5 DEF RunStep
    <3> QED
      BY <1>1, <2>1, <2>5, <3>1 DEF ClaimsLock
  <2> QED
    BY <2>1, <2>4, <2>5
<1>8. StreamsPast'
  BY <1>1 DEF RunStep, StreamsPast
<1>9. LeaseKnowledge'
  <2> SUFFICES ASSUME NEW v \in Workers, NEW q \in Runs, Believes(v, q)'
               PROVE  /\ runs'[q].holder = v
                      /\ runs'[q].generation = view'[v][q].generation
                      /\ view'[v][q].expires <= runs'[q].expires
    BY DEF LeaseKnowledge
  <2>1. CASE q # r
    BY <1>1, <2>1 DEF RunStep, LeaseKnowledge, Believes
  <2>2. CASE q = r /\ v # w
    BY <2>2 DEF RunStep, Believes
  <2>3. CASE q = r /\ v = w
    BY <1>2, <1>3, <1>4, <2>3 DEF RunStep, Believes
  <2> QED
    BY <2>1, <2>2, <2>3
<1>10. VersionCoversRecords'
  <2>1. ASSUME NEW q \in Runs
        PROVE  runs'[q].version = 0 => runs'[q].records = 0
    BY <1>1, <1>4 DEF RunStep, VersionCoversRecords
  <2>2. ASSUME NEW v \in Workers, NEW q \in Runs
        PROVE  /\ view'[v][q].version <= runs'[q].version
               /\ view'[v][q].version = runs'[q].version =>
                    view'[v][q].records = runs'[q].records
    <3>0. view[v][q].version \in Nat
      BY <1>1 DEF TypeOK, Guard
    <3>1. CASE q # r
      BY <1>1, <3>1 DEF RunStep, VersionCoversRecords
    <3>2. CASE q = r /\ v # w
      BY <1>1, <1>4, <3>0, <3>2 DEF RunStep, VersionCoversRecords
    <3>3. CASE q = r /\ v = w
      <4>1. runs'[r].version > 0
        BY <1>4 DEF RunStep
      <4>2. CASE view'[w][r] = NoGuard
        BY <1>2, <1>4, <3>3, <4>1, <4>2
      <4>3. CASE view'[w][r] = GuardOf(runs'[r])
        BY <1>3, <1>4, <3>3, <4>3
      <4> QED
        BY <4>2, <4>3 DEF RunStep
    <3> QED
      BY <3>1, <3>2, <3>3
  <2>3. ASSUME NEW v \in Workers, txn'[v].op = "transition"
        PROVE  /\ txn'[v].version <= runs'[txn'[v].run].version
               /\ txn'[v].version = runs'[txn'[v].run].version =>
                    txn'[v].records = runs'[txn'[v].run].records
    <3>1. txn'[v] = txn[v]
      BY <1>2, <2>3 DEF RunStep
    <3>2. txn[v].run \in Runs /\ txn[v].version \in Nat
      BY <1>1, <2>3, <3>1, TxnFields
    <3>3. CASE txn[v].run # r
      BY <1>1, <2>3, <3>1, <3>2, <3>3 DEF RunStep, VersionCoversRecords
    <3>4. CASE txn[v].run = r
      BY <1>1, <1>4, <2>3, <3>1, <3>2, <3>4 DEF RunStep, VersionCoversRecords
    <3> QED
      BY <3>3, <3>4
  <2> QED
    BY <2>1, <2>2, <2>3 DEF VersionCoversRecords
<1> QED
  BY <1>5, <1>6, <1>7, <1>8, <1>9, <1>10 DEF StoreInv

\* The holder of a lease, outside any claim of the run, is alone on it.
LEMMA HolderAlone ==
  ASSUME StoreInv, NEW w \in Workers, NEW r \in Runs, runs[r].holder = w, ~Locked(r)
  PROVE  /\ \A v \in Workers \ {w} : ~Believes(v, r)
         /\ \A v \in Workers : txn[v].op = "claim" => txn[v].run # r
         /\ runs[r].status # "ABSENT" /\ runs[r].status \notin TerminalStatuses
         /\ runs[r].status = streams[r].status /\ runs[r].holder = streams[r].holder
         /\ runs[r].generation = streams[r].generation
         /\ runs[r].expires = streams[r].expires
         /\ streams[r].intact
         /\ streams[r].last <= clock /\ streams[r].notBefore <= runs[r].nextAttempt
<1>1. w # NoWorker /\ AbsentRow.holder = NoWorker
  BY EventsAssumption DEF AbsentRow
<1>2. \A v \in Workers \ {w} : ~Believes(v, r)
  BY DEF StoreInv, LeaseKnowledge
<1>3. \A v \in Workers : txn[v].op = "claim" => txn[v].run # r
  BY DEF Locked
<1>4. runs[r].status # "ABSENT"
  BY <1>1 DEF StoreInv, RowMatchesStream
<1> QED
  BY <1>1, <1>2, <1>3, <1>4
  DEF StoreInv, RowMatchesStream, StreamsIntact, StreamsPast

\* Columns of the run of a step, as the steps below need them.
LEMMA RunTypes ==
  ASSUME TypeOK, NEW r \in Runs
  PROVE  /\ clock \in Nat /\ runs[r] \in Row /\ streams[r] \in StreamState
         /\ runs[r].version \in Nat /\ runs[r].expires \in Nat
         /\ streams[r].count \in Nat
BY DEF TypeOK, Row, StreamState

\* A claim is such a step: it locked a due row, whose last lease has run out.
LEMMA ClaimStep ==
  ASSUME StoreInv, NEW w \in Workers, ClaimDue(w)
  PROVE  LET r == txn[w].run
         IN  /\ RunStep(w, r)
             /\ Leaves(r, runs[r].status, runs[r].generation + 1, w)
             /\ Due(r)
<1> DEFINE r == txn[w].run
           expires == clock + txn[w].term
           e == AcquiredEvent(w, r)
           row == ClaimedRow(runs[r], w, expires)
           s == AfterAcquired(Vacated(r), e, expires)
<1>1. TypeOK /\ RowMatchesStream /\ ClaimsLock /\ StreamsIntact /\ StreamsPast
      /\ LeaseKnowledge
  BY DEF StoreInv
<1>2. txn[w].op = "claim" /\ ClaimAccepted(w)
  BY DEF ClaimDue
<1>3. r \in Runs /\ txn[w].term \in Nat
  BY <1>1, <1>2, TxnFields, StoreAssumption
<1>4. /\ clock \in Nat /\ runs[r] \in Row /\ streams[r] \in StreamState
      /\ runs[r].version \in Nat /\ runs[r].expires \in Nat /\ streams[r].count \in Nat
      /\ runs[r].generation + 1 \in Nat
  BY <1>1, <1>3, RunTypes DEF Row
<1>5. runs[r].status \in ActiveStatuses /\ LeaseLapsed(runs[r])
  BY <1>1, <1>2 DEF ClaimsLock, Due
<1>6. \A v \in Workers : ~Believes(v, r)
  <2> SUFFICES ASSUME NEW v \in Workers, Believes(v, r) PROVE FALSE
    OBVIOUS
  <2>1. runs[r].holder = v /\ view[v][r].expires <= runs[r].expires
    BY <1>1, <1>3 DEF LeaseKnowledge
  <2>2. runs[r].expires <= clock
    BY <1>5, <2>1, EventsAssumption DEF LeaseLapsed
  <2>3. view[v][r].expires \in Nat
    BY <1>1, <1>3 DEF TypeOK, Guard
  <2> QED
    BY <1>4, <2>1, <2>2, <2>3 DEF Believes
<1>7. /\ Vacated(r) \in StreamState /\ Vacated(r).status = streams[r].status
      /\ Vacated(r).count >= streams[r].count /\ Vacated(r).intact
      /\ Vacated(r).notBefore = streams[r].notBefore /\ Vacated(r).count \in Nat
  <2>1. Vacated(r) \in StreamState => Vacated(r).count \in Nat
    BY DEF StreamState
  <2> QED
    BY <1>1, <1>3, <2>1, VacatedFields DEF StreamsIntact
<1>8. e.at = clock /\ e.worker = w /\ e.generation = runs[r].generation + 1
  BY DEF AcquiredEvent
<1>9. /\ runs' = [runs EXCEPT ![r] = row] /\ streams' = [streams EXCEPT ![r] = s]
      /\ view' = [view EXCEPT ![w][r] = GuardOf(row)]
      /\ txn' = [txn EXCEPT ![w] = NoTxn] /\ clock' = clock
  BY DEF ClaimDue
<1>10. expires \in Nat
  BY <1>3, <1>4
<1> HIDE DEF r, expires
<1>11. /\ row.status = runs[r].status /\ row.version = runs[r].version + 1
       /\ row.generation = runs[r].generation + 1 /\ row.holder = w
       /\ row.expires = expires /\ row.nextAttempt = runs[r].nextAttempt
  <2>1. runs[r] \in Row
    BY <1>4
  <2> QED
    BY <2>1, <1>10, ClaimedRowFields
<1>12. e.at \in Nat /\ e.worker \in Workers /\ e.generation \in Nat
  BY <1>4, <1>8
<1> HIDE DEF e
<1>13. /\ s.status = streams[r].status /\ s.holder = w
       /\ s.generation = runs[r].generation + 1 /\ s.expires = expires
       /\ s.count = Vacated(r).count + 1 /\ s.last = clock /\ s.intact
       /\ s.notBefore = streams[r].notBefore
  <2>1. Vacated(r) \in StreamState
    BY <1>7
  <2>2. /\ s.status = Vacated(r).status /\ s.holder = e.worker
        /\ s.generation = e.generation /\ s.expires = expires
        /\ s.count = Vacated(r).count + 1 /\ s.last = e.at
        /\ s.intact = Vacated(r).intact /\ s.notBefore = Vacated(r).notBefore
    BY <2>1, <1>10, <1>12, AfterAcquiredFields
  <2> HIDE DEF s
  <2> QED
    BY <1>7, <1>8, <2>2
<1>14. \A v \in Workers : txn'[v].op = "claim" => txn'[v].run # r
  BY <1>1, <1>2, <1>9 DEF ClaimsLock, TypeOK, NoTxn, r
<1>15. /\ runs'[r] = row /\ streams'[r] = s /\ view'[w][r] = GuardOf(row)
       /\ \A q \in Runs \ {r} : runs'[q] = runs[q] /\ streams'[q] = streams[q]
       /\ \A v \in Workers, q \in Runs : v # w \/ q # r => view'[v][q] = view[v][q]
       /\ \A v \in Workers : txn'[v] = txn[v] \/ txn'[v] = NoTxn
  <2> HIDE DEF row, s
  <2> QED BY <1>1, <1>3, <1>9 DEF TypeOK
<1>16. /\ runs[r].status = streams[r].status /\ runs[r].status \notin TerminalStatuses
       /\ streams[r].notBefore <= runs[r].nextAttempt
       /\ runs[r].status # "ABSENT"
  BY <1>1, <1>3, <1>5, StatusTables DEF RowMatchesStream, StreamsPast, RunStatuses
<1> HIDE DEF row, s
<1>17. RunStep(w, r)
  BY <1>4, <1>6, <1>7, <1>9, <1>11, <1>13, <1>14, <1>15, <1>16 DEF RunStep
<1>18. Leaves(r, runs[r].status, runs[r].generation + 1, w)
  BY <1>11, <1>15 DEF Leaves
<1>19. Due(r)
  BY <1>1, <1>2 DEF ClaimsLock, r
<1> QED
  BY <1>17, <1>18, <1>19 DEF r

\* A renewal is such a step.
LEMMA RenewStep ==
  ASSUME StoreInv, NEW w \in Workers, NEW r \in Runs, RenewLease(w, r)
  PROVE  /\ RunStep(w, r) /\ Leaves(r, runs[r].status, runs[r].generation, w)
         /\ runs[r].holder = w /\ runs[r].status \notin TerminalStatuses
<1> DEFINE e == LeaseEvent(w, r)
<1>1. PICK term \in LeaseTerms :
        LET x == LaterOf(clock, runs[r].expires) + term
        IN /\ Fenced(w, r)
           /\ runs' = [runs EXCEPT ![r] = RenewedRow(runs[r], x)]
           /\ streams' = [streams EXCEPT ![r] = AfterRenewed(streams[r], e, x)]
           /\ view' = [view EXCEPT ![w][r] = GuardOf(RenewedRow(runs[r], x))]
           /\ UNCHANGED <<clock, txn>>
  BY DEF RenewLease
<1> DEFINE x == LaterOf(clock, runs[r].expires) + term
           row == RenewedRow(runs[r], x)
           s == AfterRenewed(streams[r], e, x)
<1>2. TypeOK /\ runs[r].holder = w /\ ~Locked(r)
  BY <1>1 DEF StoreInv, Fenced, LeaseCurrent
<1>3. /\ clock \in Nat /\ runs[r] \in Row /\ streams[r] \in StreamState
      /\ runs[r].version \in Nat /\ runs[r].expires \in Nat /\ streams[r].count \in Nat
  BY <1>2, RunTypes
<1>4. x \in Nat
  BY <1>3, StoreAssumption DEF LaterOf
<1>5. e.at = clock /\ e.at \in Nat
  BY <1>2, <1>3, LeaseEventType
<1> HIDE DEF x, e
<1>6. /\ row.status = runs[r].status /\ row.version = runs[r].version + 1
      /\ row.generation = runs[r].generation /\ row.holder = runs[r].holder
      /\ row.expires = x /\ row.nextAttempt = runs[r].nextAttempt
  <2>1. runs[r] \in Row
    BY <1>3
  <2> QED BY <2>1, <1>4, RenewedRowFields
<1>7. /\ s.status = streams[r].status /\ s.holder = streams[r].holder
      /\ s.generation = streams[r].generation /\ s.expires = x
      /\ s.count = streams[r].count + 1 /\ s.last = e.at
      /\ s.intact = streams[r].intact /\ s.notBefore = streams[r].notBefore
  <2>1. streams[r] \in StreamState
    BY <1>3
  <2> QED BY <2>1, <1>4, <1>5, AfterRenewedFields
<1>8. /\ runs' = [runs EXCEPT ![r] = row] /\ streams' = [streams EXCEPT ![r] = s]
      /\ view' = [view EXCEPT ![w][r] = GuardOf(row)]
      /\ clock' = clock /\ txn' = txn
  BY <1>1 DEF x
<1> HIDE DEF row, s
<1>9. /\ runs'[r] = row /\ streams'[r] = s /\ view'[w][r] = GuardOf(row)
      /\ \A q \in Runs \ {r} : runs'[q] = runs[q] /\ streams'[q] = streams[q]
      /\ \A v \in Workers, q \in Runs : v # w \/ q # r => view'[v][q] = view[v][q]
  BY <1>2, <1>8 DEF TypeOK
<1>10. RunStep(w, r)
  BY <1>2, <1>3, <1>5, <1>6, <1>7, <1>8, <1>9, HolderAlone DEF RunStep
<1>11. Leaves(r, row.status, row.generation, row.holder)
  BY <1>9 DEF Leaves
<1> QED
  BY <1>2, <1>6, <1>10, <1>11, HolderAlone

\* So is a release.
LEMMA ReleaseStep ==
  ASSUME StoreInv, NEW w \in Workers, NEW r \in Runs, ReleaseLease(w, r)
  PROVE  /\ RunStep(w, r) /\ Leaves(r, runs[r].status, runs[r].generation, NoWorker)
         /\ runs[r].holder = w /\ runs[r].status \notin TerminalStatuses
<1> DEFINE e == LeaseEvent(w, r)
           row == WithoutLease(runs[r])
           s == AfterLeaseEnd(streams[r], e)
<1>1. /\ Fenced(w, r)
      /\ runs' = [runs EXCEPT ![r] = row] /\ streams' = [streams EXCEPT ![r] = s]
      /\ view' = [view EXCEPT ![w][r] = NoGuard]
      /\ clock' = clock /\ txn' = txn
  BY DEF ReleaseLease
<1>2. TypeOK /\ runs[r].holder = w /\ ~Locked(r)
  BY <1>1 DEF StoreInv, Fenced, LeaseCurrent
<1>3. /\ clock \in Nat /\ runs[r] \in Row /\ streams[r] \in StreamState
      /\ runs[r].version \in Nat /\ streams[r].count \in Nat
  BY <1>2, RunTypes
<1>4. e.at = clock /\ e.at \in Nat
  BY <1>2, <1>3, LeaseEventType
<1> HIDE DEF e
<1>5. /\ row.status = runs[r].status /\ row.version = runs[r].version + 1
      /\ row.generation = runs[r].generation /\ row.holder = NoWorker
      /\ row.nextAttempt = runs[r].nextAttempt
  BY <1>3, WithoutLeaseFields
<1>6. /\ s.status = streams[r].status /\ s.holder = NoWorker
      /\ s.generation = streams[r].generation
      /\ s.count = streams[r].count + 1 /\ s.last = e.at
      /\ s.intact = streams[r].intact /\ s.notBefore = streams[r].notBefore
  BY <1>3, <1>4, AfterLeaseEndFields
<1> HIDE DEF row, s
<1>7. /\ runs'[r] = row /\ streams'[r] = s /\ view'[w][r] = NoGuard
      /\ \A q \in Runs \ {r} : runs'[q] = runs[q] /\ streams'[q] = streams[q]
      /\ \A v \in Workers, q \in Runs : v # w \/ q # r => view'[v][q] = view[v][q]
  BY <1>1, <1>2 DEF TypeOK
<1>10. RunStep(w, r)
  BY <1>1, <1>2, <1>3, <1>4, <1>5, <1>6, <1>7, HolderAlone DEF RunStep
<1>11. Leaves(r, row.status, row.generation, row.holder)
  BY <1>7 DEF Leaves
<1> QED
  BY <1>2, <1>5, <1>10, <1>11, HolderAlone

\* An append is one that adds no event.
LEMMA AppendStep ==
  ASSUME StoreInv, NEW w \in Workers, NEW r \in Runs, AppendPositioned(w, r)
  PROVE  /\ RunStep(w, r) /\ Leaves(r, runs[r].status, runs[r].generation, w)
         /\ runs[r].holder = w /\ runs[r].status \notin TerminalStatuses
<1> DEFINE row == AppendedRow(runs[r])
<1>1. /\ Fenced(w, r)
      /\ runs' = [runs EXCEPT ![r] = row]
      /\ view' = [view EXCEPT ![w][r] = GuardOf(row)]
      /\ clock' = clock /\ txn' = txn /\ streams' = streams
  BY DEF AppendPositioned
<1>2. TypeOK /\ runs[r].holder = w /\ ~Locked(r)
  BY <1>1 DEF StoreInv, Fenced, LeaseCurrent
<1>3. /\ clock \in Nat /\ runs[r] \in Row /\ runs[r].version \in Nat
  BY <1>2, RunTypes
<1>4. /\ row.status = runs[r].status /\ row.version = runs[r].version + 1
      /\ row.generation = runs[r].generation /\ row.holder = runs[r].holder
      /\ row.expires = runs[r].expires /\ row.nextAttempt = runs[r].nextAttempt
  BY <1>3, AppendedRowFields
<1>5. streams' = [streams EXCEPT ![r] = streams[r]]
  BY <1>1, <1>2 DEF TypeOK
<1> HIDE DEF row
<1>6. /\ runs'[r] = row /\ streams'[r] = streams[r] /\ view'[w][r] = GuardOf(row)
      /\ \A q \in Runs \ {r} : runs'[q] = runs[q] /\ streams'[q] = streams[q]
      /\ \A v \in Workers, q \in Runs : v # w \/ q # r => view'[v][q] = view[v][q]
  BY <1>1, <1>2, <1>5 DEF TypeOK
<1>10. RunStep(w, r)
  BY <1>1, <1>2, <1>3, <1>4, <1>6, HolderAlone DEF RunStep
<1>11. Leaves(r, row.status, row.generation, row.holder)
  BY <1>6 DEF Leaves
<1> QED
  BY <1>2, <1>4, <1>10, <1>11, HolderAlone

\* So is a transition: its event was accepted when it was authorized, and under
\* the lock the stream is still the one that accepted it.
LEMMA TransitionStep ==
  ASSUME StoreInv, NEW w \in Workers, Transition(w)
  PROVE  LET r == txn[w].run
             to == txn[w].to
         IN  /\ RunStep(w, r)
             /\ Leaves(r, to, runs[r].generation,
                       IF to \in TerminalStatuses THEN NoWorker ELSE w)
             /\ runs[r].holder = w
             /\ IsAdjacent(runs[r].status, to)
             /\ txn[w].records = runs[r].records
<1> DEFINE t == txn[w]
           r == t.run
           accepted == StatusAccepted(streams[r], t.event, t.from, t.to)
           row == MovedRow(runs[r], t.to)
           s == AfterStatus(streams[r], t.event, t.to)
           guard == IF row.holder = NoWorker THEN NoGuard ELSE GuardOf(row)
<1>1. /\ t.op = "transition" /\ StillCurrent(w)
      /\ runs' = [runs EXCEPT ![r] = row]
      /\ streams' = [streams EXCEPT ![r] = Persisted(accepted, s)]
      /\ view' = [view EXCEPT ![w][r] = guard]
      /\ txn' = [txn EXCEPT ![w] = NoTxn] /\ clock' = clock
  BY DEF Transition
<1>2. /\ TypeOK /\ runs[r].holder = w /\ ~Locked(r)
      /\ t.event.sequence = streams[r].count /\ runs[r].status = t.from
  BY <1>1 DEF StoreInv, StillCurrent, LeaseCurrent
<1>3. /\ r \in Runs /\ t.to \in RunStatuses /\ t.event.at \in Nat
  BY <1>1, <1>2, TxnFields DEF EventBase
<1>4. accepted /\ t.event.at <= clock
  BY <1>1, <1>2 DEF StoreInv, TransactionsAuthorized
<1>5. IsAdjacent(runs[r].status, t.to)
  BY <1>2, <1>4 DEF StatusAccepted
<1>6. \A v \in Workers : txn'[v] = txn[v] \/ txn'[v] = NoTxn
  BY <1>1, <1>2 DEF TypeOK
<1>7. NoTxn.op = "none"
  BY DEF NoTxn
<1> HIDE DEF t, accepted
<1>8. /\ clock \in Nat /\ runs[r] \in Row /\ streams[r] \in StreamState
      /\ runs[r].version \in Nat /\ streams[r].count \in Nat
  BY <1>2, <1>3, RunTypes
<1>9. /\ row.status = t.to /\ row.version = runs[r].version + 1
      /\ row.generation = runs[r].generation /\ row.nextAttempt = runs[r].nextAttempt
      /\ t.to \in TerminalStatuses => row.holder = NoWorker
      /\ t.to \notin TerminalStatuses =>
           row.holder = runs[r].holder /\ row.expires = runs[r].expires
  <2>1. runs[r] \in Row
    BY <1>8
  <2> QED BY <2>1, <1>3, MovedRowFields
<1>10. /\ s \in StreamState
       /\ s.status = t.to /\ s.generation = streams[r].generation
       /\ s.count = streams[r].count + 1 /\ s.last = t.event.at
       /\ s.intact = streams[r].intact /\ s.notBefore = streams[r].notBefore
       /\ s.expires = streams[r].expires
       /\ t.to \in TerminalStatuses => s.holder = NoWorker
       /\ t.to \notin TerminalStatuses => s.holder = streams[r].holder
  <2>1. streams[r] \in StreamState
    BY <1>8
  <2> QED BY <2>1, <1>3, AfterStatusFields
<1> HIDE DEF r, row, s
<1>11. Persisted(accepted, s) = s
  <2>1. (s.intact /\ accepted) = s.intact
    BY <1>4, <1>10 DEF StreamState
  <2> QED
    BY <1>10, <2>1 DEF Persisted, StreamState
<1> HIDE DEF guard
<1>12. /\ runs'[r] = row /\ streams'[r] = s /\ view'[w][r] = guard
       /\ \A q \in Runs \ {r} : runs'[q] = runs[q] /\ streams'[q] = streams[q]
       /\ \A v \in Workers, q \in Runs : v # w \/ q # r => view'[v][q] = view[v][q]
  BY <1>1, <1>2, <1>3, <1>11 DEF TypeOK
<1>13. guard = NoGuard \/ (guard = GuardOf(row) /\ row.holder = w)
  BY <1>2, <1>9 DEF guard
<1>14. t.to # "ABSENT"
  BY <1>3, StatusTables
<1>15. /\ \A v \in Workers \ {w} : ~Believes(v, r)
       /\ \A v \in Workers : txn[v].op = "claim" => txn[v].run # r
       /\ runs[r].holder = streams[r].holder
       /\ runs[r].generation = streams[r].generation
       /\ runs[r].expires = streams[r].expires
       /\ streams[r].intact /\ streams[r].notBefore <= runs[r].nextAttempt
  BY <1>2, <1>3, HolderAlone
<1>16. /\ \A v \in Workers : txn'[v].op = "claim" => txn'[v].run # r
       /\ view'[w][r] = NoGuard \/ (view'[w][r] = GuardOf(runs'[r]) /\ runs'[r].holder = w)
  BY <1>6, <1>7, <1>12, <1>13, <1>15
<1>17. /\ runs'[r].version > runs[r].version
       /\ streams'[r].count > streams[r].count
       /\ streams'[r].last <= clock
  BY <1>4, <1>8, <1>9, <1>10, <1>12
<1>18. /\ streams'[r].intact
       /\ streams'[r].notBefore <= runs'[r].nextAttempt
       /\ runs'[r].status = streams'[r].status /\ runs'[r].status # "ABSENT"
       /\ runs'[r].holder = streams'[r].holder
       /\ runs'[r].generation = streams'[r].generation
       /\ runs'[r].holder # NoWorker => runs'[r].expires = streams'[r].expires
       /\ runs'[r].status \in TerminalStatuses => runs'[r].holder = NoWorker
  BY <1>9, <1>10, <1>12, <1>14, <1>15
<1>19. RunStep(w, r)
  BY <1>1, <1>6, <1>12, <1>15, <1>16, <1>17, <1>18 DEF RunStep
<1>20. Leaves(r, t.to, runs[r].generation,
              IF t.to \in TerminalStatuses THEN NoWorker ELSE w)
  BY <1>2, <1>9, <1>12 DEF Leaves
<1>21. t.records = runs[r].records
  BY <1>1 DEF StoreInv, VersionCoversRecords, StillCurrent, LeaseCurrent, t, r
<1> QED
  BY <1>2, <1>5, <1>19, <1>20, <1>21 DEF r, t

\* So is a retry, which releases the lease and leaves its backoff on the row.
LEMMA RetryStep ==
  ASSUME StoreInv, NEW w \in Workers, ScheduleRetry(w)
  PROVE  LET r == txn[w].run
         IN  /\ RunStep(w, r)
             /\ Leaves(r, runs[r].status, runs[r].generation, NoWorker)
             /\ runs[r].holder = w
             /\ runs[r].status \notin TerminalStatuses
<1> DEFINE t == txn[w]
           r == t.run
           retried == AfterRetry(streams[r], t.event, t.operation, t.attempt)
           release == [t.event EXCEPT !.sequence = t.event.sequence + 1]
           until == t.event.at + RetryDelay[t.attempt]
           row == PutOffRow(runs[r], until)
           s == AfterLeaseEnd(retried, release)
<1>1. /\ t.op = "retry" /\ RetryStillAccepted(w)
      /\ runs' = [runs EXCEPT ![r] = row] /\ streams' = [streams EXCEPT ![r] = s]
      /\ view' = [view EXCEPT ![w][r] = NoGuard]
      /\ txn' = [txn EXCEPT ![w] = NoTxn] /\ clock' = clock
  BY DEF ScheduleRetry
<1>2. /\ TypeOK /\ runs[r].holder = w /\ ~Locked(r)
      /\ RetryAccepted(streams[r], t.event, t.operation, t.attempt)
  BY <1>1 DEF StoreInv, RetryStillAccepted, LeaseCurrent
<1>3. /\ r \in Runs /\ t.event \in EventBase /\ t.operation \in RetryOperations
      /\ t.attempt \in 1..MaxRetries
  BY <1>1, <1>2, TxnFields DEF RetryAccepted
<1>4. t.event.at <= clock
  BY <1>1 DEF StoreInv, TransactionsAuthorized
<1>5. \A v \in Workers : txn'[v] = txn[v] \/ txn'[v] = NoTxn
  BY <1>1, <1>2 DEF TypeOK
<1>6. NoTxn.op = "none"
  BY DEF NoTxn
<1>7. t.event.at \in Nat /\ release.at = t.event.at
  BY <1>3 DEF EventBase
<1>8. until \in Nat
  BY <1>3, <1>7, EventsAssumption
<1> HIDE DEF t, release
<1>9. /\ clock \in Nat /\ runs[r] \in Row /\ streams[r] \in StreamState
      /\ runs[r].version \in Nat /\ streams[r].count \in Nat
  BY <1>2, <1>3, RunTypes
<1>10. /\ retried \in StreamState
       /\ retried.status = streams[r].status /\ retried.generation = streams[r].generation
       /\ retried.count = streams[r].count + 1
       /\ retried.intact = streams[r].intact /\ retried.notBefore = until
  <2>1. streams[r] \in StreamState
    BY <1>9
  <2> QED BY <2>1, <1>3, <1>7, AfterRetryFields
<1> HIDE DEF until
<1>11. /\ row.status = runs[r].status /\ row.version = runs[r].version + 1
       /\ row.generation = runs[r].generation /\ row.holder = NoWorker
       /\ row.nextAttempt = until
  <2>1. runs[r] \in Row
    BY <1>9
  <2> QED BY <2>1, <1>8, PutOffRowFields
<1> HIDE DEF retried
<1>12. /\ s.status = retried.status /\ s.holder = NoWorker
       /\ s.generation = retried.generation
       /\ s.count = retried.count + 1 /\ s.last = release.at
       /\ s.intact = retried.intact /\ s.notBefore = retried.notBefore
  <2>1. retried \in StreamState /\ release.at \in Nat
    BY <1>7, <1>10
  <2> QED BY <2>1, AfterLeaseEndFields
<1> HIDE DEF r, row, s
<1>13. /\ runs'[r] = row /\ streams'[r] = s /\ view'[w][r] = NoGuard
       /\ \A q \in Runs \ {r} : runs'[q] = runs[q] /\ streams'[q] = streams[q]
       /\ \A v \in Workers, q \in Runs : v # w \/ q # r => view'[v][q] = view[v][q]
  BY <1>1, <1>2, <1>3 DEF TypeOK
<1>14. /\ \A v \in Workers \ {w} : ~Believes(v, r)
       /\ \A v \in Workers : txn[v].op = "claim" => txn[v].run # r
       /\ runs[r].status = streams[r].status
       /\ runs[r].status # "ABSENT" /\ runs[r].status \notin TerminalStatuses
       /\ runs[r].generation = streams[r].generation /\ streams[r].intact
  BY <1>2, <1>3, HolderAlone
<1>15. \A v \in Workers : txn'[v].op = "claim" => txn'[v].run # r
  BY <1>5, <1>6, <1>14
<1>16. /\ runs'[r].version > runs[r].version
       /\ streams'[r].count > streams[r].count
       /\ streams'[r].last <= clock
       /\ streams'[r].notBefore <= runs'[r].nextAttempt
  BY <1>4, <1>7, <1>8, <1>9, <1>10, <1>11, <1>12, <1>13
<1>17. /\ streams'[r].intact
       /\ runs'[r].status = streams'[r].status /\ runs'[r].status # "ABSENT"
       /\ runs'[r].holder = streams'[r].holder /\ runs'[r].holder = NoWorker
       /\ runs'[r].generation = streams'[r].generation
  BY <1>10, <1>11, <1>12, <1>13, <1>14
<1>18. RunStep(w, r)
  BY <1>1, <1>5, <1>13, <1>14, <1>15, <1>16, <1>17 DEF RunStep
<1>19. Leaves(r, runs[r].status, runs[r].generation, NoWorker)
  BY <1>11, <1>13 DEF Leaves
<1> QED
  BY <1>2, <1>14, <1>18, <1>19 DEF r, t

\* The part of the invariant that is about one worker's transaction.
TxnSound(w) ==
  /\ txn[w].op \in {"transition", "retry"} =>
       LET t == txn[w]
           s == streams[t.run]
       IN /\ t.event.worker = w
          /\ t.event.at <= clock
          /\ t.event.sequence <= s.count
          /\ t.op = "transition" /\ t.event.sequence = s.count =>
               StatusAccepted(s, t.event, t.from, t.to)
  /\ txn[w].op = "claim" =>
       /\ Due(txn[w].run)
       /\ \A v \in Workers \ {w} :
            ~(txn[v].op = "claim" /\ txn[v].run = txn[w].run)
  /\ txn[w].op = "transition" =>
       /\ txn[w].version <= runs[txn[w].run].version
       /\ txn[w].version = runs[txn[w].run].version =>
            txn[w].records = runs[txn[w].run].records

\* What every step of worker w that writes no run has in common.
QuietStep(w) ==
  /\ UNCHANGED <<clock, runs, streams>>
  /\ \A v \in Workers \ {w} : txn'[v] = txn[v]
  /\ TxnSound(w)'
  /\ \A v \in Workers, q \in Runs :
       \/ view'[v][q] = view[v][q]
       \/ view'[v][q] = NoGuard
       \/ (view'[v][q] = GuardOf(runs[q]) /\ runs[q].holder = v)

\* Such a step preserves the invariant.
LEMMA QuietStepInv ==
  ASSUME StoreInv, TypeOK', NEW w \in Workers, QuietStep(w)
  PROVE  StoreInv'
<1>1. /\ TypeOK /\ StreamsIntact /\ RowMatchesStream /\ TransactionsAuthorized
      /\ ClaimsLock /\ StreamsPast /\ LeaseKnowledge /\ VersionCoversRecords
      /\ clock' = clock /\ runs' = runs /\ streams' = streams
  BY DEF StoreInv, QuietStep
<1>2. /\ NoGuard.generation = 0 /\ NoGuard.version = 0 /\ NoGuard.records = 0
  BY DEF NoGuard
<1>3. \A q \in Runs : /\ GuardOf(runs[q]).generation = runs[q].generation
                      /\ GuardOf(runs[q]).version = runs[q].version
                      /\ GuardOf(runs[q]).expires = runs[q].expires
                      /\ GuardOf(runs[q]).records = runs[q].records
                      /\ runs[q].version \in Nat /\ runs[q].expires \in Nat
  BY <1>1 DEF GuardOf, TypeOK, Row
<1>4. StreamsIntact' /\ RowMatchesStream' /\ StreamsPast'
  BY <1>1 DEF StreamsIntact, RowMatchesStream, StreamsPast
<1>5. TransactionsAuthorized'
  BY <1>1 DEF QuietStep, TxnSound, TransactionsAuthorized
<1>6. ClaimsLock'
  <2> SUFFICES ASSUME NEW v \in Workers, txn'[v].op = "claim"
               PROVE  /\ Due(txn[v].run)'
                      /\ \A u \in Workers \ {v} :
                           ~(txn'[u].op = "claim" /\ txn'[u].run = txn'[v].run)
                      /\ (v = w \/ txn'[v] = txn[v])
    BY DEF ClaimsLock
  <2>1. CASE v = w
    BY <2>1 DEF QuietStep, TxnSound
  <2>2. CASE v # w
    <3>1. txn'[v] = txn[v]
      BY <2>2 DEF QuietStep
    <3>2. Due(txn[v].run)'
      BY <1>1, <3>1 DEF ClaimsLock, Due, LeaseLapsed
    <3>3. ASSUME NEW u \in Workers \ {v}, txn'[u].op = "claim"
          PROVE  txn'[u].run # txn'[v].run
      <4>1. CASE u = w
        BY <2>2, <3>3, <4>1 DEF QuietStep, TxnSound
      <4>2. CASE u # w
        <5>1. txn'[u] = txn[u]
          BY <4>2 DEF QuietStep
        <5> QED
          BY <1>1, <3>1, <3>3, <5>1 DEF ClaimsLock
      <4> QED
        BY <4>1, <4>2
    <3> QED
      BY <3>1, <3>2, <3>3
  <2> QED
    BY <2>1, <2>2
<1>7. LeaseKnowledge'
  <2> SUFFICES ASSUME NEW v \in Workers, NEW q \in Runs, Believes(v, q)'
               PROVE  /\ runs[q].holder = v
                      /\ runs[q].generation = view'[v][q].generation
                      /\ view'[v][q].expires <= runs[q].expires
    BY <1>1 DEF LeaseKnowledge
  <2>1. CASE view'[v][q] = view[v][q]
    BY <1>1, <2>1 DEF LeaseKnowledge, Believes
  <2>2. CASE view'[v][q] = NoGuard
    BY <1>2, <2>2 DEF Believes
  <2>3. CASE view'[v][q] = GuardOf(runs[q]) /\ runs[q].holder = v
    BY <1>3, <2>3
  <2> QED
    BY <2>1, <2>2, <2>3 DEF QuietStep
<1>8. VersionCoversRecords'
  <2>1. ASSUME NEW v \in Workers, NEW q \in Runs
        PROVE  /\ view'[v][q].version <= runs[q].version
               /\ view'[v][q].version = runs[q].version =>
                    view'[v][q].records = runs[q].records
    <3>1. CASE view'[v][q] = view[v][q]
      BY <1>1, <3>1 DEF VersionCoversRecords
    <3>2. CASE view'[v][q] = NoGuard
      BY <1>1, <1>2, <1>3, <3>2 DEF VersionCoversRecords
    <3>3. CASE view'[v][q] = GuardOf(runs[q])
      BY <1>3, <3>3
    <3> QED
      BY <3>1, <3>2, <3>3 DEF QuietStep
  <2>2. ASSUME NEW v \in Workers, txn'[v].op = "transition"
        PROVE  /\ txn'[v].version <= runs[txn'[v].run].version
               /\ txn'[v].version = runs[txn'[v].run].version =>
                    txn'[v].records = runs[txn'[v].run].records
    <3>1. CASE v = w
      BY <1>1, <2>2, <3>1 DEF QuietStep, TxnSound
    <3>2. CASE v # w
      BY <1>1, <2>2, <3>2 DEF QuietStep, VersionCoversRecords
    <3> QED
      BY <3>1, <3>2
  <2> QED
    BY <1>1, <2>1, <2>2 DEF VersionCoversRecords
<1> QED
  BY <1>4, <1>5, <1>6, <1>7, <1>8 DEF StoreInv

\* One worker's transaction is sound when the invariant holds.
LEMMA EachTxnSound ==
  ASSUME StoreInv, NEW w \in Workers
  PROVE  TxnSound(w)
BY DEF StoreInv, TransactionsAuthorized, ClaimsLock, VersionCoversRecords, TxnSound

\* A selected run was due and unlocked.
LEMMA SelectQuiet ==
  ASSUME StoreInv, NEW w \in Workers, SelectDue(w)
  PROVE  QuietStep(w)
<1>1. TypeOK
  BY DEF StoreInv
<1>2. PICK r \in Selectable, term \in LeaseTerms :
        txn' = [txn EXCEPT ![w] = [op |-> "claim", run |-> r, term |-> term]]
  BY DEF SelectDue
<1>3. /\ txn'[w].op = "claim" /\ txn'[w].run = r
      /\ \A v \in Workers \ {w} : txn'[v] = txn[v]
      /\ UNCHANGED <<clock, runs, streams, view>>
  BY <1>1, <1>2 DEF TypeOK, SelectDue
<1>4. Due(r)' /\ ~Locked(r)
  BY <1>3 DEF Selectable, Due, LeaseLapsed
<1>5. TxnSound(w)'
  BY <1>3, <1>4 DEF TxnSound, Locked
<1> QED
  BY <1>3, <1>5 DEF QuietStep

\* An authorized transition is accepted by the stream it was read from.
LEMMA AuthorizeTransitionQuiet ==
  ASSUME StoreInv, NEW w \in Workers, NEW r \in Runs, NEW to \in RunStatuses,
         AuthorizeTransition(w, r, to)
  PROVE  QuietStep(w)
<1> DEFINE e == LeaseEvent(w, r)
           t == [op |-> "transition", run |-> r, event |-> e,
                 from |-> streams[r].status, to |-> to,
                 version |-> view[w][r].version, records |-> view[w][r].records]
<1>1. TypeOK /\ VersionCoversRecords
  BY DEF StoreInv
<1>2. /\ txn' = [txn EXCEPT ![w] = t] /\ UNCHANGED <<clock, runs, streams, view>>
      /\ StatusAccepted(streams[r], e, streams[r].status, to)
  BY DEF AuthorizeTransition
<1>3. /\ e.worker = w /\ e.at = clock /\ e.sequence = streams[r].count
      /\ clock \in Nat /\ streams[r].count \in Nat
  BY <1>1, LeaseEventType, RunTypes
<1>4. /\ view[w][r].version <= runs[r].version
      /\ view[w][r].version = runs[r].version => view[w][r].records = runs[r].records
  BY <1>1 DEF VersionCoversRecords
<1> HIDE DEF e
<1>5. /\ t.op = "transition" /\ t.run = r /\ t.event = e /\ t.from = streams[r].status
      /\ t.to = to /\ t.version = view[w][r].version /\ t.records = view[w][r].records
  OBVIOUS
<1> HIDE DEF t
<1>6. txn'[w] = t /\ \A v \in Workers \ {w} : txn'[v] = txn[v]
  BY <1>1, <1>2 DEF TypeOK
<1>7. TxnSound(w)'
  BY <1>2, <1>3, <1>4, <1>5, <1>6 DEF TxnSound
<1> QED
  BY <1>2, <1>6, <1>7 DEF QuietStep

\* An authorized retry has its worker, a past time and a sequence in reach.
LEMMA AuthorizeRetryQuiet ==
  ASSUME StoreInv, NEW w \in Workers, NEW r \in Runs, NEW o \in RetryOperations,
         AuthorizeRetry(w, r, o)
  PROVE  QuietStep(w)
<1> DEFINE e == LeaseEvent(w, r)
           t == [op |-> "retry", run |-> r, event |-> e,
                 operation |-> o, attempt |-> streams[r].retries[o] + 1]
<1>1. TypeOK
  BY DEF StoreInv
<1>2. txn' = [txn EXCEPT ![w] = t] /\ UNCHANGED <<clock, runs, streams, view>>
  BY DEF AuthorizeRetry
<1>3. /\ e.worker = w /\ e.at = clock /\ e.sequence = streams[r].count
      /\ clock \in Nat /\ streams[r].count \in Nat
  BY <1>1, LeaseEventType, RunTypes
<1> HIDE DEF e
<1>4. t.op = "retry" /\ t.run = r /\ t.event = e
  OBVIOUS
<1> HIDE DEF t
<1>5. txn'[w] = t /\ \A v \in Workers \ {w} : txn'[v] = txn[v]
  BY <1>1, <1>2 DEF TypeOK
<1>6. TxnSound(w)'
  BY <1>2, <1>3, <1>4, <1>5 DEF TxnSound
<1> QED
  BY <1>2, <1>5, <1>6 DEF QuietStep

\* Re-reading a row, failing and crashing leave no more than they found.
LEMMA OtherQuiet ==
  ASSUME StoreInv, NEW w \in Workers,
         \/ \E r \in Runs : Snapshot(w, r)
         \/ Rejected(w)
         \/ Crash(w)
  PROVE  QuietStep(w)
<1>1. TypeOK /\ TxnSound(w)
  BY EachTxnSound DEF StoreInv
<1>2. NoTxn.op = "none"
  BY DEF NoTxn
<1>3. ASSUME NEW r \in Runs, Snapshot(w, r) PROVE QuietStep(w)
  <2>1. /\ UNCHANGED <<clock, runs, streams, txn>> /\ runs[r].holder = w
        /\ \A v \in Workers, q \in Runs :
             \/ view'[v][q] = view[v][q]
             \/ v = w /\ q = r /\ view'[v][q] = GuardOf(runs[r])
    BY <1>1, <1>3 DEF Snapshot, TypeOK
  <2>2. TxnSound(w)'
    BY <1>1, <2>1 DEF TxnSound, Due, LeaseLapsed
  <2> QED
    BY <2>1, <2>2 DEF QuietStep
<1>4. CASE Rejected(w)
  <2>1. /\ UNCHANGED <<clock, runs, streams, view>> /\ txn'[w] = NoTxn
        /\ \A v \in Workers \ {w} : txn'[v] = txn[v]
    BY <1>1, <1>4 DEF Rejected, TypeOK
  <2> QED
    BY <1>2, <2>1 DEF QuietStep, TxnSound
<1>5. CASE Crash(w)
  <2>1. /\ UNCHANGED <<clock, runs, streams>> /\ txn'[w] = NoTxn
        /\ \A v \in Workers \ {w} : txn'[v] = txn[v]
        /\ \A v \in Workers, q \in Runs :
             view'[v][q] = view[v][q] \/ view'[v][q] = NoGuard
    BY <1>1, <1>5 DEF Crash, TypeOK
  <2> QED
    BY <1>2, <2>1 DEF QuietStep, TxnSound
<1> QED
  BY <1>3, <1>4, <1>5

\* A new run disturbs nobody: no lease, claim or transaction is on it yet.
LEMMA CreateInv ==
  ASSUME StoreInv, TypeOK', NEW r \in Runs, CreateRun(r)
  PROVE  StoreInv'
<1> DEFINE row == NewRow(clock)
<1>1. /\ TypeOK /\ StreamsIntact /\ RowMatchesStream /\ TransactionsAuthorized
      /\ ClaimsLock /\ StreamsPast /\ LeaseKnowledge /\ VersionCoversRecords
  BY DEF StoreInv
<1>2. /\ runs' = [runs EXCEPT ![r] = row] /\ UNCHANGED <<clock, streams, view, txn>>
      /\ runs[r].status = "ABSENT"
  BY DEF CreateRun
<1>3. runs[r] = AbsentRow /\ streams[r] = EmptyStream /\ clock \in Nat
  BY <1>1, <1>2 DEF RowMatchesStream, TypeOK
<1>4. /\ row.status = "CREATED" /\ row.version = 0 /\ row.generation = 0
      /\ row.holder = NoWorker /\ row.nextAttempt = clock /\ row.records = 0
  BY <1>3, NewRowFields
<1>5. /\ AbsentRow.status = "ABSENT" /\ AbsentRow.version = 0 /\ AbsentRow.records = 0
      /\ AbsentRow.holder = NoWorker /\ EmptyStream.notBefore = 0
      /\ EmptyStream.status = "CREATED" /\ EmptyStream.holder = NoWorker
      /\ EmptyStream.generation = 0
  BY DEF AbsentRow, EmptyStream
<1> HIDE DEF row
<1>6. runs'[r] = row /\ \A q \in Runs \ {r} : runs'[q] = runs[q]
  BY <1>1, <1>2 DEF TypeOK
<1>7. "CREATED" \notin TerminalStatuses
  BY StatusTables
<1>8. \A w \in Workers : ~Believes(w, r)
  BY <1>1, <1>3, <1>5, EventsAssumption DEF LeaseKnowledge
<1>9. \A w \in Workers : txn[w].op = "claim" => txn[w].run # r
  BY <1>1, <1>2, StatusTables DEF ClaimsLock, Due, RunStatuses
<1>10. StreamsIntact' /\ RowMatchesStream'
  BY <1>1, <1>2, <1>3, <1>4, <1>5, <1>6 DEF StreamsIntact, RowMatchesStream
<1>11. TransactionsAuthorized'
  BY <1>1, <1>2 DEF TransactionsAuthorized
<1>12. ClaimsLock'
  <2> SUFFICES ASSUME NEW w \in Workers, txn[w].op = "claim" PROVE Due(txn[w].run)'
    BY <1>1, <1>2 DEF ClaimsLock
  <2>1. txn[w].run \in Runs \ {r} /\ Due(txn[w].run)
    BY <1>1, <1>9, TxnFields DEF ClaimsLock
  <2> QED
    BY <1>2, <1>6, <2>1 DEF Due, LeaseLapsed
<1>13. StreamsPast'
  BY <1>1, <1>2, <1>3, <1>4, <1>5, <1>6, <1>7 DEF StreamsPast
<1>14. LeaseKnowledge'
  BY <1>1, <1>2, <1>6, <1>8 DEF LeaseKnowledge, Believes
<1>15. VersionCoversRecords'
  <2>1. runs[r].version = row.version /\ runs[r].records = row.records
    BY <1>3, <1>4, <1>5
  <2>2. \A q \in Runs : runs'[q].version = runs[q].version /\ runs'[q].records = runs[q].records
    BY <1>6, <2>1
  <2>3. \A w \in Workers : txn[w].op = "transition" => txn[w].run \in Runs
    BY <1>1, TxnFields
  <2> QED
    BY <1>1, <1>2, <2>2, <2>3 DEF VersionCoversRecords
<1> QED
  BY <1>10, <1>11, <1>12, <1>13, <1>14, <1>15 DEF StoreInv

\* Time passing makes due runs and expired leases, never a lease.
LEMMA TickInv ==
  ASSUME StoreInv, TypeOK', Tick
  PROVE  StoreInv'
<1>1. /\ TypeOK /\ StreamsIntact /\ RowMatchesStream /\ TransactionsAuthorized
      /\ ClaimsLock /\ StreamsPast /\ LeaseKnowledge /\ VersionCoversRecords
  BY DEF StoreInv
<1>2. /\ clock' = clock + 1 /\ UNCHANGED <<runs, streams, view, txn>>
      /\ clock \in Nat
  BY <1>1 DEF Tick, TypeOK
<1>3. StreamsIntact' /\ RowMatchesStream' /\ VersionCoversRecords'
  BY <1>1, <1>2 DEF StreamsIntact, RowMatchesStream, VersionCoversRecords
<1>4. TransactionsAuthorized'
  <2>1. \A w \in Workers : txn[w].op \in {"transition", "retry"} => txn[w].event.at \in Nat
    BY <1>1, TxnFields DEF EventBase
  <2> QED
    BY <1>1, <1>2, <2>1 DEF TransactionsAuthorized
<1>5. ClaimsLock'
  <2>1. \A r \in Runs : runs[r].nextAttempt \in Nat /\ runs[r].expires \in Nat
    BY <1>1 DEF TypeOK, Row
  <2>2. \A w \in Workers : txn[w].op = "claim" => txn[w].run \in Runs
    BY <1>1, TxnFields
  <2>3. ASSUME NEW r \in Runs, Due(r) PROVE Due(r)'
    BY <1>2, <2>1, <2>3 DEF Due, LeaseLapsed
  <2> QED
    BY <1>1, <1>2, <2>2, <2>3 DEF ClaimsLock
<1>6. StreamsPast'
  <2>1. \A r \in Runs : streams[r].last \in Nat
    BY <1>1 DEF TypeOK, StreamState
  <2> QED
    BY <1>1, <1>2, <2>1 DEF StreamsPast
<1>7. LeaseKnowledge'
  <2>1. \A w \in Workers, r \in Runs : view[w][r].expires \in Nat
    BY <1>1 DEF TypeOK, Guard
  <2> QED
    BY <1>1, <1>2, <2>1 DEF LeaseKnowledge, Believes
<1> QED
  BY <1>3, <1>4, <1>5, <1>6, <1>7 DEF StoreInv

\* The invariant is inductive.
LEMMA NextInv ==
  ASSUME StoreInv, [Next]_vars
  PROVE  StoreInv'
<1>1. TypeOK'
  BY NextTyped DEF StoreInv
<1>2. ASSUME NEW r \in Runs, CreateRun(r) PROVE StoreInv'
  BY <1>1, <1>2, CreateInv
<1>3. ASSUME NEW w \in Workers, NEW r \in Runs, RunStep(w, r) PROVE StoreInv'
  BY <1>1, <1>3, RunStepInv
<1>4. ASSUME NEW w \in Workers, QuietStep(w) PROVE StoreInv'
  BY <1>1, <1>4, QuietStepInv
<1>5. ASSUME NEW w \in Workers, WorkerStep(w) PROVE StoreInv'
  <2>1. ASSUME txn[w].op \in {"claim", "transition", "retry"} PROVE txn[w].run \in Runs
    BY <2>1, TxnFields DEF StoreInv
  <2>2. CASE SelectDue(w)
    BY <1>4, <2>2, SelectQuiet
  <2>3. CASE ClaimDue(w)
    <3>1. txn[w].run \in Runs
      BY <2>1, <2>3 DEF ClaimDue
    <3> QED BY <1>3, <2>3, <3>1, ClaimStep
  <2>4. ASSUME NEW r \in Runs, RenewLease(w, r) PROVE StoreInv'
    BY <1>3, <2>4, RenewStep
  <2>5. ASSUME NEW r \in Runs, ReleaseLease(w, r) PROVE StoreInv'
    BY <1>3, <2>5, ReleaseStep
  <2>6. ASSUME NEW r \in Runs, AppendPositioned(w, r) PROVE StoreInv'
    BY <1>3, <2>6, AppendStep
  <2>7. ASSUME NEW r \in Runs, NEW to \in RunStatuses, AuthorizeTransition(w, r, to)
        PROVE  StoreInv'
    BY <1>4, <2>7, AuthorizeTransitionQuiet
  <2>8. ASSUME NEW r \in Runs, NEW o \in RetryOperations, AuthorizeRetry(w, r, o)
        PROVE  StoreInv'
    BY <1>4, <2>8, AuthorizeRetryQuiet
  <2>9. CASE Transition(w)
    <3>1. txn[w].run \in Runs
      BY <2>1, <2>9 DEF Transition
    <3> QED BY <1>3, <2>9, <3>1, TransitionStep
  <2>10. CASE ScheduleRetry(w)
    <3>1. txn[w].run \in Runs
      BY <2>1, <2>10 DEF ScheduleRetry
    <3> QED BY <1>3, <2>10, <3>1, RetryStep
  <2>11. CASE (\E r \in Runs : Snapshot(w, r)) \/ Rejected(w) \/ Crash(w)
    BY <1>4, <2>11, OtherQuiet
  <2> QED
    BY <1>5, <2>2, <2>3, <2>4, <2>5, <2>6, <2>7, <2>8, <2>9, <2>10, <2>11 DEF WorkerStep
<1>6. CASE Tick
  BY <1>1, <1>6, TickInv
<1>7. CASE UNCHANGED vars
  <2>1. UNCHANGED <<clock, runs, streams, view, txn>>
    BY <1>7 DEF vars
  <2>2. /\ StreamsIntact' /\ RowMatchesStream' /\ TransactionsAuthorized'
        /\ ClaimsLock' /\ StreamsPast'
    BY <2>1 DEF StoreInv, StreamsIntact, RowMatchesStream, TransactionsAuthorized,
                ClaimsLock, StreamsPast, Due, LeaseLapsed
  <2>3. LeaseKnowledge' /\ VersionCoversRecords'
    BY <2>1 DEF StoreInv, LeaseKnowledge, Believes, VersionCoversRecords
  <2> QED
    BY <1>1, <2>2, <2>3 DEF StoreInv
<1> QED
  BY <1>2, <1>5, <1>6, <1>7 DEF Next

-----------------------------------------------------------------------------
(* The theorems.                                                           *)

\* Every reachable state satisfies the inductive invariant.
THEOREM StoreInvariant == Spec => []StoreInv
<1>1. Init => StoreInv
  BY InitInv
<1>2. StoreInv /\ [Next]_vars => StoreInv'
  BY NextInv
<1> QED
  BY <1>1, <1>2, PTL DEF Spec

\* Every variable always has its type.
THEOREM StoreTyped == Spec => []TypeOK
<1>1. StoreInv => TypeOK
  BY DEF StoreInv
<1> QED
  BY <1>1, StoreInvariant, PTL

\* No run ever becomes unreadable: transition's authorization before the row
\* lock is made good by what it checks again under the lock.
THEOREM StreamsStayIntact == Spec => []StreamsIntact
<1>1. StoreInv => StreamsIntact
  BY DEF StoreInv
<1> QED
  BY <1>1, StoreInvariant, PTL

\* Row and stream agree after every transaction.
THEOREM RowsMatchStreams == Spec => []RowMatchesStream
<1>1. StoreInv => RowMatchesStream
  BY DEF StoreInv
<1> QED
  BY <1>1, StoreInvariant, PTL

\* Two workers never both have reason to think that they hold one run.
THEOREM LeasesAreExclusive == Spec => []ExclusiveLease
<1>1. StoreInv => ExclusiveLease
  BY DEF StoreInv, LeaseKnowledge, ExclusiveLease
<1> QED
  BY <1>1, StoreInvariant, PTL

\* A claim that holds its row is refused only by a full stream.
THEOREM ClaimsAreRefusedOnlyWhenFull == Spec => []ClaimRefusedOnlyWhenFull
<1>1. StoreInv => ClaimRefusedOnlyWhenFull
  <2> SUFFICES ASSUME StoreInv, NEW w \in Workers, txn[w].op = "claim",
                      ~Exhausted(txn[w].run)
               PROVE  ClaimAccepted(w)
    BY DEF ClaimRefusedOnlyWhenFull
  <2> DEFINE r == txn[w].run
             s == streams[r]
             e == AcquiredEvent(w, r)
  <2>1. TypeOK /\ RowMatchesStream /\ ClaimsLock /\ StreamsIntact /\ StreamsPast
    BY DEF StoreInv
  <2>2. r \in Runs /\ txn[w].term \in Nat /\ txn[w].term > 0
    <3>1. r \in Runs /\ txn[w].term \in LeaseTerms
      BY <2>1, TxnFields
    <3>2. txn[w].term \in Nat \ {0}
      BY <3>1, StoreAssumption
    <3> QED
      BY <3>1, <3>2
  <2>3. /\ clock \in Nat /\ s \in StreamState /\ s.count \in Nat /\ MaxEvents \in Nat
        /\ runs[r].generation \in Nat
    BY <2>1, <2>2, RunTypes, EventsAssumption DEF Row
  <2>4. runs[r].status \in ActiveStatuses /\ LeaseLapsed(runs[r])
    BY <2>1 DEF ClaimsLock, Due
  <2>5. runs[r].status # "ABSENT"
    BY <2>4, StatusTables DEF RunStatuses
  <2>6. /\ s.status \in ActiveStatuses /\ s.holder = runs[r].holder /\ s.intact
        /\ s.generation = runs[r].generation /\ s.last <= clock
        /\ runs[r].holder # NoWorker => runs[r].expires = s.expires
    BY <2>1, <2>2, <2>4, <2>5 DEF RowMatchesStream, StreamsIntact, StreamsPast
  <2>7. /\ e.at = clock /\ e.generation = runs[r].generation + 1
        /\ e.sequence = Vacated(r).count
    BY DEF AcquiredEvent
  <2>8. CASE runs[r].holder = NoWorker
    <3>1. Vacated(r) = s
      BY <2>8 DEF Vacated
    <3>2. s.count < MaxEvents
      BY <2>3, <2>8 DEF Exhausted
    <3> HIDE DEF e, r, s
    <3>3. AcquiredAccepted(s, e, clock + txn[w].term)
      BY <2>2, <2>3, <2>6, <2>7, <2>8, <3>1, <3>2 DEF AcquiredAccepted, Continues
    <3> QED
      BY <2>6, <2>8, <3>1, <3>3 DEF ClaimAccepted, e, r, s
  <2>9. CASE runs[r].holder # NoWorker
    <3> DEFINE gone == ExpiryEvent(r)
    <3>1. Vacated(r) = AfterLeaseEnd(s, gone)
      BY <2>9 DEF Vacated
    <3>2. s.count + 1 < MaxEvents
      BY <2>3, <2>9 DEF Exhausted
    <3>3. /\ gone.worker = runs[r].holder /\ gone.generation = runs[r].generation
          /\ gone.at = clock /\ gone.sequence = s.count
      BY DEF ExpiryEvent
    <3>4. runs[r].expires <= clock
      BY <2>4, <2>9 DEF LeaseLapsed
    <3> HIDE DEF e, r, s, gone
    <3>5. ExpiredAccepted(s, gone)
      BY <2>3, <2>6, <2>9, <3>2, <3>3, <3>4 DEF ExpiredAccepted, OwnsLease, Continues
    <3>6. /\ Vacated(r).status = s.status /\ Vacated(r).holder = NoWorker
          /\ Vacated(r).generation = s.generation
          /\ Vacated(r).count = s.count + 1 /\ Vacated(r).last = clock
      BY <2>3, <3>1, <3>3, AfterLeaseEndFields
    <3>7. AcquiredAccepted(Vacated(r), e, clock + txn[w].term)
      BY <2>2, <2>3, <2>6, <2>7, <3>2, <3>6 DEF AcquiredAccepted, Continues
    <3> QED
      BY <2>6, <3>5, <3>7 DEF ClaimAccepted, e, r, s, gone
  <2> QED
    BY <2>8, <2>9
<1> QED
  BY <1>1, StoreInvariant, PTL

-----------------------------------------------------------------------------
(* What a step may do to a run.                                            *)

\* Every step leaves a run alone, creates it, or is one of the six
\* transactions on it.
LEMMA RunSteps ==
  ASSUME StoreInv, [Next]_vars, NEW r \in Runs
  PROVE  \/ runs'[r] = runs[r] /\ streams'[r] = streams[r]
         \/ CreateRun(r)
         \/ \E w \in Workers :
              /\ RunStep(w, r)
              /\ \/ /\ Leaves(r, runs[r].status, runs[r].generation + 1, w)
                    /\ Due(r)
                 \/ /\ runs[r].holder = w /\ runs[r].status \notin TerminalStatuses
                    /\ \/ Leaves(r, runs[r].status, runs[r].generation, w)
                       \/ Leaves(r, runs[r].status, runs[r].generation, NoWorker)
                       \/ /\ txn[w].op = "transition" /\ txn[w].run = r
                          /\ txn[w].to \in RunStatuses
                          /\ txn[w].records = runs[r].records
                          /\ IsAdjacent(runs[r].status, txn[w].to)
                          /\ Leaves(r, txn[w].to, runs[r].generation,
                                    IF txn[w].to \in TerminalStatuses
                                      THEN NoWorker ELSE w)
<1> DEFINE Same(q) == runs'[q] = runs[q] /\ streams'[q] = streams[q]
           Lease(w, q) ==
             \/ Leaves(q, runs[q].status, runs[q].generation, w)
             \/ Leaves(q, runs[q].status, runs[q].generation, NoWorker)
           Moved(w, q) ==
             /\ txn[w].op = "transition" /\ txn[w].run = q
             /\ txn[w].to \in RunStatuses
             /\ txn[w].records = runs[q].records
             /\ IsAdjacent(runs[q].status, txn[w].to)
             /\ Leaves(q, txn[w].to, runs[q].generation,
                       IF txn[w].to \in TerminalStatuses THEN NoWorker ELSE w)
           Step(w, q) ==
             /\ RunStep(w, q)
             /\ \/ Leaves(q, runs[q].status, runs[q].generation + 1, w) /\ Due(q)
                \/ /\ runs[q].holder = w /\ runs[q].status \notin TerminalStatuses
                   /\ Lease(w, q) \/ Moved(w, q)
<1>1. TypeOK
  BY DEF StoreInv
<1>2. ASSUME NEW w \in Workers, NEW q \in Runs, Step(w, q) PROVE Same(r) \/ Step(w, r)
  <2>1. q # r => Same(r)
    BY <1>2 DEF RunStep
  <2> QED
    BY <1>2, <2>1
<1>3. ASSUME NEW w \in Workers, WorkerStep(w) PROVE Same(r) \/ Step(w, r)
  <2>1. ASSUME QuietStep(w) PROVE Same(r)
    BY <2>1 DEF QuietStep
  <2>2. CASE SelectDue(w)
    BY <2>1, <2>2, SelectQuiet
  <2>3. CASE ClaimDue(w)
    <3>1. txn[w].run \in Runs
      BY <1>1, <2>3, TxnFields DEF ClaimDue
    <3>2. Step(w, txn[w].run)
      BY <2>3, ClaimStep
    <3> QED
      BY <1>2, <3>1, <3>2
  <2>4. ASSUME NEW q \in Runs, RenewLease(w, q) PROVE Same(r) \/ Step(w, r)
    <3>1. Step(w, q)
      BY <2>4, RenewStep
    <3> QED
      BY <1>2, <3>1
  <2>5. ASSUME NEW q \in Runs, ReleaseLease(w, q) PROVE Same(r) \/ Step(w, r)
    <3>1. Step(w, q)
      BY <2>5, ReleaseStep
    <3> QED
      BY <1>2, <3>1
  <2>6. ASSUME NEW q \in Runs, AppendPositioned(w, q) PROVE Same(r) \/ Step(w, r)
    <3>1. Step(w, q)
      BY <2>6, AppendStep
    <3> QED
      BY <1>2, <3>1
  <2>7. ASSUME NEW q \in Runs, NEW to \in RunStatuses, AuthorizeTransition(w, q, to)
        PROVE  Same(r)
    BY <2>1, <2>7, AuthorizeTransitionQuiet
  <2>8. ASSUME NEW q \in Runs, NEW o \in RetryOperations, AuthorizeRetry(w, q, o)
        PROVE  Same(r)
    BY <2>1, <2>8, AuthorizeRetryQuiet
  <2>9. CASE Transition(w)
    <3>1. txn[w].op = "transition" /\ txn[w].run \in Runs /\ txn[w].to \in RunStatuses
      BY <1>1, <2>9, TxnFields DEF Transition
    <3>2. IsAdjacent(runs[txn[w].run].status, txn[w].to)
          /\ RunStep(w, txn[w].run) /\ runs[txn[w].run].holder = w
      BY <2>9, TransitionStep
    <3>3. Moved(w, txn[w].run)
      BY <2>9, <3>1, TransitionStep
    <3>4. runs[txn[w].run].status \notin TerminalStatuses
      BY <3>2, StatusTables DEF IsAdjacent
    <3> HIDE DEF Moved
    <3>5. Step(w, txn[w].run)
      BY <3>2, <3>3, <3>4
    <3> HIDE DEF Step
    <3> QED
      BY <1>2, <3>1, <3>5
  <2>10. CASE ScheduleRetry(w)
    <3>1. txn[w].run \in Runs
      BY <1>1, <2>10, TxnFields DEF ScheduleRetry
    <3>2. Step(w, txn[w].run)
      BY <2>10, RetryStep
    <3> QED
      BY <1>2, <3>1, <3>2
  <2>11. CASE (\E q \in Runs : Snapshot(w, q)) \/ Rejected(w) \/ Crash(w)
    BY <2>1, <2>11, OtherQuiet
  <2> HIDE DEF Step, Same
  <2> QED
    BY <1>3, <2>2, <2>3, <2>4, <2>5, <2>6, <2>7, <2>8, <2>9, <2>10, <2>11 DEF WorkerStep
<1>4. ASSUME NEW q \in Runs, CreateRun(q) PROVE Same(r) \/ CreateRun(r)
  <2>1. q # r => Same(r)
    BY <1>1, <1>4 DEF CreateRun, TypeOK
  <2> QED
    BY <1>4, <2>1
<1>5. ASSUME Tick PROVE Same(r)
  BY <1>5 DEF Tick
<1>6. ASSUME UNCHANGED vars PROVE Same(r)
  BY <1>6 DEF vars
<1>7. Same(r) \/ CreateRun(r) \/ \E w \in Workers : Step(w, r)
  <2> HIDE DEF Step, Same
  <2> QED
    BY <1>3, <1>4, <1>5, <1>6 DEF Next
<1> QED
  BY <1>7

\* A finished run's row and stream never change again.
THEOREM FinishedRunsAreImmutable == Spec => TerminalImmutable
<1>1. StoreInv /\ [Next]_vars =>
        \A r \in Runs : runs[r].status \in TerminalStatuses =>
          runs'[r] = runs[r] /\ streams'[r] = streams[r]
  <2> SUFFICES ASSUME StoreInv, [Next]_vars, NEW r \in Runs,
                      runs[r].status \in TerminalStatuses
               PROVE  runs'[r] = runs[r] /\ streams'[r] = streams[r]
    OBVIOUS
  <2>1. ~CreateRun(r)
    BY StatusTables DEF CreateRun, RunStatuses
  <2>2. ~Due(r)
    BY StatusTables DEF Due
  <2> QED
    BY <2>1, <2>2, RunSteps
<1> QED
  BY <1>1, StoreInvariant, PTL DEF Spec, TerminalImmutable

\* A run put off for a retry is not claimed before its backoff has passed.
THEOREM BackoffsAreHonoured == Spec => BackoffHonoured
<1>1. StoreInv /\ [Next]_vars =>
        \A r \in Runs : runs'[r].generation # runs[r].generation =>
          clock >= streams[r].notBefore
  <2> SUFFICES ASSUME StoreInv, [Next]_vars, NEW r \in Runs,
                      runs'[r].generation # runs[r].generation
               PROVE  clock >= streams[r].notBefore
    OBVIOUS
  <2>1. TypeOK /\ StreamsPast /\ RowMatchesStream
    BY DEF StoreInv
  <2>2. /\ clock \in Nat /\ runs[r].nextAttempt \in Nat /\ streams[r].notBefore \in Nat
        /\ streams[r].notBefore <= runs[r].nextAttempt
    BY <2>1 DEF TypeOK, Row, StreamState, StreamsPast
  <2>3. CASE CreateRun(r)
    <3>1. runs'[r] = NewRow(clock) /\ runs[r] = AbsentRow
      BY <2>1, <2>3 DEF CreateRun, RowMatchesStream, TypeOK
    <3>2. NewRow(clock).generation = 0 /\ AbsentRow.generation = 0
      BY <2>2, NewRowFields DEF AbsentRow
    <3> QED
      BY <3>1, <3>2
  <2>4. CASE Due(r)
    BY <2>2, <2>4 DEF Due
  <2> QED
    BY <2>3, <2>4, RunSteps DEF Leaves
<1> QED
  BY <1>1, StoreInvariant, PTL DEF Spec, BackoffHonoured

\* A status never changes over a record its author had not seen.
THEOREM NoRecordUnseen == Spec => NoUnseenRecord
<1>1. StoreInv /\ [Next]_vars =>
        \A r \in Runs :
          runs[r].status \notin {"ABSENT", runs'[r].status} =>
            \E w \in Workers :
              /\ txn[w].op = "transition" /\ txn[w].run = r
              /\ txn[w].records = runs[r].records
  <2> SUFFICES ASSUME StoreInv, [Next]_vars, NEW r \in Runs,
                      runs[r].status \notin {"ABSENT", runs'[r].status}
               PROVE  \E w \in Workers :
                        /\ txn[w].op = "transition" /\ txn[w].run = r
                        /\ txn[w].records = runs[r].records
    OBVIOUS
  <2>1. ~CreateRun(r)
    BY DEF CreateRun
  <2> QED
    BY <2>1, RunSteps DEF Leaves
<1> QED
  BY <1>1, StoreInvariant, PTL DEF Spec, NoUnseenRecord

\* The store implements the abstract life of a run: creation is a submission, a
\* claim a grant, a release or a retry a yield, a transition an advance, and
\* every other step leaves phase, owner and epoch alone.
THEOREM StoreImplementsLifecycle == Spec => ImplementsLifecycle
<1> DEFINE phase == [r \in Runs |-> runs[r].status]
           owner == [r \in Runs |-> runs[r].holder]
           epoch == [r \in Runs |-> runs[r].generation]
           Kept(q) == /\ runs'[q].status = runs[q].status
                      /\ runs'[q].generation = runs[q].generation
                      /\ runs'[q].holder = runs[q].holder
           Others(r) == \A q \in Runs \ {r} : runs'[q] = runs[q]
<1>1. Init => Lifecycle!LifecycleInit
  BY DEF Init, AbsentRow, Lifecycle!LifecycleInit
<1>2. StoreInv /\ [Next]_vars => [Lifecycle!LifecycleNext]_(Lifecycle!lifecycleVars)
  <2> SUFFICES ASSUME StoreInv, [Next]_vars
               PROVE  Lifecycle!LifecycleNext \/ UNCHANGED <<phase, owner, epoch>>
    BY DEF Lifecycle!lifecycleVars
  <2>1. TypeOK /\ RowMatchesStream
    BY DEF StoreInv
  <2>2. ASSUME NEW r \in Runs, CreateRun(r) PROVE Lifecycle!Submit(r)
    <3>1. runs[r] = AbsentRow /\ runs'[r] = NewRow(clock) /\ Others(r) /\ clock \in Nat
      BY <2>1, <2>2 DEF CreateRun, RowMatchesStream, TypeOK
    <3>2. /\ NewRow(clock).status = "CREATED" /\ NewRow(clock).generation = 0
          /\ NewRow(clock).holder = NoWorker
          /\ AbsentRow.status = "ABSENT" /\ AbsentRow.generation = 0
          /\ AbsentRow.holder = NoWorker
      BY <3>1, NewRowFields DEF AbsentRow
    <3> QED
      BY <3>1, <3>2 DEF Lifecycle!Submit
  <2>3. ASSUME NEW r \in Runs, NEW w \in Workers, Others(r), Due(r),
               Leaves(r, runs[r].status, runs[r].generation + 1, w)
        PROVE  Lifecycle!Grant(r, w)
    <3>1. runs[r].status \in Lifecycle!ActiveStatuses
      BY <2>3 DEF Due, ActiveStatuses, Lifecycle!ActiveStatuses
    <3>2. /\ [q \in Runs |-> runs'[q].status] = [q \in Runs |-> runs[q].status]
          /\ [q \in Runs |-> runs'[q].holder]
               = [[q \in Runs |-> runs[q].holder] EXCEPT ![r] = w]
          /\ [q \in Runs |-> runs'[q].generation]
               = [[q \in Runs |-> runs[q].generation] EXCEPT
                    ![r] = runs[r].generation + 1]
      BY <2>3 DEF Leaves
    <3> QED
      BY <3>1, <3>2 DEF Lifecycle!Grant
  <2>4. ASSUME NEW r \in Runs, NEW w \in Workers, Others(r), runs[r].holder = w,
               Leaves(r, runs[r].status, runs[r].generation, NoWorker)
        PROVE  Lifecycle!Yield(r)
    BY <2>4, EventsAssumption DEF Leaves, Lifecycle!Yield
  <2>5. ASSUME NEW r \in Runs, NEW w \in Workers, NEW to \in RunStatuses, Others(r),
               runs[r].holder = w, IsAdjacent(runs[r].status, to),
               Leaves(r, to, runs[r].generation,
                      IF to \in TerminalStatuses THEN NoWorker ELSE w)
        PROVE  Lifecycle!Advance(r, to)
    <3>1. Lifecycle!IsAdjacent(runs[r].status, to)
      BY <2>5 DEF IsAdjacent, ActiveStatuses, SuccessEdges, FailureEdges,
                  Lifecycle!IsAdjacent, Lifecycle!ActiveStatuses,
                  Lifecycle!SuccessEdges, Lifecycle!FailureEdges
    <3>2. Lifecycle!TerminalStatuses = TerminalStatuses
      BY DEF TerminalStatuses, Lifecycle!TerminalStatuses
    <3>3. /\ [q \in Runs |-> runs'[q].status]
               = [[q \in Runs |-> runs[q].status] EXCEPT ![r] = to]
          /\ [q \in Runs |-> runs'[q].holder]
               = [[q \in Runs |-> runs[q].holder] EXCEPT
                    ![r] = IF to \in TerminalStatuses
                             THEN NoWorker ELSE runs[r].holder]
          /\ [q \in Runs |-> runs'[q].generation]
               = [q \in Runs |-> runs[q].generation]
      BY <2>5 DEF Leaves
    <3>4. runs[r].holder # NoWorker
      BY <2>5, EventsAssumption
    <3> QED
      BY <3>1, <3>2, <3>3, <3>4 DEF Lifecycle!Advance
  <2>6. ASSUME NEW r \in Runs, ~Kept(r)
        PROVE  Lifecycle!LifecycleNext
    <3>1. ASSUME NEW w \in Workers, RunStep(w, r) PROVE Others(r)
      BY <3>1 DEF RunStep
    <3>2. CASE CreateRun(r)
      BY <2>2, <3>2 DEF Lifecycle!LifecycleNext
    <3>3. ASSUME ~CreateRun(r) PROVE Lifecycle!LifecycleNext
      <4>1. PICK w \in Workers :
              /\ RunStep(w, r)
              /\ \/ /\ Leaves(r, runs[r].status, runs[r].generation + 1, w)
                    /\ Due(r)
                 \/ /\ runs[r].holder = w
                    /\ \/ Leaves(r, runs[r].status, runs[r].generation, w)
                       \/ Leaves(r, runs[r].status, runs[r].generation, NoWorker)
                       \/ /\ txn[w].to \in RunStatuses
                          /\ IsAdjacent(runs[r].status, txn[w].to)
                          /\ Leaves(r, txn[w].to, runs[r].generation,
                                    IF txn[w].to \in TerminalStatuses
                                      THEN NoWorker ELSE w)
        BY <2>6, <3>3, RunSteps
      <4>2. Others(r)
        BY <3>1, <4>1
      <4>3. ASSUME runs[r].holder = w,
                   Leaves(r, runs[r].status, runs[r].generation, w)
            PROVE  FALSE
        BY <2>6, <4>3 DEF Leaves
      <4>4. CASE Leaves(r, runs[r].status, runs[r].generation + 1, w) /\ Due(r)
        <5>1. Lifecycle!Grant(r, w)
          BY <2>3, <4>2, <4>4
        <5> QED
          BY <5>1 DEF Lifecycle!LifecycleNext
      <4>5. CASE /\ runs[r].holder = w
                 /\ Leaves(r, runs[r].status, runs[r].generation, NoWorker)
        <5>1. Lifecycle!Yield(r)
          BY <2>4, <4>2, <4>5
        <5> QED
          BY <5>1 DEF Lifecycle!LifecycleNext
      <4>6. CASE /\ runs[r].holder = w
                 /\ txn[w].to \in RunStatuses
                 /\ IsAdjacent(runs[r].status, txn[w].to)
                 /\ Leaves(r, txn[w].to, runs[r].generation,
                           IF txn[w].to \in TerminalStatuses THEN NoWorker ELSE w)
        <5>1. PICK to \in RunStatuses : to = txn[w].to
          BY <4>6
        <5>2. Leaves(r, to, runs[r].generation,
                     IF to \in TerminalStatuses THEN NoWorker ELSE w)
          BY <4>6, <5>1
        <5>3. Lifecycle!Advance(r, to)
          BY <2>5, <4>2, <4>6, <5>1, <5>2
        <5>4. to \in Lifecycle!RunStatuses
          BY DEF RunStatuses, ActiveStatuses, TerminalStatuses,
             Lifecycle!RunStatuses, Lifecycle!ActiveStatuses,
             Lifecycle!TerminalStatuses
        <5> QED
          BY <5>3, <5>4 DEF Lifecycle!LifecycleNext
      <4> QED
        BY <4>1, <4>3, <4>4, <4>5, <4>6
    <3> QED
      BY <3>2, <3>3
  <2>7. CASE \A r \in Runs : Kept(r)
    BY <2>7
  <2> QED
    BY <2>6, <2>7
<1> QED
  BY <1>1, <1>2, StoreInvariant, PTL DEF Spec, ImplementsLifecycle, Lifecycle!LifecycleSpec

==============================================================================
