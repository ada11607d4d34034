-------------------------- MODULE OutboxRelay_proofs --------------------------
(***************************************************************************)
(* Proofs about OutboxRelay, for any number of overlapping runs, orders    *)
(* and events, any batch size and any number of failures and deaths.       *)
(* There may be infinitely many events, but each order has finitely many.  *)
(***************************************************************************)
EXTENDS OutboxRelay, WellFoundedInduction, FiniteSetTheorems, TLAPS

\* Every nonempty set of naturals has a least element.
LEMMA LeastNat ==
  ASSUME NEW T \in SUBSET Nat, T # {}
  PROVE  \E x \in T : \A y \in T : x <= y
  <1>1. PICK x \in T : \A y \in T : <<y, x>> \notin OpToRel(<, Nat)
    BY NatLessThanWellFounded, WFMin
  <1>2. \A y \in T : ~(y < x)
    BY <1>1 DEF OpToRel
  <1> QED
    BY <1>2

\* The event a run works on is the oldest of its batch.
LEMMA MessageIsOldest ==
  ASSUME NEW w \in Runs, todo[w] \subseteq Nat, todo[w] # {}
  PROVE  Message(w) \in todo[w] /\ \A d \in todo[w] : Message(w) <= d
  BY LeastNat DEF Message

-----------------------------------------------------------------------------
\* Events are natural numbers.
LEMMA TodoIsNat ==
  ASSUME TypeOK, NEW w \in Runs
  PROVE  todo[w] \subseteq Nat /\ Marked(w) \subseteq Nat
  <1>1. Events \subseteq Nat
    BY EventAssumption
  <1> QED
    BY <1>1 DEF TypeOK, Marked

\* Nothing is stored, marked or published at the start.
LEMMA InitRelayInv == Init => RelayInv
  <1> SUFFICES ASSUME Init PROVE RelayInv
    OBVIOUS
  <1>1. stored = {} /\ owner \in [stored -> Orders]
    BY DEF Init, stored
  <1>2. TypeOK
    BY <1>1, RelayBounds DEF Init, TypeOK
  <1> QED
    BY <1>2 DEF Init, RelayInv, SentWasPublished, RunInv, Marked

\* Every step keeps the types.
LEMMA RelayNextType ==
  ASSUME RelayInv, [Next]_vars
  PROVE  TypeOK'
  <1>0. owner' = owner => stored' = stored
    BY DEF stored
  <1> USE <1>0 DEF RelayInv, TypeOK
  <1>1. ASSUME NEW o \in Orders, NEW new \in RowSets, PlaceOrder(o, new)
        PROVE  TypeOK'
    <2>1. /\ stored' = stored \cup new /\ owner' \in [stored' -> Orders]
          /\ new \subseteq Events
      BY <1>1, EventAssumption DEF PlaceOrder, stored
    <2> QED
      BY <1>1, <2>1 DEF PlaceOrder
  <1>2. ASSUME NEW w \in Runs, Start(w)
        PROVE  TypeOK'
    BY <1>2 DEF Start, Goto, Oldest, Pending, rows
  <1>3. ASSUME NEW w \in Runs, todo[w] # {}
        PROVE  Message(w) \in stored
    BY <1>3, TodoIsNat, MessageIsOldest
  <1>4. ASSUME NEW w \in Runs, Publish(w)
        PROVE  TypeOK'
    BY <1>3, <1>4 DEF Publish, Goto, rows
  <1>5. ASSUME NEW w \in Runs, MarkSent(w)
        PROVE  TypeOK'
    BY <1>3, <1>5 DEF MarkSent, Goto, rows, RunInv
  <1>6. ASSUME NEW w \in Runs, MarkFailed(w)
        PROVE  TypeOK'
    BY <1>3, <1>6 DEF MarkFailed, Goto, rows, RunInv
  <1>7. ASSUME NEW w \in Runs, PublishFails(w)
        PROVE  TypeOK'
    BY <1>7, RelayBounds DEF PublishFails, Goto, rows
  <1>8. ASSUME NEW w \in Runs, Commit(w)
        PROVE  TypeOK'
    BY <1>8 DEF Commit, Close, Goto
  <1>9. ASSUME NEW w \in Runs, RunDies(w)
        PROVE  TypeOK'
    BY <1>9, RelayBounds DEF RunDies, Close, Goto, rows
  <1>10. CASE UNCHANGED vars
    BY <1>10 DEF vars, rows
  <1> QED
    BY <1>1, <1>2, <1>4, <1>5, <1>6, <1>7, <1>8, <1>9, <1>10 DEF Next, Fail, Work

\* A run whose locals stay as they are keeps its part of the invariant.
LEMMA RunStays ==
  ASSUME NEW w \in Runs, RunInv(w), published \subseteq published',
         pc'[w] = pc[w], todo'[w] = todo[w],
         markedSent'[w] = markedSent[w], markedFailed'[w] = markedFailed[w]
  PROVE  RunInv(w)'
  BY DEF RunInv, Marked, Message

\* A run's own step keeps its part of the invariant.
LEMMA RunKeeps ==
  ASSUME RelayInv, NEW w \in Runs,
         Start(w) \/ Work(w) \/ PublishFails(w) \/ RunDies(w)
  PROVE  RunInv(w)'
  <1>1. /\ todo[w] \subseteq Nat /\ Marked(w) \subseteq Nat
        /\ todo[w] # {} => /\ Message(w) \in todo[w]
                          /\ \A d \in todo[w] : Message(w) <= d
    BY TodoIsNat, MessageIsOldest DEF RelayInv
  <1>2. RunInv(w) /\ TypeOK
    BY DEF RelayInv
  <1>3. CASE Start(w)
    <2>1. /\ pc'[w] = "publish" /\ Marked(w) = {}
          /\ markedSent' = markedSent /\ markedFailed' = markedFailed
      BY <1>2, <1>3 DEF Start, Goto, RunInv, TypeOK
    <2> QED
      BY <2>1 DEF RunInv, Marked
  <1>4. CASE Publish(w)
    <2>1. /\ pc'[w] = "mark" /\ todo' = todo /\ todo[w] # {}
          /\ markedSent' = markedSent /\ markedFailed' = markedFailed
          /\ published' = published \cup {Message(w)}
      BY <1>2, <1>4 DEF Publish, Goto, TypeOK
    <2>2. Message(w)' = Message(w) /\ Marked(w)' = Marked(w)
      BY <2>1 DEF Message, Marked
    <2> QED
      BY <1>2, <2>1, <2>2 DEF RunInv
  <1>5. CASE MarkSent(w) \/ MarkFailed(w)
    <2>1. /\ pc'[w] = "publish" /\ todo'[w] = todo[w] \ {Message(w)}
          /\ Marked(w)' = Marked(w) \cup {Message(w)}
          /\ todo[w] # {} /\ published' = published
      BY <1>2, <1>5 DEF MarkSent, MarkFailed, Goto, Marked, TypeOK, RunInv
    <2>2. markedSent'[w] \subseteq published
      BY <1>2, <1>5 DEF MarkSent, MarkFailed, TypeOK, RunInv
    <2>3. \A e \in Marked(w)', d \in todo'[w] : e < d
      BY <1>1, <1>2, <2>1 DEF RunInv
    <2> QED
      BY <2>1, <2>2, <2>3 DEF RunInv
  <1>6. CASE PublishFails(w)
    <2>1. /\ pc'[w] = "fail" /\ todo' = todo /\ todo[w] # {}
          /\ markedSent' = markedSent /\ markedFailed' = markedFailed
          /\ published' = published
      BY <1>2, <1>6 DEF PublishFails, Goto, TypeOK
    <2> QED
      BY <1>2, <2>1 DEF RunInv, Marked
  <1>7. CASE Commit(w) \/ RunDies(w)
    <2>1. pc'[w] = "idle" /\ markedSent'[w] = {} /\ markedFailed'[w] = {}
      BY <1>2, <1>7 DEF Commit, RunDies, Close, Goto, TypeOK
    <2> QED
      BY <2>1 DEF RunInv, Marked
  <1> QED
    BY <1>3, <1>4, <1>5, <1>6, <1>7 DEF Work

\* A run's step leaves the locals of the other runs alone.
LEMMA OtherRuns ==
  ASSUME TypeOK, NEW w \in Runs, NEW v \in Runs \ {w},
         Start(w) \/ Work(w) \/ PublishFails(w) \/ RunDies(w)
  PROVE  /\ pc'[v] = pc[v] /\ todo'[v] = todo[v]
         /\ markedSent'[v] = markedSent[v] /\ markedFailed'[v] = markedFailed[v]
         /\ published \subseteq published'
  BY DEF TypeOK, Start, Work, Publish, MarkSent, MarkFailed, Commit,
     PublishFails, RunDies, Close, Goto

\* Only what a run has marked becomes sent.
LEMMA SentKeeps ==
  ASSUME RelayInv, [Next]_vars
  PROVE  SentWasPublished'
  <1>1. ASSUME NEW w \in Runs, Commit(w)
        PROVE  SentWasPublished'
    BY <1>1 DEF RelayInv, RunInv, SentWasPublished, Commit
  <1>2. ASSUME NEW w \in Runs, Start(w) \/ Publish(w) \/ MarkSent(w)
                 \/ MarkFailed(w) \/ PublishFails(w) \/ RunDies(w)
        PROVE  SentWasPublished'
    BY <1>2 DEF RelayInv, SentWasPublished, Start, Publish, MarkSent, MarkFailed,
       PublishFails, RunDies, rows
  <1>3. ASSUME NEW o \in Orders, NEW new \in RowSets, PlaceOrder(o, new)
        PROVE  SentWasPublished'
    BY <1>3 DEF RelayInv, SentWasPublished, PlaceOrder
  <1>4. CASE UNCHANGED vars
    BY <1>4 DEF RelayInv, SentWasPublished, vars, rows
  <1> QED
    BY <1>1, <1>2, <1>3, <1>4 DEF Next, Fail, Work

\* Every step keeps the invariant.
LEMMA NextRelayInv == RelayInv /\ [Next]_vars => RelayInv'
  <1> SUFFICES ASSUME RelayInv, [Next]_vars PROVE RelayInv'
    OBVIOUS
  <1>1. TypeOK /\ \A w \in Runs : RunInv(w)
    BY DEF RelayInv
  <1>2. ASSUME NEW w \in Runs,
               Start(w) \/ Work(w) \/ PublishFails(w) \/ RunDies(w),
               NEW v \in Runs
        PROVE  RunInv(v)'
    <2>1. CASE v = w
      BY <1>2, <2>1, RunKeeps
    <2>2. CASE v # w
      BY <1>1, <1>2, <2>2, OtherRuns, RunStays
    <2> QED
      BY <2>1, <2>2
  <1>3. ASSUME NEW o \in Orders, NEW new \in RowSets, PlaceOrder(o, new),
               NEW v \in Runs
        PROVE  RunInv(v)'
    BY <1>1, <1>3, RunStays DEF PlaceOrder
  <1>4. ASSUME UNCHANGED vars, NEW v \in Runs
        PROVE  RunInv(v)'
    BY <1>1, <1>4, RunStays DEF vars
  <1>5. \A v \in Runs : RunInv(v)'
    BY <1>2, <1>3, <1>4 DEF Next, Fail
  <1> QED
    BY <1>5, RelayNextType, SentKeeps DEF RelayInv

-----------------------------------------------------------------------------
\* What runs in flight owe to what is committed holds in every reachable
\* state: marks are published events older than what is still to be marked
\* (_async_process_outbox).
THEOREM RelayInvariant == Spec => []RelayInv
  BY InitRelayInv, NextRelayInv, PTL DEF Spec

\* Every variable keeps its type (PgOutboxRepository, process_outbox).
THEOREM RelayTypeCorrect == Spec => []TypeOK
  <1>1. RelayInv => TypeOK
    BY DEF RelayInv
  <1> QED
    BY <1>1, InitRelayInv, NextRelayInv, PTL DEF Spec

\* An event recorded as sent has been published, however many runs overlap,
\* fail or die between publishing and committing (_async_process_outbox).
THEOREM SentIsPublished == Spec => []SentWasPublished
  <1>1. RelayInv => SentWasPublished
    BY DEF RelayInv
  <1> QED
    BY <1>1, InitRelayInv, NextRelayInv, PTL DEF Spec

\* Every nonempty bounded set of naturals has a greatest element.
LEMMA GreatestNat ==
  ASSUME NEW n \in Nat, NEW T \in SUBSET (0 .. n), T # {}
  PROVE  \E x \in T : \A y \in T : y <= x
  <1> DEFINE U == {n - x : x \in T}
  <1>1. U \in SUBSET Nat /\ U # {}
    <2>1. \A x \in T : x \in 0 .. n /\ n - x \in Nat
      OBVIOUS
    <2> QED
      BY <2>1
  <1>2. PICK u \in U : \A v \in U : u <= v
    BY <1>1, LeastNat
  <1>3. PICK x \in T : u = n - x
    BY <1>2
  <1>4. \A y \in T : n - x <= n - y
    <2> SUFFICES ASSUME NEW y \in T PROVE n - x <= n - y
      OBVIOUS
    <2>1. n - y \in U
      OBVIOUS
    <2> QED
      BY <1>2, <1>3, <2>1
  <1>5. x \in Int /\ \A y \in T : y \in Int
    OBVIOUS
  <1> HIDE DEF U
  <1> QED
    BY <1>4, <1>5

\* Finitely many rows are committed, however many there will be.
HasNewest == \E n \in Nat : stored \subseteq 0 .. n

\* HasNewest holds at the start, and every step keeps it.
LEMMA NewestKeeps == (Init => HasNewest) /\ (HasNewest /\ [Next]_vars => HasNewest')
  <1>1. ASSUME Init PROVE HasNewest
    BY <1>1 DEF Init, HasNewest, stored
  <1>2. ASSUME HasNewest, [Next]_vars PROVE HasNewest'
    <2>1. PICK n \in Nat : stored \subseteq 0 .. n
      BY <1>2 DEF HasNewest
    <2>2. ASSUME NEW o \in Orders, NEW new \in RowSets, PlaceOrder(o, new)
          PROVE  HasNewest'
      <3>1. PICK m \in Nat : new \subseteq 0 .. m
        BY EventAssumption
      <3>2. stored' = stored \cup new
        BY <2>2 DEF PlaceOrder, stored
      <3>3. stored' \subseteq 0 .. (n + m)
        BY <2>1, <3>1, <3>2
      <3> QED
        BY <3>3 DEF HasNewest
    <2>3. CASE owner' = owner
      BY <1>2, <2>3 DEF HasNewest, stored
    <2>4. (\E o \in Orders, new \in RowSets : PlaceOrder(o, new)) \/ owner' = owner
      BY <1>2 DEF Next, Start, Work, Publish, MarkSent, MarkFailed, Commit, Fail,
                  PublishFails, RunDies, vars, rows
    <2> QED
      BY <2>2, <2>3, <2>4
  <1> QED
    BY <1>1, <1>2

\* Among waiting runs, the one that waits for the newest event waits for a
\* run that is not waiting: whoever marked that event works on a newer one.
LEMMA NewestWaitsForNobody == RelayInv /\ HasNewest => NoLockCycle
  <1> SUFFICES ASSUME RelayInv, HasNewest, NEW S \in SUBSET Runs, S # {},
                      \A w \in S : \E v \in S : WaitsFor(w, v)
               PROVE  FALSE
    BY DEF NoLockCycle
  <1>1. PICK n \in Nat : stored \subseteq 0 .. n
    BY DEF HasNewest
  <1>2. ASSUME NEW w \in S
        PROVE  todo[w] # {} /\ Message(w) \in todo[w] /\ Message(w) \in 0 .. n
    <2>1. todo[w] # {}
      BY DEF WaitsFor, RelayInv, RunInv
    <2>2. Message(w) \in todo[w]
      BY <2>1, TodoIsNat, MessageIsOldest DEF RelayInv
    <2> QED
      BY <1>1, <2>1, <2>2 DEF RelayInv, TypeOK
  <1> DEFINE T == {Message(w) : w \in S}
  <1>3. T \in SUBSET (0 .. n) /\ T # {}
    BY <1>2
  <1>4. PICK x \in T : \A y \in T : y <= x
    BY <1>3, GreatestNat
  <1>5. PICK w \in S : x = Message(w)
    BY <1>4
  <1>6. PICK v \in S : WaitsFor(w, v)
    OBVIOUS
  <1>7. Message(w) < Message(v)
    BY <1>2, <1>6 DEF WaitsFor, RelayInv, RunInv
  <1>8. Message(v) <= Message(w)
    BY <1>4, <1>5
  <1> QED
    BY <1>2, <1>7, <1>8

\* Overlapping runs never deadlock on the rows they mark, for any number of
\* runs and any batches (get_pending's ORDER BY, mark_sent).
THEOREM RunsNeverDeadlock == Spec => []NoLockCycle
  BY InitRelayInv, NextRelayInv, NewestKeeps, NewestWaitsForNobody, PTL DEF Spec

-----------------------------------------------------------------------------
\* A batch holds every pending event that is older than one of its own.
LEMMA OldestIsClosed ==
  ASSUME TypeOK, NEW e \in Oldest(Pending, BatchSize), NEW d \in Pending, d < e
  PROVE  d \in Oldest(Pending, BatchSize)
  <1> DEFINE Below(x) == {y \in Pending : y < x}
  <1>1. /\ Pending \subseteq Events /\ Events \subseteq Nat
        /\ e \in Nat /\ d \in Nat
    BY EventAssumption DEF TypeOK, Pending, Oldest
  <1>2. IsFiniteSet(Below(e))
    <2>1. IsFiniteSet(0 .. e)
      BY <1>1, FS_Interval
    <2>2. ASSUME NEW y \in Below(e)
          PROVE  y \in 0 .. e
      <3>1. y \in Nat /\ y < e
        BY <1>1
      <3> QED
        BY <1>1, <3>1
    <2> QED
      BY <2>1, <2>2, FS_Subset
  <1>3. Below(d) \subseteq Below(e)
    <2> SUFFICES ASSUME NEW y \in Pending, y < d
                 PROVE  y < e
      OBVIOUS
    <2> QED
      BY <1>1
  <1>4. Cardinality(Below(d)) <= Cardinality(Below(e)) /\ IsFiniteSet(Below(d))
    BY <1>2, <1>3, FS_Subset
  <1>5. Cardinality(Below(d)) \in Nat /\ Cardinality(Below(e)) \in Nat
    BY <1>2, <1>4, FS_CardinalityType
  <1>6. Cardinality(Below(e)) < BatchSize
    BY DEF Oldest
  <1>7. Cardinality(Below(d)) < BatchSize
    BY <1>4, <1>5, <1>6, BatchAssumption
  <1> QED
    BY <1>7 DEF Oldest

\* What the steps of w leave to BatchInv: rows, and what has been published.
LEMMA BatchStays ==
  ASSUME NEW w \in Runs, BatchInv(w), owner' = owner,
         todo'[w] = todo[w], markedFailed'[w] = markedFailed[w],
         published \subseteq published', failed \subseteq failed'
  PROVE  BatchInv(w)'
  BY DEF BatchInv, stored

\* A run's own step keeps its batch in order.
LEMMA BatchKeeps ==
  ASSUME RelayInv, OrderInv, NEW w \in Runs,
         Start(w) \/ Work(w) \/ PublishFails(w) \/ RunDies(w)
  PROVE  BatchInv(w)'
  <1>1. TypeOK /\ RunInv(w) /\ BatchInv(w) /\ SentWasPublished
    BY DEF RelayInv, OrderInv
  <1>2. CASE Start(w)
    <2>1. /\ todo'[w] = Oldest(Pending, BatchSize) /\ owner' = owner
          /\ published' = published /\ failed' = failed
      BY <1>1, <1>2 DEF Start, TypeOK, rows
    <2> SUFFICES ASSUME NEW e \in Oldest(Pending, BatchSize), NEW d \in stored, d < e
                 PROVE  d \in Oldest(Pending, BatchSize) \cup published \cup failed
      BY <2>1 DEF BatchInv, stored
    <2>2. CASE d \in Pending
      BY <1>1, <2>2, OldestIsClosed
    <2>3. CASE d \notin Pending
      BY <1>1, <2>3 DEF Pending, SentWasPublished
    <2> QED
      BY <2>2, <2>3
  <1>3. CASE Publish(w) \/ PublishFails(w)
    <2>1. /\ owner' = owner /\ todo' = todo /\ markedFailed' = markedFailed
          /\ published \subseteq published' /\ failed \subseteq failed'
      BY <1>3 DEF Publish, PublishFails, rows
    <2> QED
      BY <1>1, <2>1, BatchStays
  <1>4. CASE MarkSent(w)
    <2>1. /\ todo'[w] = todo[w] \ {Message(w)} /\ Message(w) \in published
          /\ owner' = owner /\ markedFailed' = markedFailed
          /\ published' = published /\ failed' = failed
      BY <1>1, <1>4 DEF MarkSent, TypeOK, RunInv, rows
    <2> QED
      BY <1>1, <2>1 DEF BatchInv, stored
  <1>5. CASE MarkFailed(w)
    <2>1. /\ todo'[w] = todo[w] \ {Message(w)}
          /\ markedFailed'[w] = markedFailed[w] \cup {Message(w)}
          /\ owner' = owner /\ published' = published /\ failed' = failed
      BY <1>1, <1>5 DEF MarkFailed, TypeOK, rows
    <2> QED
      BY <1>1, <2>1 DEF BatchInv, stored
  <1>6. CASE Commit(w) \/ RunDies(w)
    <2>1. todo'[w] = {}
      BY <1>1, <1>6 DEF Commit, RunDies, Close, TypeOK
    <2> QED
      BY <2>1 DEF BatchInv
  <1> QED
    BY <1>2, <1>3, <1>4, <1>5, <1>6 DEF Work

\* Every step keeps every batch in order.
LEMMA OrderKeeps ==
  ASSUME RelayInv, OrderInv, [Next]_vars
  PROVE  OrderInv'
  <1> USE DEF OrderInv
  <1>1. ASSUME NEW w \in Runs, NEW v \in Runs,
               Start(w) \/ Work(w) \/ PublishFails(w) \/ RunDies(w)
        PROVE  BatchInv(v)'
    <2>1. CASE v = w
      BY <1>1, <2>1, BatchKeeps
    <2>2. CASE v # w
      <3>1. /\ todo'[v] = todo[v] /\ markedFailed'[v] = markedFailed[v]
            /\ published \subseteq published'
        BY <1>1, <2>2, OtherRuns DEF RelayInv
      <3>2. owner' = owner /\ failed \subseteq failed'
        BY <1>1 DEF Start, Work, Publish, MarkSent, MarkFailed, Commit,
           PublishFails, RunDies, rows
      <3> QED
        BY <3>1, <3>2, BatchStays
    <2> QED
      BY <2>1, <2>2
  <1>2. ASSUME NEW o \in Orders, NEW new \in RowSets, PlaceOrder(o, new),
               NEW v \in Runs
        PROVE  BatchInv(v)'
    <2>1. todo[v] \subseteq stored
      BY DEF RelayInv, TypeOK
    <2>2. /\ todo' = todo /\ published' = published /\ failed' = failed
          /\ markedFailed' = markedFailed /\ stored' = stored \cup new
          /\ new \cap stored = {}
          /\ \A e \in stored : owner'[e] = owner[e] /\ owner[e] # o
          /\ \A e \in new : owner'[e] = o
      BY <1>2 DEF PlaceOrder, IsNew, stored
    <2> QED
      BY <2>1, <2>2 DEF BatchInv
  <1>3. ASSUME UNCHANGED vars, NEW v \in Runs
        PROVE  BatchInv(v)'
    BY <1>3, BatchStays DEF vars, rows
  <1> QED
    BY <1>1, <1>2, <1>3 DEF Next, Fail

\* Only Publish hands an event out, and it finds the older ones of the same
\* order behind it.
LEMMA PublishesInOrder ==
  ASSUME RelayInv, OrderInv, [Next]_vars,
         NEW e \in published' \ published, NEW d \in stored,
         owner[d] = owner[e], d < e
  PROVE  d \in published \cup failed \cup UNION {markedFailed[w] : w \in Runs}
  <1>1. PICK w \in Runs : Publish(w)
    BY DEF Next, Fail, Work, vars, PlaceOrder, Start, MarkSent, MarkFailed, Commit,
       PublishFails, RunDies
  <1>2. todo[w] # {} /\ e = Message(w)
    BY <1>1 DEF Publish
  <1>3. /\ todo[w] \subseteq Nat
        /\ e \in todo[w] /\ \A x \in todo[w] : e <= x
    BY <1>2, TodoIsNat, MessageIsOldest DEF RelayInv
  <1>4. d \notin todo[w]
    BY <1>3
  <1>5. d \in todo[w] \cup published \cup failed \cup markedFailed[w]
    BY <1>3 DEF OrderInv, BatchInv
  <1> QED
    BY <1>4, <1>5

\* An order's events first go out in the order they were created, for any
\* number of runs that overlap, fail and die (get_pending).
THEOREM PublishedInOrder == Spec => OrderedPublication
  <1>1. Init => OrderInv
    BY DEF Init, OrderInv, BatchInv
  <1>2. RelayInv /\ OrderInv /\ [Next]_vars => OrderInv'
    BY OrderKeeps
  <1>3. RelayInv /\ OrderInv /\ [Next]_vars =>
          [\A e \in published' \ published, d \in stored :
             owner[d] = owner[e] /\ d < e =>
               d \in published \cup failed \cup UNION {markedFailed[w] : w \in Runs}]_vars
    BY PublishesInOrder
  <1> QED
    BY <1>1, <1>2, <1>3, InitRelayInv, NextRelayInv, PTL DEF Spec, OrderedPublication

-----------------------------------------------------------------------------
\* What is settled.

SettleInv == \A w \in Runs : CoverInv(w)

\* A run whose locals stay as they are covers its events as before.
LEMMA CoverStays ==
  ASSUME NEW w, CoverInv(w), owner' = owner, todo'[w] = todo[w],
         markedSent'[w] = markedSent[w], markedFailed'[w] = markedFailed[w],
         sent \subseteq sent', failed \subseteq failed'
  PROVE  CoverInv(w)'
BY DEF CoverInv, Marked, stored

\* A run's own step keeps its events covered.
LEMMA CoverKeeps ==
  ASSUME RelayInv, SettleInv, NEW w \in Runs,
         Start(w) \/ Work(w) \/ PublishFails(w) \/ RunDies(w)
  PROVE  CoverInv(w)'
<1>1. TypeOK /\ RunInv(w) /\ CoverInv(w)
  BY DEF RelayInv, SettleInv
<1>2. CASE Start(w)
  <2>1. /\ todo'[w] = Oldest(Pending, BatchSize) /\ owner' = owner
        /\ markedSent' = markedSent /\ markedFailed' = markedFailed
        /\ sent' = sent /\ failed' = failed /\ Marked(w) = {}
    BY <1>1, <1>2 DEF Start, TypeOK, RunInv, rows
  <2> SUFFICES ASSUME NEW e \in Oldest(Pending, BatchSize), NEW d \in stored, d < e
               PROVE  d \in Oldest(Pending, BatchSize) \cup sent \cup failed
    BY <2>1 DEF CoverInv, Marked, stored
  <2> QED BY <1>1, OldestIsClosed DEF Pending
<1>3. CASE Publish(w) \/ PublishFails(w)
  BY <1>1, <1>3, CoverStays DEF Publish, PublishFails, rows
<1>4. CASE MarkSent(w) \/ MarkFailed(w)
  <2>1. /\ todo'[w] \cup Marked(w)' = todo[w] \cup Marked(w)
        /\ owner' = owner /\ sent' = sent /\ failed' = failed
    <3>1. /\ todo'[w] = todo[w] \ {Message(w)}
          /\ Marked(w)' = Marked(w) \cup {Message(w)} /\ Message(w) \in todo[w]
      BY <1>1, <1>4, TodoIsNat, MessageIsOldest
         DEF MarkSent, MarkFailed, Marked, TypeOK, RunInv
    <3> QED BY <1>4, <3>1 DEF MarkSent, MarkFailed, rows
  <2> QED BY <1>1, <2>1 DEF CoverInv, stored
<1>5. CASE Commit(w) \/ RunDies(w)
  <2>1. todo'[w] = {} /\ Marked(w)' = {}
    BY <1>1, <1>5 DEF Commit, RunDies, Close, TypeOK, Marked
  <2> QED BY <2>1 DEF CoverInv
<1> QED BY <1>2, <1>3, <1>4, <1>5 DEF Work

\* No step leaves an event of a run behind.
LEMMA CoversKeep ==
  ASSUME RelayInv, SettleInv, [Next]_vars
  PROVE  SettleInv'
<1>1. ASSUME NEW w \in Runs, NEW v \in Runs,
             Start(w) \/ Work(w) \/ PublishFails(w) \/ RunDies(w)
      PROVE  CoverInv(v)'
  <2>1. CASE v = w
    BY <1>1, <2>1, CoverKeeps
  <2>2. CASE v # w
    <3>1. owner' = owner /\ sent \subseteq sent' /\ failed \subseteq failed'
      BY <1>1 DEF Start, Work, Publish, MarkSent, MarkFailed, Commit,
         PublishFails, RunDies, rows
    <3>2. CoverInv(v) /\ TypeOK
      BY DEF SettleInv, RelayInv
    <3> QED BY <1>1, <2>2, <3>1, <3>2, OtherRuns, CoverStays
  <2> QED BY <2>1, <2>2
<1>2. ASSUME NEW o \in Orders, NEW new \in RowSets, PlaceOrder(o, new), NEW v \in Runs
      PROVE  CoverInv(v)'
  <2>1. todo[v] \cup Marked(v) \subseteq stored /\ CoverInv(v)
    BY DEF RelayInv, TypeOK, Marked, SettleInv
  <2>2. /\ todo' = todo /\ sent' = sent /\ failed' = failed
        /\ Marked(v)' = Marked(v) /\ stored' = stored \cup new
        /\ new \cap stored = {}
        /\ \A e \in stored : owner'[e] = owner[e] /\ owner[e] # o
        /\ \A e \in new : owner'[e] = o
    BY <1>2 DEF PlaceOrder, IsNew, stored, Marked
  <2> QED BY <2>1, <2>2 DEF CoverInv
<1>3. ASSUME UNCHANGED vars, NEW v \in Runs
      PROVE  CoverInv(v)'
  BY <1>3, CoverStays DEF vars, rows, SettleInv
<1> QED BY <1>1, <1>2, <1>3 DEF Next, Fail, SettleInv

\* A commit settles all that its run read: the oldest events of each order.
LEMMA SettledKeeps ==
  ASSUME RelayInv, SettleInv, SettledFromOldest, [Next]_vars
  PROVE  SettledFromOldest'
<1>1. ASSUME NEW w \in Runs, Commit(w)
      PROVE  SettledFromOldest'
  <2>1. /\ todo[w] = {} /\ owner' = owner
        /\ sent' \cup failed' = sent \cup failed \cup Marked(w)
    BY <1>1 DEF Commit, Marked
  <2>2. CoverInv(w)
    BY DEF SettleInv
  <2> QED BY <2>1, <2>2 DEF SettledFromOldest, CoverInv, stored
<1>2. CASE owner' = owner /\ sent' = sent /\ failed' = failed
  BY <1>2 DEF SettledFromOldest, stored
<1>3. ASSUME NEW o \in Orders, NEW new \in RowSets, PlaceOrder(o, new)
      PROVE  SettledFromOldest'
  <2>1. /\ sent' = sent /\ failed' = failed /\ sent \cup failed \subseteq stored
        /\ stored' = stored \cup new
        /\ \A e \in stored : owner'[e] = owner[e] /\ owner[e] # o
        /\ \A e \in new : owner'[e] = o
    BY <1>3 DEF PlaceOrder, IsNew, stored, RelayInv, TypeOK
  <2> QED BY <2>1 DEF SettledFromOldest
<1> QED
  BY <1>1, <1>2, <1>3 DEF Next, Start, Work, Publish, MarkSent, MarkFailed, Fail,
     PublishFails, RunDies, vars, rows

\* What is settled of an order is always its oldest events, for any number of
\* overlapping, failing and dying runs: the batches that follow a death go on
\* where the order was left (get_pending, _async_process_outbox).
THEOREM NoGapIsSettled == Spec => []SettledFromOldest
<1>1. Init => SettleInv /\ SettledFromOldest
  BY DEF Init, SettleInv, CoverInv, Marked, SettledFromOldest
<1>2. RelayInv /\ SettleInv /\ [Next]_vars => SettleInv'
  BY CoversKeep
<1>3. RelayInv /\ SettleInv /\ SettledFromOldest /\ [Next]_vars => SettledFromOldest'
  BY SettledKeeps
<1> QED BY <1>1, <1>2, <1>3, InitRelayInv, NextRelayInv, PTL DEF Spec

-----------------------------------------------------------------------------
\* The steps left to a run.

\* A batch is finite, and its count is a number.
LEMMA BatchIsFinite ==
  ASSUME TypeOK, HasNewest, NEW w \in Runs
  PROVE  /\ IsFiniteSet(todo[w]) /\ Cardinality(todo[w]) \in Nat
         /\ todo[w] # {} => Cardinality(todo[w]) > 0
<1>1. PICK n \in Nat : stored \subseteq 0 .. n
  BY DEF HasNewest
<1>2. IsFiniteSet(todo[w])
  <2>1. IsFiniteSet(0 .. n)
    BY FS_Interval
  <2>2. todo[w] \subseteq 0 .. n
    BY <1>1 DEF TypeOK
  <2> QED BY <2>1, <2>2, FS_Subset
<1>3. Cardinality(todo[w]) \in Nat /\ (Cardinality(todo[w]) = 0 <=> todo[w] = {})
  BY <1>2, FS_CardinalityType, FS_EmptySet
<1> QED BY <1>2, <1>3

\* Only a run that has not started has no step left.
LEMMA StepsLeftIsNat ==
  ASSUME RelayInv, HasNewest, NEW w \in Runs
  PROVE  StepsLeft(w) \in Nat /\ (pc[w] # "idle" => StepsLeft(w) > 0)
<1>1. /\ pc[w] \in {"idle", "publish", "mark", "fail"}
      /\ pc[w] \in {"mark", "fail"} => todo[w] # {}
  BY DEF RelayInv, TypeOK, RunInv
<1>2. Cardinality(todo[w]) \in Nat /\ (todo[w] # {} => Cardinality(todo[w]) > 0)
  BY BatchIsFinite DEF RelayInv
<1> DEFINE n == Cardinality(todo[w])
<1>3. StepsLeft(w) \in {0, 3 * n + 1, 3 * n, 3 * n - 1}
  BY <1>1 DEF StepsLeft
<1>4. /\ pc[w] = "publish" => StepsLeft(w) = 3 * n + 1
      /\ pc[w] = "mark" => StepsLeft(w) = 3 * n
      /\ pc[w] = "fail" => StepsLeft(w) = 3 * n - 1
      /\ pc[w] = "idle" => StepsLeft(w) = 0
  BY DEF StepsLeft
<1> HIDE DEF n
<1>5. n \in Nat /\ (pc[w] \in {"mark", "fail"} => n > 0)
  BY <1>1, <1>2 DEF n
<1> QED BY <1>1, <1>4, <1>5

\* A run whose locals stay as they are has as many steps left as before.
LEMMA StepsStay ==
  ASSUME NEW w, pc'[w] = pc[w], todo'[w] = todo[w]
  PROVE  StepsLeft(w)' = StepsLeft(w)
BY DEF StepsLeft

\* Each step of a run under way is one less.
LEMMA RunCounts ==
  ASSUME RelayInv, HasNewest, NEW w \in Runs, Work(w) \/ Fail(w)
  PROVE  StepsLeft(w)' < StepsLeft(w)
<1>1. TypeOK /\ RunInv(w)
  BY DEF RelayInv
<1> DEFINE n == Cardinality(todo[w])
<1>2. /\ IsFiniteSet(todo[w]) /\ n \in Nat
      /\ todo[w] # {} => n > 0 /\ Message(w) \in todo[w]
  BY <1>1, BatchIsFinite, TodoIsNat, MessageIsOldest
<1>3. CASE Publish(w)
  <2>1. pc[w] = "publish" /\ pc'[w] = "mark" /\ todo' = todo
    BY <1>1, <1>3 DEF Publish, Goto, TypeOK
  <2>2. StepsLeft(w) = 3 * n + 1 /\ StepsLeft(w)' = 3 * n
    BY <2>1 DEF StepsLeft
  <2> QED BY <1>2, <2>2
<1>4. CASE MarkSent(w) \/ MarkFailed(w)
  <2>1. /\ pc[w] \in {"mark", "fail"} /\ pc'[w] = "publish"
        /\ todo'[w] = todo[w] \ {Message(w)} /\ todo[w] # {}
    BY <1>1, <1>4 DEF MarkSent, MarkFailed, Goto, TypeOK, RunInv
  <2>2. Cardinality(todo'[w]) = n - 1
    BY <1>2, <2>1, FS_RemoveElement
  <2>3. /\ StepsLeft(w) \in {3 * n, 3 * n - 1}
        /\ StepsLeft(w)' = 3 * (n - 1) + 1
    BY <2>1, <2>2 DEF StepsLeft
  <2> QED BY <1>2, <2>3
<1>5. CASE PublishFails(w)
  <2>1. pc[w] \in {"publish", "mark"} /\ pc'[w] = "fail" /\ todo' = todo
    BY <1>1, <1>5 DEF PublishFails, Goto, TypeOK
  <2>2. StepsLeft(w) \in {3 * n + 1, 3 * n} /\ StepsLeft(w)' = 3 * n - 1
    BY <2>1 DEF StepsLeft
  <2> QED BY <1>2, <2>2
<1>6. CASE Commit(w) \/ RunDies(w)
  <2>1. pc[w] # "idle" /\ pc'[w] = "idle"
    BY <1>1, <1>6 DEF Commit, RunDies, Close, Goto, TypeOK
  <2>2. StepsLeft(w)' = 0
    BY <2>1 DEF StepsLeft
  <2> QED BY <2>1, <2>2, StepsLeftIsNat
<1> QED BY <1>3, <1>4, <1>5, <1>6 DEF Work, Fail

\* A run takes finitely many steps, three for each event and the commit: a
\* caught exception does not send it back, and no other run and no new order
\* makes it longer (_async_process_outbox).
THEOREM RunsEnd == Spec => RunsGetShorter
<1> DEFINE NoneLonger == \A w \in Runs : pc[w] # "idle" => StepsLeft(w)' <= StepsLeft(w)
           Shorter == \E w \in Runs : StepsLeft(w)' < StepsLeft(w)
           Starts == \E w \in Runs : pc[w] = "idle" /\ pc'[w] # "idle"
           Moves == NoneLonger /\ (Shorter \/ Starts \/ owner' # owner)
           Counted == \A w \in Runs : StepsLeft(w) \in Nat
<1>1. RelayInv /\ HasNewest => Counted
  BY StepsLeftIsNat
<1>2. (RelayInv /\ HasNewest => Counted)'
  BY <1>1, PTL
<1>3. ASSUME RelayInv, HasNewest, RelayInv', HasNewest', Next
      PROVE  Moves \/ UNCHANGED vars
  <2>1. Counted /\ Counted'
    BY <1>1, <1>2, <1>3
  <2>2. ASSUME NEW w \in Runs, Work(w) \/ Fail(w)
        PROVE  Moves
    <3>1. StepsLeft(w)' < StepsLeft(w)
      BY <1>3, <2>2, RunCounts
    <3>2. \A v \in Runs \ {w} : StepsLeft(v)' = StepsLeft(v)
      BY <1>3, <2>2, OtherRuns, StepsStay DEF RelayInv, Fail
    <3>3. NoneLonger
      BY <2>1, <3>1, <3>2
    <3> QED BY <2>2, <3>1, <3>3
  <2>3. ASSUME NEW w \in Runs, Start(w)
        PROVE  Moves
    <3>1. pc[w] = "idle" /\ pc'[w] = "publish"
      BY <1>3, <2>3 DEF Start, Goto, RelayInv, TypeOK
    <3>2. \A v \in Runs \ {w} : StepsLeft(v)' = StepsLeft(v)
      BY <1>3, <2>3, OtherRuns, StepsStay DEF RelayInv
    <3>3. NoneLonger
      BY <2>1, <3>1, <3>2
    <3> QED BY <2>3, <3>1, <3>3
  <2>4. ASSUME NEW o \in Orders, NEW new \in RowSets, PlaceOrder(o, new)
        PROVE  Moves \/ UNCHANGED vars
    <3>1. \A v \in Runs : StepsLeft(v)' = StepsLeft(v)
      BY <2>4, StepsStay DEF PlaceOrder
    <3>2. NoneLonger
      BY <2>1, <3>1
    <3>3. CASE owner' = owner
      BY <2>4, <3>3 DEF PlaceOrder, vars, rows
    <3> QED BY <3>2, <3>3
  <2> QED BY <1>3, <2>2, <2>3, <2>4 DEF Next
<1>4. RelayInv /\ HasNewest /\ RelayInv' /\ HasNewest' /\ [Next]_vars => [Moves]_vars
  BY <1>3
<1> QED
  BY <1>4, InitRelayInv, NextRelayInv, NewestKeeps, PTL DEF Spec, RunsGetShorter

=============================================================================
