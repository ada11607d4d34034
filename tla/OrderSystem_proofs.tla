-------------------------- MODULE OrderSystem_proofs --------------------------
(***************************************************************************)
(* Proofs about OrderSystem.  With the worker beside them the sagas do     *)
(* what they do alone, so all that is proved of OrderSaga holds here; and  *)
(* to the relay they are PlaceOrder.  Then what is proved of OutboxRelay   *)
(* holds of the worker beside the sagas: its events are times, of which an *)
(* order has any finite set.                                               *)
(***************************************************************************)
EXTENDS OrderSystem, OrderRefinement_proofs, SequenceTheorems

\* Every step of the system is one of a saga, or leaves the sagas alone.
LEMMA SystemStepIsSagaStep == [SystemNext]_allVars => [Next]_vars
  <1> SUFFICES ASSUME [SystemNext]_allVars PROVE [Next]_vars
    OBVIOUS
  <1>1. ASSUME NEW r \in Requests, Act(r) PROVE Next
    BY <1>1 DEF Next, Act
  <1>2. CASE \E r \in Requests : Api(r, Arrive(r)) \/ ServeRequest(r) \/ Api(r, Fault(r))
    BY <1>1, <1>2 DEF Api, ServeRequest, Act
  <1>3. CASE ApiEvent
    BY <1>3 DEF ApiEvent, Next
  <1>4. CASE \E w \in Runs : StartRun(w) \/ WorkRun(w) \/ FailRun(w)
    BY <1>4 DEF StartRun, WorkRun, FailRun, saga
  <1>5. CASE UNCHANGED allVars
    BY <1>5 DEF allVars, saga
  <1> QED
    BY <1>2, <1>3, <1>4, <1>5 DEF SystemNext

\* The worker changes nothing of what the sagas do: the system implements the
\* saga's specification (only outbox_events is shared, and read by the worker).
THEOREM SagasRunAsAlone == SystemSpec => Spec
  <1>1. SystemInit => Init
    BY DEF SystemInit
  <1> QED
    BY <1>1, SystemStepIsSagaStep, PTL DEF SystemSpec, Spec

\* Beside the worker, too, orders are placed atomically and the stock is
\* accounted for (execute, update_with_version, get_db_session).
THEOREM SystemPlacesAtomically == SystemSpec => PlacesAtomically /\ []StockLedger
  BY SagasRunAsAlone, SagaIsAtomic, StockIsAccountedFor, PTL

\* The invariants of the saga are invariants of the system.
LEMMA SagaInvariants == SystemSpec => [](IndInv /\ OutcomeInv)
  BY SagasRunAsAlone, IndInvariant, OutcomeInvariant, PTL

-----------------------------------------------------------------------------
\* The rows of an order and their times.
LEMMA LengthsOf ==
  ASSUME NEW t \in Seq(EventType), NEW u \in Seq(EventType)
  PROVE  /\ Len(t) \in Nat /\ Len(u) \in Nat /\ Len(t) + Len(u) \in Nat
         /\ Len(t) + Len(u) >= Len(u) /\ DOMAIN u = 1 .. Len(u)
  <1>1. Len(t) \in Nat /\ Len(u) \in Nat /\ DOMAIN u = 1 .. Len(u)
    OBVIOUS
  <1> QED
    BY <1>1

LEMMA Lengths ==
  ASSUME TypeOK, NEW r \in Requests
  PROVE  /\ Len(tx[r].outbox) \in Nat /\ Len(saved[r].outbox) \in Nat
         /\ Length(r) \in Nat /\ Length(r) >= Len(saved[r].outbox)
         /\ DOMAIN saved[r].outbox = 1 .. Len(saved[r].outbox)
  <1>1. tx[r].outbox \in Seq(EventType) /\ saved[r].outbox \in Seq(EventType)
    BY DEF TypeOK, OwnRows
  <1> QED
    BY <1>1, LengthsOf DEF Length

LEMMA LengthsNext ==
  ASSUME TypeOK', NEW r \in Requests
  PROVE  /\ Length(r)' \in Nat /\ Length(r)' >= Len(saved'[r].outbox)
         /\ DOMAIN saved'[r].outbox = 1 .. Len(saved'[r].outbox)
         /\ Len(saved'[r].outbox) \in Nat
  <1>1. tx'[r].outbox \in Seq(EventType) /\ saved'[r].outbox \in Seq(EventType)
    BY DEF TypeOK, OwnRows
  <1> QED
    BY <1>1, LengthsOf DEF Length

\* A step in which at most one order appends rows, and the clock goes on by as
\* many, keeps the times that were given and gives new ones.
LEMMA Stamped ==
  ASSUME TypeOK, TypeOK', TableInv, Stamp, clock' \in Nat, clock' >= clock,
         \A s \in Requests : Length(s)' <= Length(s) \/ clock' = clock + Length(s)' - Length(s),
         \A s, t \in Requests :
           Length(s)' > Length(s) /\ Length(t)' > Length(t) => s = t
  PROVE  /\ stamps' \in [Requests -> Seq(1 .. clock')]
         /\ \A s \in Requests :
              /\ Len(stamps'[s]) = Length(s)' /\ DOMAIN stamps'[s] = 1 .. Length(s)'
              /\ DOMAIN stamps[s] = 1 .. Length(s)
              /\ \A i \in 1 .. Length(s)' :
                   i \in 1 .. Length(s) => stamps'[s][i] = stamps[s][i]
         /\ StampsFit'
  <1>1. ASSUME NEW s \in Requests
        PROVE  /\ Length(s) \in Nat /\ Length(s)' \in Nat
               /\ stamps[s] \in Seq(1 .. clock) /\ Len(stamps[s]) = Length(s)
               /\ DOMAIN stamps[s] = 1 .. Length(s)
    BY Lengths, LengthsNext DEF TableInv
  <1>2. clock \in Nat
    BY DEF TableInv
  <1> DEFINE New(s) == [i \in 1 .. Length(s)' |->
                          IF i <= Length(s) THEN stamps[s][i]
                                            ELSE clock + i - Length(s)]
  <1>3. \A s \in Requests : stamps'[s] = New(s)
    BY <1>1 DEF Stamp
  <1>4. ASSUME NEW s \in Requests, NEW i \in 1 .. Length(s)'
        PROVE  /\ i <= Length(s) => /\ i \in DOMAIN stamps[s] /\ New(s)[i] = stamps[s][i]
                                    /\ New(s)[i] \in 1 .. clock
               /\ i > Length(s) => /\ New(s)[i] = clock + i - Length(s)
                                   /\ New(s)[i] \in (clock + 1) .. clock'
    BY <1>1, <1>2
  <1>5. ASSUME NEW s \in Requests
        PROVE  New(s) \in Seq(1 .. clock') /\ Len(New(s)) = Length(s)'
    <2>1. \A i \in 1 .. Length(s)' : New(s)[i] \in 1 .. clock'
      BY <1>1, <1>2, <1>4
    <2> QED
      BY <1>1, <2>1
  <1>6. stamps' = [s \in Requests |-> New(s)]
    BY <1>1, <1>3 DEF Stamp
  <1>7. ASSUME NEW s \in Requests, NEW t \in Requests,
               NEW i \in DOMAIN stamps'[s], NEW j \in DOMAIN stamps'[t],
               stamps'[s][i] = stamps'[t][j]
        PROVE  s = t /\ i = j
    <2>1. /\ i \in 1 .. Length(s)' /\ j \in 1 .. Length(t)' /\ New(s)[i] = New(t)[j]
      BY <1>1, <1>3, <1>7
    <2>2. CASE i <= Length(s) /\ j <= Length(t)
      BY <1>4, <2>1, <2>2 DEF TableInv, StampsFit
    <2>3. CASE i > Length(s) /\ j > Length(t)
      <3>1. s = t
        BY <1>1, <2>1, <2>3
      <3> QED
        BY <1>1, <1>2, <1>4, <2>1, <2>3, <3>1
    <2>4. CASE (i <= Length(s)) # (j <= Length(t))
      BY <1>1, <1>2, <1>4, <2>1, <2>4
    <2> QED
      BY <1>1, <2>1, <2>2, <2>3, <2>4
  <1>8. ASSUME NEW s \in Requests, NEW i \in DOMAIN stamps'[s],
               NEW j \in DOMAIN stamps'[s], i < j
        PROVE  stamps'[s][i] < stamps'[s][j]
    <2>1. i \in 1 .. Length(s)' /\ j \in 1 .. Length(s)' /\ stamps'[s] = New(s)
      BY <1>1, <1>3
    <2>2. CASE j <= Length(s)
      <3>1. i \in DOMAIN stamps[s] /\ j \in DOMAIN stamps[s]
        BY <1>1, <1>8, <2>1, <2>2
      <3>2. stamps[s][i] < stamps[s][j]
        BY <1>8, <3>1 DEF TableInv, StampsFit
      <3>3. New(s)[i] = stamps[s][i] /\ New(s)[j] = stamps[s][j]
        BY <1>1, <1>4, <1>8, <2>1, <2>2
      <3> QED
        BY <2>1, <3>2, <3>3
    <2>3. CASE i <= Length(s) /\ j > Length(s)
      <3>1. New(s)[i] \in 1 .. clock /\ New(s)[j] \in (clock + 1) .. clock'
        BY <1>4, <2>1, <2>3
      <3> HIDE DEF New
      <3> QED
        BY <1>2, <2>1, <3>1
    <2>4. CASE i > Length(s)
      <3>1. New(s)[i] = clock + i - Length(s) /\ New(s)[j] = clock + j - Length(s)
        BY <1>1, <1>4, <1>8, <2>1, <2>4
      <3> HIDE DEF New
      <3> QED
        BY <1>1, <1>2, <1>8, <2>1, <3>1
    <2> QED
      BY <1>1, <1>8, <2>1, <2>2, <2>3, <2>4
  <1> HIDE DEF New
  <1>9. stamps' \in [Requests -> Seq(1 .. clock')]
    BY <1>5, <1>6
  <1>10. StampsFit'
    BY <1>7, <1>8 DEF StampsFit
  <1>11. ASSUME NEW s \in Requests
         PROVE  /\ Len(stamps'[s]) = Length(s)' /\ DOMAIN stamps'[s] = 1 .. Length(s)'
                /\ DOMAIN stamps[s] = 1 .. Length(s)
                /\ \A i \in 1 .. Length(s)' :
                     i \in 1 .. Length(s) => stamps'[s][i] = stamps[s][i]
    <2>1. DOMAIN New(s) = 1 .. Length(s)'
      BY DEF New
    <2>2. stamps'[s] = New(s) /\ Len(New(s)) = Length(s)'
      BY <1>3, <1>5
    <2>3. \A i \in 1 .. Length(s)' : i \in 1 .. Length(s) => New(s)[i] = stamps[s][i]
      BY <1>4
    <2> QED
      BY <1>1, <2>1, <2>2, <2>3
  <1> QED
    BY <1>9, <1>10, <1>11

\* The table after a step that stamps the rows.
LEMMA TableStamped ==
  ASSUME TypeOK', Stamp, StampsFit',
         \A s \in Requests : DOMAIN stamps'[s] = 1 .. Length(s)'
  PROVE  /\ owner' = [e \in DOMAIN owner' |-> owner'[e]]
         /\ DOMAIN owner' = UNION {Rows(s)' : s \in Requests}
         /\ \A s \in Requests : \A e \in Rows(s)' : owner'[e] = s
  <1>1. ASSUME NEW s \in Requests, NEW e \in Rows(s)'
        PROVE  \E i \in DOMAIN stamps'[s] : e = stamps'[s][i]
    BY <1>1, LengthsNext DEF Rows
  <1>2. ASSUME NEW s \in Requests, NEW t \in Requests, NEW e, e \in Rows(s)', e \in Rows(t)'
        PROVE  s = t
    BY <1>1, <1>2 DEF StampsFit
  <1>3. owner' = [e \in UNION {Rows(s)' : s \in Requests} |->
                    CHOOSE s \in Requests : e \in Rows(s)']
    BY DEF Stamp
  <1> DEFINE all == UNION {Rows(s)' : s \in Requests}
             first(e) == CHOOSE s \in Requests : e \in Rows(s)'
  <1>4. ASSUME NEW s \in Requests, NEW e \in Rows(s)' PROVE e \in all /\ first(e) = s
    <2>1. PICK t \in Requests : t = first(e) /\ e \in Rows(t)'
      BY <1>4
    <2>2. first(e) = s
      BY <1>2, <1>4, <2>1
    <2> QED
      BY <1>4, <2>2
  <1>5. owner' = [e \in all |-> first(e)]
    BY <1>3
  <1> HIDE DEF all, first
  <1>6. DOMAIN owner' = all /\ owner' = [e \in DOMAIN owner' |-> owner'[e]]
    BY <1>5
  <1>7. \A s \in Requests : \A e \in Rows(s)' : owner'[e] = s
    BY <1>4, <1>5
  <1> QED
    BY <1>6, <1>7 DEF all

\* A step that leaves the committed rows alone leaves the table as it is.
LEMMA TableStays ==
  ASSUME TypeOK, TypeOK', TableInv, Stamp, saved' = saved, clock' \in Nat, clock' >= clock,
         \A s \in Requests : Length(s)' <= Length(s) \/ clock' = clock + Length(s)' - Length(s),
         \A s, t \in Requests :
           Length(s)' > Length(s) /\ Length(t)' > Length(t) => s = t,
         UNCHANGED <<published, batch>>
  PROVE  TableInv' /\ owner' = owner
  <1>1. /\ stamps' \in [Requests -> Seq(1 .. clock')] /\ StampsFit'
        /\ \A s \in Requests :
             /\ Len(stamps'[s]) = Length(s)' /\ DOMAIN stamps'[s] = 1 .. Length(s)'
             /\ DOMAIN stamps[s] = 1 .. Length(s)
             /\ \A i \in 1 .. Length(s)' :
                  i \in 1 .. Length(s) => stamps'[s][i] = stamps[s][i]
    BY Stamped
  <1>2. /\ owner' = [e \in DOMAIN owner' |-> owner'[e]]
        /\ DOMAIN owner' = UNION {Rows(s)' : s \in Requests}
        /\ \A s \in Requests : \A e \in Rows(s)' : owner'[e] = s
    BY <1>1, TableStamped
  <1>3. ASSUME NEW s \in Requests PROVE Rows(s)' = Rows(s)
    <2>1. /\ DOMAIN saved[s].outbox \subseteq 1 .. Length(s)
          /\ DOMAIN saved[s].outbox \subseteq 1 .. Length(s)'
      BY Lengths, LengthsNext
    <2>2. \A i \in DOMAIN saved[s].outbox : stamps'[s][i] = stamps[s][i]
      BY <1>1, <2>1
    <2> QED
      BY <2>2 DEF Rows
  <1>4. /\ owner = [e \in DOMAIN owner |-> owner[e]]
        /\ DOMAIN owner = UNION {Rows(s) : s \in Requests}
        /\ \A s \in Requests : \A e \in Rows(s) : owner[e] = s
        /\ published \subseteq DOMAIN owner
        /\ batch \in [Runs -> SUBSET DOMAIN owner]
    BY DEF TableInv
  <1>5. DOMAIN owner' = DOMAIN owner
    BY <1>2, <1>3, <1>4
  <1>6. \A e \in DOMAIN owner : owner'[e] = owner[e]
    BY <1>2, <1>3, <1>4
  <1>7. owner' = owner
    BY <1>2, <1>4, <1>5, <1>6
  <1> QED
    BY <1>1, <1>2, <1>4, <1>7 DEF TableInv

\* A commit adds the order's rows, which are new to the table.
LEMMA TableGrows ==
  ASSUME TypeOK, TypeOK', TableInv, Stamp, NEW r \in Requests,
         saved' = [saved EXCEPT ![r] = tx[r]], tx' = [tx EXCEPT ![r] = NoRows],
         saved[r] = NoRows, clock' = clock, UNCHANGED relay
  PROVE  TableInv' /\ Relay!PlaceOrder(r, Rows(r)')
  <1>1. \A s \in Requests : Length(s)' = Length(s) /\ Length(s) \in Nat
    <2>1. Len(NoRows.outbox) = 0
      BY DEF NoRows
    <2>2. \A s \in Requests : Len(tx[s].outbox) \in Nat /\ Len(saved[s].outbox) \in Nat
      BY Lengths
    <2>3. /\ \A s \in Requests \ {r} : tx'[s] = tx[s] /\ saved'[s] = saved[s]
          /\ tx'[r] = NoRows /\ saved'[r] = tx[r]
      BY DEF TypeOK
    <2>4. Length(r)' = Len(tx[r].outbox) /\ Length(r) = Len(tx[r].outbox)
      <3>1. /\ Length(r)' = Len(tx'[r].outbox) + Len(saved'[r].outbox)
            /\ Length(r) = Len(tx[r].outbox) + Len(saved[r].outbox)
        BY DEF Length
      <3>2. Length(r)' = 0 + Len(tx[r].outbox) /\ Length(r) = Len(tx[r].outbox) + 0
        BY <2>1, <2>3, <3>1
      <3> HIDE DEF Length
      <3> QED
        BY <2>2, <3>2
    <2>5. \A s \in Requests \ {r} : Length(s)' = Length(s)
      BY <2>3 DEF Length
    <2> QED
      BY <2>4, <2>5, Lengths
  <1>2. clock \in Nat /\ clock' >= clock
    BY DEF TableInv
  <1>3. /\ stamps' \in [Requests -> Seq(1 .. clock')] /\ StampsFit'
        /\ \A s \in Requests :
             /\ Len(stamps'[s]) = Length(s)' /\ DOMAIN stamps'[s] = 1 .. Length(s)'
             /\ DOMAIN stamps[s] = 1 .. Length(s)
             /\ \A i \in 1 .. Length(s)' :
                  i \in 1 .. Length(s) => stamps'[s][i] = stamps[s][i]
    <2>1. /\ clock' \in Nat
          /\ \A s \in Requests : Length(s)' <= Length(s)
          /\ \A s \in Requests : ~(Length(s)' > Length(s))
      BY <1>1, <1>2
    <2> QED
      BY <1>2, <2>1, Stamped
  <1>4. /\ owner' = [e \in DOMAIN owner' |-> owner'[e]]
        /\ DOMAIN owner' = UNION {Rows(s)' : s \in Requests}
        /\ \A s \in Requests : \A e \in Rows(s)' : owner'[e] = s
    BY <1>3, TableStamped
  <1>5. ASSUME NEW s \in Requests \ {r} PROVE Rows(s)' = Rows(s)
    <2>1. saved'[s] = saved[s] /\ DOMAIN saved[s].outbox \subseteq 1 .. Length(s)
      BY Lengths DEF TypeOK
    <2>2. \A i \in DOMAIN saved[s].outbox : stamps'[s][i] = stamps[s][i]
      BY <1>1, <1>3, <2>1
    <2> QED
      BY <2>1, <2>2 DEF Rows
  <1>6. Rows(r) = {}
    <2>1. DOMAIN saved[r].outbox = {}
      BY DEF NoRows
    <2> QED
      BY <2>1 DEF Rows
  <1>7. /\ owner = [e \in DOMAIN owner |-> owner[e]]
        /\ DOMAIN owner = UNION {Rows(s) : s \in Requests}
        /\ \A s \in Requests : \A e \in Rows(s) : owner[e] = s
        /\ published \subseteq DOMAIN owner
        /\ batch \in [Runs -> SUBSET DOMAIN owner]
    BY DEF TableInv
  <1>8. ASSUME NEW e \in DOMAIN owner
        PROVE  /\ owner[e] \in Requests \ {r} /\ e \in Rows(owner[e])'
               /\ owner'[e] = owner[e] /\ e \notin Rows(r)'
    <2>1. PICK s \in Requests : e \in Rows(s)
      BY <1>7
    <2>2. s # r /\ owner[e] = s
      BY <1>6, <1>7, <2>1
    <2>3. e \in Rows(s)' /\ owner'[e] = s
      BY <1>4, <1>5, <2>1, <2>2
    <2> QED
      BY <1>4, <2>2, <2>3
  <1>9. DOMAIN owner' = DOMAIN owner \cup Rows(r)'
    BY <1>4, <1>5, <1>6, <1>7
  <1>10. Relay!IsNew(r, Rows(r)')
    BY <1>8 DEF Relay!IsNew, Relay!stored
  <1>11. owner' = [e \in DOMAIN owner \cup Rows(r)' |->
                     IF e \in Rows(r)' THEN r ELSE owner[e]]
    BY <1>4, <1>8, <1>9
  <1>12. TableInv'
    <2>1. published' = published /\ batch' = batch
      BY DEF relay
    <2>2. published' \subseteq DOMAIN owner' /\ batch' \in [Runs -> SUBSET DOMAIN owner']
      BY <1>7, <1>9, <2>1
    <2> QED
      BY <1>2, <1>3, <1>4, <2>2 DEF TableInv
  <1> QED
    BY <1>10, <1>11, <1>12 DEF Relay!PlaceOrder, Relay!stored, relay

-----------------------------------------------------------------------------
\* Every nonempty set of naturals has a least element.
LEMMA LeastTime ==
  ASSUME NEW T \in SUBSET Nat, T # {}
  PROVE  \E x \in T : \A y \in T : x <= y
  <1>1. PICK x \in T : \A y \in T : <<y, x>> \notin OpToRel(<, Nat)
    BY NatLessThanWellFounded, WFMin
  <1>2. \A y \in T : ~(y < x)
    BY <1>1 DEF OpToRel
  <1> QED
    BY <1>2

\* The rows of the table have times of the past.
LEMMA TimesAreNat ==
  ASSUME TypeOK, TableInv
  PROVE  DOMAIN owner \subseteq Nat
  <1>1. ASSUME NEW r \in Requests, NEW i \in DOMAIN saved[r].outbox
        PROVE  stamps[r][i] \in Nat
    <2>1. stamps[r] \in Seq(1 .. clock) /\ Len(stamps[r]) = Length(r) /\ clock \in Nat
      BY DEF TableInv
    <2>2. i \in 1 .. Length(r)
      BY Lengths
    <2>3. stamps[r][i] \in 1 .. clock
      BY <2>1, <2>2
    <2> QED
      BY <2>1, <2>3
  <1>2. \A r \in Requests : Rows(r) \subseteq Nat
    BY <1>1 DEF Rows
  <1> QED
    BY <1>2 DEF TableInv

\* The table is as it was, and the worker has seen no other rows.
LEMMA TableKept ==
  ASSUME TableInv, UNCHANGED <<clock, stamps, owner, saved, tx>>,
         published' \subseteq DOMAIN owner, batch' \in [Runs -> SUBSET DOMAIN owner]
  PROVE  TableInv'
  <1>1. \A r \in Requests : Length(r)' = Length(r) /\ Rows(r)' = Rows(r)
    BY DEF Length, Rows
  <1>2. StampsFit'
    BY DEF TableInv, StampsFit
  <1>3. /\ clock' \in Nat /\ stamps' \in [Requests -> Seq(1 .. clock')]
        /\ owner' = [e \in DOMAIN owner' |-> owner'[e]]
        /\ published' \subseteq DOMAIN owner' /\ batch' \in [Runs -> SUBSET DOMAIN owner']
    BY DEF TableInv
  <1>4. \A r \in Requests : Len(stamps'[r]) = Length(r)'
    BY <1>1 DEF TableInv
  <1>5. DOMAIN owner' = UNION {Rows(r)' : r \in Requests}
    BY <1>1 DEF TableInv
  <1>6. \A r \in Requests : \A e \in Rows(r)' : owner'[e] = r
    BY <1>1 DEF TableInv
  <1> QED
    BY <1>2, <1>3, <1>4, <1>5, <1>6 DEF TableInv

\* The worker reads the table and nothing else of the sagas.
LEMMA WorkerKeeps ==
  ASSUME TypeOK, TableInv, NEW w \in Runs, StartRun(w) \/ WorkRun(w) \/ FailRun(w)
  PROVE  TableInv'
  <1>1. UNCHANGED <<clock, stamps, owner>> /\ saved' = saved /\ tx' = tx
    BY DEF StartRun, WorkRun, FailRun, table, saga, vars, locals, database
  <1>2. /\ published \subseteq DOMAIN owner
        /\ batch \in [Runs -> SUBSET DOMAIN owner]
        /\ DOMAIN owner \subseteq Nat
    BY TimesAreNat DEF TableInv
  <1>3. CASE Relay!Start(w)
    <2>1. batch' = [batch EXCEPT ![w] = Relay!Oldest(Relay!Pending, BatchSize)]
          /\ published' = published
      BY <1>3 DEF Relay!Start
    <2>2. Relay!Oldest(Relay!Pending, BatchSize) \subseteq DOMAIN owner
      BY DEF Relay!Oldest, Relay!Pending, Relay!stored
    <2>3. published' \subseteq DOMAIN owner /\ batch' \in [Runs -> SUBSET DOMAIN owner]
      BY <1>2, <2>1, <2>2
    <2> QED
      BY <1>1, <2>3, TableKept
  <1>4. CASE Relay!Publish(w)
    <2>1. Relay!Message(w) \in batch[w]
      <3>1. batch[w] \in SUBSET Nat /\ batch[w] # {}
        BY <1>2, <1>4 DEF Relay!Publish
      <3>2. \E e \in batch[w] : \A d \in batch[w] : e <= d
        BY <3>1, LeastTime
      <3> QED
        BY <3>2 DEF Relay!Message
    <2>2. published' = published \cup {Relay!Message(w)} /\ batch' = batch
      BY <1>4 DEF Relay!Publish
    <2>3. published' \subseteq DOMAIN owner /\ batch' \in [Runs -> SUBSET DOMAIN owner]
      BY <1>2, <2>1, <2>2
    <2> QED
      BY <1>1, <2>3, TableKept
  <1>5. CASE Relay!MarkSent(w) \/ Relay!MarkFailed(w) \/ Relay!Commit(w) \/ Relay!Fail(w)
    <2>1. published' \subseteq DOMAIN owner /\ batch' \in [Runs -> SUBSET DOMAIN owner]
      BY <1>2, <1>5 DEF Relay!MarkSent, Relay!MarkFailed, Relay!Commit, Relay!Fail,
         Relay!PublishFails, Relay!RunDies, Relay!Close
    <2> QED
      BY <1>1, <2>1, TableKept
  <1> QED
    BY <1>3, <1>4, <1>5 DEF StartRun, WorkRun, FailRun, Relay!Work

\* A request's step is PlaceOrder of the relay, or nothing to it.
LEMMA RequestKeeps ==
  ASSUME IndInv, IndInv', OutcomeInv, TableInv, NEW r \in Requests, Act(r), Api(r, TRUE)
  PROVE  TableInv' /\ (Relay!PlaceOrder(r, Rows(r)') \/ UNCHANGED <<owner, relay>>)
  <1>1. TypeOK /\ TypeOK' /\ clock \in Nat /\ Stamp /\ UNCHANGED relay
    BY DEF IndInv, TableInv, Api
  <1>2. ASSUME NEW s \in Requests \ {r} PROVE Length(s)' = Length(s)
    BY <1>1, OthersKept DEF Kept, Untouched, Length
  <1>3. \A s \in Requests : Length(s) \in Nat /\ Length(s)' \in Nat
    BY <1>1, Lengths, LengthsNext
  <1>4. CASE UNCHANGED <<row, saved, placed>>
    <2>1. /\ clock' \in Nat /\ clock' >= clock
          /\ Length(r)' <= Length(r) \/ clock' = clock + Length(r)' - Length(r)
      BY <1>1, <1>3 DEF Api
    <2>2. /\ \A s \in Requests : Length(s)' <= Length(s) \/ clock' = clock + Length(s)' - Length(s)
          /\ \A s, t \in Requests :
               Length(s)' > Length(s) /\ Length(t)' > Length(t) => s = t
      BY <1>2, <1>3, <2>1
    <2>3. TableInv' /\ owner' = owner
      BY <1>1, <1>4, <2>1, <2>2, TableStays DEF relay
    <2> QED
      BY <1>1, <2>3
  <1>5. CASE pc[r] = "commit" /\ CommitRows(r)
    <2>1. saved[r] = NoRows
      BY <1>5 DEF OutcomeInv, SavedAt, Ending
    <2>2. saved' = [saved EXCEPT ![r] = tx[r]] /\ tx' = [tx EXCEPT ![r] = NoRows]
      BY <1>5 DEF CommitRows
    <2>3. clock' = clock
      <3>1. Len(NoRows.outbox) = 0
        BY DEF NoRows
      <3>2. tx'[r] = NoRows /\ saved'[r] = tx[r]
        BY <1>1, <2>2 DEF TypeOK
      <3>3. Len(tx[r].outbox) \in Nat
        BY <1>1, Lengths
      <3>4. /\ Length(r)' = Len(tx'[r].outbox) + Len(saved'[r].outbox)
            /\ Length(r) = Len(tx[r].outbox) + Len(saved[r].outbox)
        BY DEF Length
      <3>5. Length(r)' = 0 + Len(tx[r].outbox) /\ Length(r) = Len(tx[r].outbox) + 0
        BY <2>1, <3>1, <3>2, <3>4
      <3> HIDE DEF Length
      <3>6. ~(Length(r)' > Length(r))
        BY <3>3, <3>5
      <3> QED
        BY <3>6 DEF Api
    <2>4. TableInv' /\ Relay!PlaceOrder(r, Rows(r)')
      BY <1>1, <2>1, <2>2, <2>3, TableGrows
    <2> QED
      BY <2>4
  <1> QED
    BY <1>4, <1>5, SavedWays

\* A crash or an expiry appends and commits nothing.
LEMMA EventKeeps ==
  ASSUME IndInv, IndInv', TableInv, ApiEvent
  PROVE  TableInv' /\ UNCHANGED <<owner, relay>>
  <1>1. TypeOK /\ TypeOK' /\ clock \in Nat /\ Stamp /\ UNCHANGED <<clock, relay>>
    BY DEF IndInv, TableInv, ApiEvent
  <1>2. saved' = saved /\ \A s \in Requests : tx'[s] = tx[s] \/ tx'[s] = NoRows
    <2>1. CASE ApiCrash
      BY <2>1 DEF ApiCrash, IndInv, TypeOK
    <2>2. CASE \E k \in Keys : ExpireKey(k)
      BY <2>2 DEF ExpireKey, database
    <2> QED
      BY <2>1, <2>2 DEF ApiEvent
  <1>3. ASSUME NEW s \in Requests PROVE Length(s)' <= Length(s) /\ ~(Length(s)' > Length(s))
    <2>1. Len(NoRows.outbox) = 0
      BY DEF NoRows
    <2>2. Len(tx[s].outbox) \in Nat /\ Len(saved[s].outbox) \in Nat
      BY <1>1, Lengths
    <2>3. /\ Length(s)' = Len(tx'[s].outbox) + Len(saved[s].outbox)
          /\ Length(s) = Len(tx[s].outbox) + Len(saved[s].outbox)
      BY <1>2 DEF Length
    <2>4. \/ Length(s)' = Length(s)
          \/ Length(s)' = 0 + Len(saved[s].outbox)
      BY <1>2, <2>1, <2>3
    <2>5. Length(s) = Len(tx[s].outbox) + Len(saved[s].outbox)
      BY <2>3
    <2>6. \A a, b \in Nat : \A x, y : y = a + b /\ (x = y \/ x = 0 + b) => x <= y /\ ~(x > y)
      OBVIOUS
    <2> QED
      BY <2>2, <2>4, <2>5, <2>6
  <1>4. TableInv' /\ owner' = owner
    BY <1>1, <1>2, <1>3, TableStays DEF relay
  <1> QED
    BY <1>1, <1>4

\* What the relay's invariants see of a step of the system.
RelayStep ==
  \/ \E r \in Requests : Relay!PlaceOrder(r, Rows(r)')
  \/ \E w \in Runs : Relay!Start(w) \/ Relay!Work(w) \/ Relay!Fail(w)

LEMMA SystemStepIsRelayStep ==
  ASSUME IndInv, IndInv', OutcomeInv, TableInv, [SystemNext]_allVars
  PROVE  TableInv' /\ (RelayStep \/ UNCHANGED <<owner, relay>>)
  <1>1. ASSUME NEW r \in Requests,
               Api(r, Arrive(r)) \/ ServeRequest(r) \/ Api(r, Fault(r))
        PROVE  TableInv' /\ (RelayStep \/ UNCHANGED <<owner, relay>>)
    <2>1. Act(r) /\ Api(r, TRUE)
      BY <1>1 DEF Api, ServeRequest, Act
    <2> QED
      BY <2>1, RequestKeeps DEF RelayStep
  <1>2. CASE ApiEvent
    BY <1>2, EventKeeps
  <1>3. ASSUME NEW w \in Runs, StartRun(w) \/ WorkRun(w) \/ FailRun(w)
        PROVE  TableInv' /\ RelayStep
    <2>1. TableInv'
      BY <1>3, WorkerKeeps DEF IndInv
    <2>2. Relay!Start(w) \/ Relay!Work(w) \/ Relay!Fail(w)
      BY <1>3 DEF StartRun, WorkRun, FailRun
    <2> QED
      BY <2>1, <2>2 DEF RelayStep
  <1>4. CASE UNCHANGED allVars
    <2>1. UNCHANGED <<clock, stamps, owner, saved, tx, published, batch, relay>>
      BY <1>4 DEF allVars, saga, vars, locals, database, table, relay
    <2>2. published' \subseteq DOMAIN owner /\ batch' \in [Runs -> SUBSET DOMAIN owner]
      BY <2>1 DEF TableInv
    <2> QED
      BY <2>1, <2>2, TableKept
  <1> QED
    BY <1>1, <1>2, <1>3, <1>4 DEF SystemNext

LEMMA InitTable == SystemInit => TableInv /\ Relay!Init
  <1> SUFFICES ASSUME SystemInit PROVE TableInv /\ Relay!Init
    OBVIOUS
  <1>1. \A r \in Requests : /\ DOMAIN saved[r].outbox = {} /\ Len(saved[r].outbox) = 0
                            /\ Len(tx[r].outbox) = 0 /\ stamps[r] = <<>>
    BY DEF SystemInit, Init, NoRows
  <1>2. ASSUME NEW r \in Requests PROVE Rows(r) = {} /\ Length(r) = 0
    <2>1. Rows(r) = {}
      BY <1>1 DEF Rows
    <2>2. Length(r) = 0 + 0
      BY <1>1 DEF Length
    <2> QED
      BY <2>1, <2>2
  <1>3. stamps \in [Requests -> Seq(1 .. clock)] /\ clock \in Nat
    BY DEF SystemInit
  <1>4. owner = <<>> /\ DOMAIN owner = {} /\ owner = [e \in DOMAIN owner |-> owner[e]]
    BY DEF SystemInit
  <1>5. published = {} /\ batch \in [Runs -> SUBSET DOMAIN owner]
    BY DEF SystemInit
  <1>6. StampsFit
    BY <1>1 DEF StampsFit
  <1>7. DOMAIN owner = UNION {Rows(r) : r \in Requests}
    BY <1>2, <1>4
  <1>8. \A r \in Requests : Len(stamps[r]) = Length(r)
    BY <1>1, <1>2
  <1>9. Relay!Init
    BY DEF SystemInit, Relay!Init
  <1> QED
    BY <1>2, <1>3, <1>4, <1>5, <1>6, <1>7, <1>8, <1>9 DEF TableInv

\* The outbox table and what the worker has seen of it fit the sagas in every
\* reachable state, for any sagas, runs and batches.
THEOREM TableInvariant == SystemSpec => []TableInv
  <1>1. IndInv /\ IndInv' /\ OutcomeInv /\ TableInv /\ [SystemNext]_allVars => TableInv'
    BY SystemStepIsRelayStep
  <1> QED
    BY <1>1, InitTable, SagaInvariants, PTL DEF SystemSpec

\* To the relay a saga, with all its interleavings, failures and rollbacks, is
\* one step that adds the rows of one new order at new times (append,
\* get_db_session, get_pending).
THEOREM SagasArePlaceOrder == SystemSpec => ImplementsRelay
  <1>1. IndInv /\ IndInv' /\ OutcomeInv /\ TableInv /\ [SystemNext]_allVars =>
          [RelayStep]_(Relay!vars)
    BY SystemStepIsRelayStep DEF Relay!vars, Relay!rows, relay
  <1>2. SystemInit => Relay!Init
    BY InitTable
  <1>3. ImplementsRelay <=> Relay!Init /\ [][RelayStep]_(Relay!vars)
    BY DEF ImplementsRelay, RelayStep
  <1> HIDE DEF RelayStep
  <1> QED
    BY <1>1, <1>2, <1>3, TableInvariant, SagaInvariants, PTL DEF SystemSpec

\* Nothing of a saga in flight, failed or compensated is ever published: what
\* is out was committed with a confirmed order (append, get_pending, rollback).
THEOREM ConfirmedIsPublished == SystemSpec => []OnlyConfirmedPublished
  <1>1. IndInv /\ OutcomeInv /\ TableInv => OnlyConfirmedPublished
    <2> SUFFICES ASSUME IndInv, OutcomeInv, TableInv, NEW e \in published
                 PROVE  \E r \in Requests :
                          /\ e \in Rows(r) /\ saved[r].order.status = "CONFIRMED"
                          /\ \A i \in DOMAIN saved[r].outbox :
                               saved[r].outbox[i] \in AllEvents
      BY DEF OnlyConfirmedPublished, AllEvents
    <2>1. PICK r \in Requests : e \in Rows(r)
      BY DEF TableInv
    <2>2. saved[r] # NoRows
      BY <2>1 DEF Rows, NoRows
    <2>3. saved[r].order.status = "CONFIRMED" /\ Types(saved[r].outbox) = AllEvents
      BY <2>2 DEF OutcomeInv, SavedAt
    <2>4. \A i \in DOMAIN saved[r].outbox : saved[r].outbox[i] \in AllEvents
      BY <2>3 DEF Types
    <2> QED
      BY <2>1, <2>3, <2>4
  <1> QED
    BY <1>1, SagaInvariants, TableInvariant, PTL

-----------------------------------------------------------------------------
\* The relay's theorems, with the system's variables for the relay's.
Proved == INSTANCE OutboxRelay_proofs WITH
  Orders <- Requests, Events <- Nat,
  RowSets <- {S \in SUBSET Nat : \E n \in Nat : S \subseteq 0 .. n},
  pc <- run, todo <- batch

\* What the relay assumes of its constants holds in the system.
LEMMA TimesAreEvents ==
  /\ Nat \subseteq Nat
  /\ \A new \in {S \in SUBSET Nat : \E n \in Nat : S \subseteq 0 .. n} :
       new \subseteq Nat /\ \E n \in Nat : new \subseteq 0 .. n
  OBVIOUS

\* An order's rows have finitely many times.
LEMMA RowsAreTimes ==
  ASSUME TypeOK', TableInv', NEW r \in Requests
  PROVE  Rows(r)' \in {S \in SUBSET Nat : \E n \in Nat : S \subseteq 0 .. n}
  <1>1. clock' \in Nat
    BY DEF TableInv
  <1>2. ASSUME NEW i \in DOMAIN saved'[r].outbox
        PROVE  stamps'[r][i] \in 1 .. clock'
    <2>1. stamps'[r] \in Seq(1 .. clock') /\ Len(stamps'[r]) = Length(r)'
      BY DEF TableInv
    <2>2. i \in 1 .. Length(r)'
      BY LengthsNext
    <2>3. i \in 1 .. Len(stamps'[r])
      BY <2>1, <2>2
    <2> QED
      BY <2>1, <2>3, ElementOfSeq
  <1>3. Rows(r)' \subseteq 1 .. clock'
    BY <1>2 DEF Rows
  <1> HIDE DEF Rows
  <1>4. 1 .. clock' \subseteq 0 .. clock' /\ 0 .. clock' \subseteq Nat
    BY <1>1
  <1> QED
    BY <1>1, <1>3, <1>4

\* The two names of the relay's actions mean the same.
LEMMA SameStart == ASSUME NEW w \in Runs, Relay!Start(w) PROVE Proved!Start(w)
  BY DEF Relay!Start, Proved!Start, Relay!Oldest, Proved!Oldest, Relay!Pending,
         Proved!Pending, Relay!stored, Proved!stored, Relay!Goto, Proved!Goto,
         Relay!rows, Proved!rows, Relay!Cardinality, Proved!Cardinality

LEMMA SameMark ==
  ASSUME NEW w \in Runs
  PROVE  Proved!Message(w) = Relay!Message(w) /\ (Proved!CanMark(w) <=> Relay!CanMark(w))
  BY DEF Relay!Message, Proved!Message, Relay!CanMark, Proved!CanMark,
         Relay!Marked, Proved!Marked

LEMMA SameWork == ASSUME NEW w \in Runs, Relay!Work(w) PROVE Proved!Work(w)
  <1>1. Relay!Publish(w) => Proved!Publish(w)
    BY SameMark DEF Relay!Publish, Proved!Publish, Relay!Goto, Proved!Goto,
                    Relay!rows, Proved!rows
  <1>2. Relay!MarkSent(w) => Proved!MarkSent(w)
    BY SameMark DEF Relay!MarkSent, Proved!MarkSent, Relay!Goto, Proved!Goto,
                    Relay!rows, Proved!rows
  <1>3. Relay!MarkFailed(w) => Proved!MarkFailed(w)
    BY SameMark DEF Relay!MarkFailed, Proved!MarkFailed, Relay!Goto, Proved!Goto,
                    Relay!rows, Proved!rows
  <1>4. Relay!Commit(w) => Proved!Commit(w)
    BY DEF Relay!Commit, Proved!Commit, Relay!Close, Proved!Close, Relay!Goto,
           Proved!Goto
  <1> QED
    BY <1>1, <1>2, <1>3, <1>4 DEF Relay!Work, Proved!Work

LEMMA SameFail == ASSUME NEW w \in Runs, Relay!Fail(w) PROVE Proved!Fail(w)
  BY DEF Relay!Fail, Proved!Fail, Relay!PublishFails, Proved!PublishFails,
         Relay!RunDies, Proved!RunDies, Relay!Close, Proved!Close, Relay!Goto,
         Proved!Goto, Relay!rows, Proved!rows

LEMMA SamePlace ==
  ASSUME NEW r \in Requests, Relay!PlaceOrder(r, Rows(r)') PROVE Proved!PlaceOrder(r, Rows(r)')
  BY DEF Relay!PlaceOrder, Proved!PlaceOrder, Relay!IsNew, Proved!IsNew,
         Relay!stored, Proved!stored

\* The system implements the relay (get_db_session's commit, process_outbox).
THEOREM SystemRelays == SystemSpec => Proved!Spec
  <1>1. SystemInit => Proved!Init
    BY DEF SystemInit, Proved!Init
  <1>2. ASSUME IndInv, IndInv', OutcomeInv, TableInv, [SystemNext]_allVars
        PROVE  [Proved!Next]_(Proved!vars)
    <2>1. TableInv' /\ (RelayStep \/ UNCHANGED <<owner, relay>>) /\ TypeOK'
      BY <1>2, SystemStepIsRelayStep DEF IndInv
    <2>2. ASSUME NEW r \in Requests, Relay!PlaceOrder(r, Rows(r)')
          PROVE  Proved!Next
      BY <2>1, <2>2, SamePlace, RowsAreTimes DEF Proved!Next
    <2>3. ASSUME NEW w \in Runs, Relay!Start(w) \/ Relay!Work(w) \/ Relay!Fail(w)
          PROVE  Proved!Next
      BY <2>3, SameStart, SameWork, SameFail DEF Proved!Next
    <2>4. CASE UNCHANGED <<owner, relay>>
      BY <2>4 DEF relay, Proved!vars, Proved!rows
    <2> QED
      BY <2>1, <2>2, <2>3, <2>4 DEF RelayStep
  <1>3. IndInv /\ IndInv' /\ OutcomeInv /\ TableInv /\ [SystemNext]_allVars =>
          [Proved!Next]_(Proved!vars)
    BY <1>2
  <1> QED
    BY <1>1, <1>3, TableInvariant, SagaInvariants, PTL DEF SystemSpec, Proved!Spec

\* What a saga did goes out in the order in which it did it, whatever other
\* sagas do meanwhile and whatever runs overlap, fail and die (append's
\* created_at, get_pending's ORDER BY).
THEOREM DeliveryKeepsOrder == SystemSpec => SagaOrderKept
  <1>1. Proved!Spec => Proved!OrderedPublication
    BY TimesAreEvents, WorkerAssumption, Proved!PublishedInOrder
  <1> DEFINE ordered == \A e \in published' \ published, d \in DOMAIN owner :
                          owner[d] = owner[e] /\ d < e =>
                            d \in published \cup failed \cup UNION {markedFailed[w] : w \in Runs}
             kept == \A r \in Requests : \A i, j \in DOMAIN saved[r].outbox :
                       i < j /\ stamps[r][j] \in published' \ published =>
                         stamps[r][i] \in published \cup failed
                                            \cup UNION {markedFailed[w] : w \in Runs}
  <1>2. Proved!OrderedPublication <=> [][ordered]_(Proved!vars)
    BY DEF Proved!OrderedPublication, Proved!stored
  <1>3. IndInv /\ TableInv /\ ordered => kept
    <2> SUFFICES ASSUME IndInv, TableInv, ordered, NEW r \in Requests,
                        NEW i \in DOMAIN saved[r].outbox,
                        NEW j \in DOMAIN saved[r].outbox,
                        i < j, stamps[r][j] \in published' \ published
                 PROVE  stamps[r][i] \in published \cup failed
                                           \cup UNION {markedFailed[w] : w \in Runs}
      OBVIOUS
    <2>1. stamps[r][i] \in Rows(r) /\ stamps[r][j] \in Rows(r)
      BY DEF Rows
    <2>2. /\ stamps[r][i] \in DOMAIN owner
          /\ owner[stamps[r][i]] = r /\ owner[stamps[r][j]] = r
      BY <2>1 DEF TableInv
    <2>3. stamps[r][i] < stamps[r][j]
      <3>1. /\ TypeOK /\ stamps[r] \in Seq(1 .. clock) /\ Len(stamps[r]) = Length(r)
        BY DEF IndInv, TableInv
      <3>2. DOMAIN stamps[r] = 1 .. Length(r)
        BY <3>1
      <3>3. i \in DOMAIN stamps[r] /\ j \in DOMAIN stamps[r]
        BY <3>1, <3>2, Lengths
      <3> QED
        BY <3>3 DEF TableInv, StampsFit
    <2> QED
      BY <2>2, <2>3
  <1>4. Proved!vars' = Proved!vars => kept
    BY DEF Proved!vars
  <1>5. allVars' = allVars => Proved!vars' = Proved!vars
    BY DEF allVars, table, relay, Proved!vars, Proved!rows
  <1>6. SagaOrderKept <=> [][kept]_allVars
    BY DEF SagaOrderKept
  <1> HIDE DEF ordered, kept
  <1>7. IndInv /\ TableInv /\ [ordered]_(Proved!vars) => [kept]_allVars
    BY <1>3, <1>4, <1>5
  <1> QED
    BY <1>1, <1>2, <1>6, <1>7, SystemRelays, TableInvariant, SagaInvariants, PTL

\* Beside any sagas, too, runs never wait in a circle for the rows they mark,
\* and no event is recorded as sent that was not published (mark_sent).
THEOREM WorkerNeverDeadlocks ==
  SystemSpec => [](Relay!SentWasPublished /\ Relay!NoLockCycle)
  <1>1. Proved!Spec => []Proved!SentWasPublished /\ []Proved!NoLockCycle
    BY TimesAreEvents, WorkerAssumption, Proved!SentIsPublished, Proved!RunsNeverDeadlock
  <1>2. Proved!SentWasPublished => Relay!SentWasPublished
    BY DEF Proved!SentWasPublished, Relay!SentWasPublished
  <1>3. Proved!NoLockCycle => Relay!NoLockCycle
    BY DEF Proved!NoLockCycle, Relay!NoLockCycle, Proved!WaitsFor, Relay!WaitsFor,
           Proved!Message, Relay!Message, Proved!Marked, Relay!Marked
  <1> QED
    BY <1>1, <1>2, <1>3, SystemRelays, PTL

\* Beside any sagas, too, what is settled of an order is always its oldest
\* events, so that a worker that died is followed by one that goes on where the
\* order was left (get_pending, _async_process_outbox).
THEOREM WorkerLeavesNoGap == SystemSpec => []Relay!SettledFromOldest
  <1>1. Proved!Spec => []Proved!SettledFromOldest
    BY TimesAreEvents, WorkerAssumption, Proved!NoGapIsSettled
  <1>2. Proved!SettledFromOldest => Relay!SettledFromOldest
    BY DEF Proved!SettledFromOldest, Relay!SettledFromOldest, Proved!stored,
           Relay!stored
  <1> QED
    BY <1>1, <1>2, SystemRelays, PTL
=============================================================================
