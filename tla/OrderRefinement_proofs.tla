------------------------ MODULE OrderRefinement_proofs ------------------------
(***************************************************************************)
(* OrderSaga implements AtomicOrders.  A commit of a whole saga is Place,  *)
(* the expiry of a key is Forget, and every other step stutters.           *)
(***************************************************************************)
EXTENDS OrderOutcome_proofs, Sums_proofs

abstract == <<[p \in Stocked |-> row[p].reserved],
              {r \in Requests : saved[r].order # None}, placed, overdue>>

\* What the refinement maps to the abstract state.
LEMMA AbstractUnchanged ==
  UNCHANGED <<row, saved, placed, overdue>> => UNCHANGED abstract
  BY DEF abstract

\* At the start no order is there and what was reserved before is.
LEMMA InitRefines == Init => Atomic!Init
  BY DEF Init, Atomic!Init, NoRows

\* The commit of a whole saga takes all of its order's units at once, of stock
\* that has them, under a key that has placed nothing but overdue orders.
LEMMA CommitPlaces ==
  ASSUME IndInv, OutcomeInv, IndInv', OutcomeInv', NEW r \in Requests,
         pc[r] = "commit", CommitRows(r), tx[r].order # None
  PROVE  Atomic!Place(r)
  <1> DEFINE n == Len(Items[r])
  <1>1. /\ row \in [Stocked -> StockItem] /\ tx \in [Requests -> OwnRows]
        /\ row' \in [Stocked -> StockItem] /\ saved \in [Requests -> OwnRows]
        /\ placed \in [Keys -> SUBSET Requests]
    BY DEF IndInv, TypeOK
  <1>2. Whole(r) /\ saved[r] = NoRows
    BY DEF OutcomeInv, SavedAt, Ending, NoRows
  <1>3. /\ \A i \in DOMAIN Items[r] : Items[r][i].product \in Stocked
        /\ saved[r].order = None
    BY <1>2 DEF Whole, NoRows
  <1>4. KeyOf[r] \in Keys /\ r \notin overdue => placed[KeyOf[r]] \subseteq overdue
    BY DEF OutcomeInv, OwnerAt, Owns
  <1>5. ASSUME NEW p \in Stocked
        PROVE  /\ row'[p].reserved = row[p].reserved + Wanted[r][n][p]
               /\ row[p].reserved + Wanted[r][n][p] <= InitialStock[p].available
    <2>1. row'[p] = Visible(r, p)
      BY DEF CommitRows, Visible
    <2>2. Held(r, p) = Wanted[r][n][p]
      <3>1. idx[r] = n + 1 /\ n \in Nat
        BY <1>2, ItemsAssumption DEF Whole
      <3>2. idx[r] - 1 = n
        BY <3>1
      <3> QED
        BY <3>2 DEF Held
    <2>3. Visible(r, p).reserved = row[p].reserved + Held(r, p)
      BY DEF IndInv, TxLedger, LedgerAt
    <2>4. /\ row'[p].reserved <= row'[p].available
          /\ row'[p].available = InitialStock[p].available
      BY DEF IndInv, NoOversell, OutcomeInv, AvailableAt
    <2> QED
      BY <2>1, <2>2, <2>3, <2>4
  <1>6. [p \in Stocked |-> row[p].reserved]' =
          [p \in Stocked |-> [q \in Stocked |-> row[q].reserved][p] + Wanted[r][n][p]]
    BY <1>5
  <1>7. {s \in Requests : saved[s].order # None}' =
          {s \in Requests : saved[s].order # None} \cup {r}
    <2>1. saved' = [saved EXCEPT ![r] = tx[r]]
      BY DEF CommitRows
    <2> QED
      BY <1>1, <2>1
  <1>8. placed' = [k \in Keys |-> IF k = KeyOf[r] THEN placed[k] \cup {r} ELSE placed[k]]
    BY DEF CommitRows
  <1>9. overdue' = overdue
    BY DEF CommitRows
  <1> QED
    BY <1>3, <1>4, <1>5, <1>6, <1>7, <1>8, <1>9 DEF Atomic!Place

\* A session that read a cached order commits nothing.
LEMMA EmptyCommit ==
  ASSUME IndInv, OutcomeInv, NEW r \in Requests,
         pc[r] = "commit", CommitRows(r), tx[r].order = None
  PROVE  UNCHANGED <<row, saved, placed, overdue>>
  <1>1. /\ row \in [Stocked -> StockItem] /\ saved \in [Requests -> OwnRows]
        /\ placed \in [Keys -> SUBSET Requests]
    BY DEF IndInv, TypeOK
  <1>2. tx[r] = NoRows /\ saved[r] = NoRows
    BY DEF OutcomeInv, SavedAt, Ending, Whole
  <1>3. \A p \in Stocked : lock[p] # r
    BY NoneAssumption DEF IndInv, LockAt
  <1> QED
    BY <1>1, <1>2, <1>3 DEF CommitRows

\* A key is forgotten while requests work under it: of those none has an order.
LEMMA ExpiryForgets ==
  ASSUME IndInv, OutcomeInv, NEW k \in Keys, ExpireKey(k)
  PROVE  Atomic!Forget(k)
  <1> DEFINE Late == {r \in Requests : KeyOf[r] = k /\ Owns(r)}
  <1>1. /\ row' = row /\ saved' = saved /\ placed' = [placed EXCEPT ![k] = {}]
        /\ overdue' = overdue \cup Late
    BY DEF ExpireKey, database
  <1>2. ASSUME NEW r \in Late PROVE saved[r].order = None
    <2>1. SavedAt(r) /\ ControlAt(r) /\ Owns(r)
      BY DEF OutcomeInv, IndInv, RequestInv
    <2>2. pc[r] \notin {"respond", "done"} \/ Ending(r)
      BY <2>1 DEF ControlAt, Owns, Ending
    <2>3. saved[r] = NoRows
      BY <2>1, <2>2 DEF SavedAt
    <2> QED
      BY <2>3 DEF NoRows
  <1>3. Late \in SUBSET {r \in Requests \ {s \in Requests : saved[s].order # None} : KeyOf[r] = k}
    BY <1>2
  <1> HIDE DEF Late
  <1> QED
    BY <1>1, <1>3 DEF Atomic!Forget

\* Every step of the saga is a step of the abstract service or none.
LEMMA NextRefines ==
  ASSUME IndInv, OutcomeInv, IndInv', OutcomeInv', [Next]_vars
  PROVE  Atomic!Next \/ UNCHANGED abstract
  <1>1. ASSUME NEW r \in Requests, Act(r)
        PROVE  Atomic!Next \/ UNCHANGED abstract
    <2>1. CASE UNCHANGED <<row, saved, placed>>
      BY <1>1, <2>1, AbstractUnchanged, SavedWays
    <2>2. CASE pc[r] = "commit" /\ CommitRows(r)
      <3>1. CASE tx[r].order # None
        BY <2>2, <3>1, CommitPlaces DEF Atomic!Next
      <3>2. CASE tx[r].order = None
        BY <2>2, <3>2, EmptyCommit, AbstractUnchanged
      <3> QED
        BY <3>1, <3>2
    <2> QED
      BY <1>1, <2>1, <2>2, SavedWays
  <1>2. CASE ApiCrash
    BY <1>2, AbstractUnchanged DEF ApiCrash, history
  <1>3. ASSUME NEW k \in Keys, ExpireKey(k)
        PROVE  Atomic!Next \/ UNCHANGED abstract
    BY <1>3, ExpiryForgets DEF Atomic!Next
  <1>4. CASE UNCHANGED vars
    BY <1>4, AbstractUnchanged DEF vars, database, history
  <1> QED
    BY <1>1, <1>2, <1>3, <1>4 DEF Next, Terminating, Act

\* Seen through its committed rows, the concurrent, failing and crashing saga
\* places every order in one step, with all of its units, and per lifetime of a
\* key at most one of a request that does not outlive it, for all requests,
\* orders and stocks (execute, get_db_session).
THEOREM SagaIsAtomic == Spec => PlacesAtomically
  <1>1. IndInv /\ OutcomeInv /\ IndInv' /\ OutcomeInv' /\ [Next]_vars =>
          [Atomic!Next]_abstract
    BY NextRefines
  <1>2. Init => Atomic!Init
    BY InitRefines
  <1> QED
    BY <1>1, <1>2, IndInvariant, OutcomeInvariant, PTL
       DEF Spec, PlacesAtomically, Atomic!Spec, abstract

-----------------------------------------------------------------------------
\* The committed orders, and what they ask for of p.
Committed == {r \in Requests : saved[r].order # None}
Asked(p) == [r \in Requests |-> Wanted[r][Len(Items[r])][p]]

\* Only finitely many orders have been placed, and the stock ledger is even.
Ledger == IsFiniteSet(Committed) /\ StockLedger

LEMMA AskedType ==
  ASSUME NEW p \in Stocked, NEW r \in Requests
  PROVE  Asked(p)[r] \in Nat /\ Asked(p)[r] = Wanted[r][Len(Items[r])][p]
  <1>1. Len(Items[r]) \in Nat
    BY ItemsAssumption
  <1>2. Wanted[r][Len(Items[r])] \in [Stocked -> Nat]
    BY <1>1, WantedAssumption
  <1> QED
    BY <1>2 DEF Asked

\* The ledger is even at the start of the abstract service.
LEMMA LedgerStarts == Atomic!Init => Ledger
  <1> SUFFICES ASSUME Atomic!Init PROVE Ledger
    OBVIOUS
  <1>1. Committed = {} /\ \A p \in Stocked : row[p].reserved = InitialStock[p].reserved
    <2>1. [p \in Stocked |-> row[p].reserved] = [p \in Stocked |-> InitialStock[p].reserved]
      BY DEF Atomic!Init
    <2>2. \A p \in Stocked : [q \in Stocked |-> row[q].reserved][p]
                               = [q \in Stocked |-> InitialStock[q].reserved][p]
      BY <2>1
    <2> QED
      BY <2>2 DEF Atomic!Init, Committed
  <1>2. ASSUME NEW p \in Stocked
        PROVE  row[p].reserved = InitialStock[p].reserved
                                   + SumFunctionOnSet(Asked(p), Committed)
    <2>1. SumFunctionOnSet(Asked(p), Committed) = 0
      BY <1>1, SumOverNone
    <2>2. InitialStock[p].reserved \in Nat
      BY StockAssumption DEF StockItem
    <2> QED
      BY <1>1, <2>1, <2>2
  <1>3. IsFiniteSet(Committed)
    BY <1>1, FS_EmptySet
  <1> QED
    BY <1>2, <1>3 DEF Ledger, StockLedger, Committed, Asked

\* A step that leaves the rows' reserved units and the committed orders alone
\* leaves the ledger even.
LEMMA LedgerUntouched ==
  ASSUME Ledger, UNCHANGED <<[p \in Stocked |-> row[p].reserved], Committed>>
  PROVE  Ledger'
  <1>1. ASSUME NEW p \in Stocked PROVE row'[p].reserved = row[p].reserved
    <2>1. [q \in Stocked |-> row[q].reserved]'[p] = [q \in Stocked |-> row[q].reserved][p]
      OBVIOUS
    <2> QED
      BY <2>1
  <1> QED
    BY <1>1 DEF Ledger, StockLedger, Committed

\* Placing an order adds what it asks for on both sides.
LEMMA PlaceBalances ==
  ASSUME Ledger, NEW r \in Requests, Atomic!Place(r)
  PROVE  Ledger'
  <1>1. Committed' = Committed \cup {r} /\ r \notin Committed /\ IsFiniteSet(Committed)
    BY DEF Atomic!Place, Committed, Ledger
  <1>2. IsFiniteSet(Committed)'
    BY <1>1, FS_AddElement
  <1>3. ASSUME NEW p \in Stocked
        PROVE  row'[p].reserved = InitialStock[p].reserved
                                    + SumFunctionOnSet(Asked(p), Committed')
    <2>1. row'[p].reserved = row[p].reserved + Asked(p)[r]
      <3>1. [q \in Stocked |-> row[q].reserved]' =
              [q \in Stocked |-> [t \in Stocked |-> row[t].reserved][q]
                                    + [t \in Requests |-> Wanted[t][Len(Items[t])]][r][q]]
        BY DEF Atomic!Place
      <3>2. [q \in Stocked |-> row[q].reserved]'[p] = row[p].reserved + Wanted[r][Len(Items[r])][p]
        BY <3>1
      <3> QED
        BY <3>2, AskedType
    <2>2. row[p].reserved = InitialStock[p].reserved + SumFunctionOnSet(Asked(p), Committed)
      BY DEF Ledger, StockLedger, Committed, Asked
    <2>3. \A s \in Committed \cup {r} : Asked(p)[s] \in Nat
      BY AskedType DEF Committed
    <2>4. SumFunctionOnSet(Asked(p), Committed') = SumFunctionOnSet(Asked(p), Committed) + Asked(p)[r]
      BY <1>1, <2>3, SumOfOneMore
    <2>5. SumFunctionOnSet(Asked(p), Committed) \in Nat
      BY <1>1, <2>3, SumIsNat
    <2>6. InitialStock[p].reserved \in Nat /\ Asked(p)[r] \in Nat
      BY StockAssumption, AskedType DEF StockItem
    <2> QED
      BY <2>1, <2>2, <2>4, <2>5, <2>6
  <1> QED
    BY <1>2, <1>3 DEF Ledger, StockLedger, Committed, Asked

LEMMA LedgerKept ==
  ASSUME Ledger, [Atomic!Next]_abstract
  PROVE  Ledger'
  <1>1. CASE UNCHANGED abstract
    BY <1>1, LedgerUntouched DEF abstract, Committed
  <1>2. ASSUME NEW r \in Requests, Atomic!Place(r)
        PROVE  Ledger'
    BY <1>2, PlaceBalances
  <1>3. ASSUME NEW k \in Keys, Atomic!Forget(k)
        PROVE  Ledger'
    BY <1>3, LedgerUntouched DEF Atomic!Forget, Committed
  <1> QED
    BY <1>1, <1>2, <1>3 DEF Atomic!Next

\* An atomic order service keeps the books: a fact about the abstract
\* specification alone.
LEMMA AtomicKeepsBooks == PlacesAtomically => []StockLedger
  <1>1. Ledger => StockLedger
    BY DEF Ledger
  <1>2. Ledger /\ [Atomic!Next]_abstract => Ledger'
    BY LedgerKept
  <1> QED
    BY <1>1, <1>2, LedgerStarts, PTL DEF PlacesAtomically, Atomic!Spec, abstract

\* After any interleaving, failure, deadlock and crash, the units reserved of a
\* product are those at the start plus what the committed orders ask for: no
\* lost update and no leak (update_with_version, get_db_session).
THEOREM StockIsAccountedFor == Spec => []StockLedger
  BY SagaIsAtomic, AtomicKeepsBooks, PTL
=============================================================================
