------------------------- MODULE OrderOutcome_proofs -------------------------
(***************************************************************************)
(* How sagas end: what is committed, what clients are told and what a key  *)
(* names.  OutcomeInv is inductive relative to IndInv.                     *)
(***************************************************************************)
EXTENDS OrderSaga_proofs

-----------------------------------------------------------------------------
\* The types of events in a list that grows.

\* The events of two lists one after the other are those of both.
LEMMA TypesOfBoth ==
  ASSUME NEW s \in Seq(EventType), NEW t \in Seq(EventType)
  PROVE  Types(s \o t) = Types(s) \cup Types(t)
  <1>1. /\ s \o t \in Seq(EventType) /\ Len(s \o t) = Len(s) + Len(t)
        /\ Len(s) \in Nat /\ Len(t) \in Nat
        /\ DOMAIN s = 1 .. Len(s) /\ DOMAIN t = 1 .. Len(t)
        /\ DOMAIN (s \o t) = 1 .. Len(s) + Len(t)
    OBVIOUS
  <1>2. \A i \in 1 .. Len(s) + Len(t) :
          (s \o t)[i] = IF i <= Len(s) THEN s[i] ELSE t[i - Len(s)]
    OBVIOUS
  <1>3. ASSUME NEW e \in Types(s \o t) PROVE e \in Types(s) \cup Types(t)
    <2>1. PICK i \in 1 .. Len(s) + Len(t) : e = (s \o t)[i]
      BY <1>1 DEF Types
    <2>2. CASE i <= Len(s)
      BY <1>1, <1>2, <2>1, <2>2 DEF Types
    <2>3. CASE ~(i <= Len(s))
      <3>1. e = t[i - Len(s)] /\ i - Len(s) \in DOMAIN t
        BY <1>1, <1>2, <2>1, <2>3
      <3> QED
        BY <3>1 DEF Types
    <2> QED
      BY <2>2, <2>3
  <1>4. ASSUME NEW e \in Types(s) PROVE e \in Types(s \o t)
    <2>1. PICK i \in 1 .. Len(s) : e = s[i]
      BY <1>1 DEF Types
    <2>2. e = (s \o t)[i] /\ i \in DOMAIN (s \o t)
      BY <1>1, <1>2, <2>1
    <2> QED
      BY <2>2 DEF Types
  <1>5. ASSUME NEW e \in Types(t) PROVE e \in Types(s \o t)
    <2>1. PICK i \in 1 .. Len(t) : e = t[i]
      BY <1>1 DEF Types
    <2>2. Len(s) + i \in 1 .. Len(s) + Len(t) /\ ~(Len(s) + i <= Len(s))
      BY <1>1
    <2>3. e = (s \o t)[Len(s) + i] /\ Len(s) + i \in DOMAIN (s \o t)
      BY <1>1, <1>2, <2>1, <2>2
    <2> QED
      BY <2>3 DEF Types
  <1> QED
    BY <1>3, <1>4, <1>5

\* No event has no type, one event has its own.
LEMMA TypesOfFew ==
  /\ Types(<<>>) = {}
  /\ \A e \in EventType : Types(<<e>>) = {e}
  <1>1. DOMAIN <<>> = {}
    OBVIOUS
  <1>2. ASSUME NEW e \in EventType PROVE Types(<<e>>) = {e}
    <2>1. DOMAIN <<e>> = {1} /\ <<e>>[1] = e
      OBVIOUS
    <2> QED
      BY <2>1 DEF Types
  <1>3. Types(<<>>) = {}
    <2>1. \A e : e \in Types(<<>>) => \E i \in DOMAIN <<>> : TRUE
      BY DEF Types
    <2> QED
      BY <1>1, <2>1
  <1> QED
    BY <1>2, <1>3

\* A transition method adds one event to the aggregate's own.
LEMMA TransitionTypes ==
  ASSUME NEW o \in Order, NEW st \in OrderStatus, NEW e \in EventType
  PROVE  /\ Transition(o, st, e) \in Order /\ Transition(o, st, e).status = st
         /\ Row(Transition(o, st, e)).status = st
         /\ \A t \in Types(Transition(o, st, e).events) : t \in Types(o.events) \/ t = e
         /\ Transition(o, st, e).events[Len(Transition(o, st, e).events)] = e
         /\ Row(Transition(o, st, e)) \in SavedOrder
         /\ Row(Transition(o, st, e)) # None
  <1>1. o.events \in Seq(EventType) /\ o.version \in Nat
    BY DEF Order
  <1>2. Append(o.events, e) = o.events \o <<e>> /\ <<e>> \in Seq(EventType)
    BY <1>1
  <1>3. Types(Append(o.events, e)) = Types(o.events) \cup {e}
    <2>1. Types(o.events \o <<e>>) = Types(o.events) \cup Types(<<e>>)
      BY <1>1, <1>2, TypesOfBoth
    <2>2. Types(<<e>>) = {e}
      BY TypesOfFew
    <2> QED
      BY <1>2, <2>1, <2>2
  <1>4. /\ Transition(o, st, e) \in Order /\ Row(Transition(o, st, e)) \in SavedOrder
        /\ Transition(o, st, e).events[Len(Transition(o, st, e).events)] = e
    BY TransitionType
  <1>5. /\ Transition(o, st, e).status = st
        /\ Transition(o, st, e).events = Append(o.events, e)
    BY DEF Transition
  <1> QED
    BY <1>3, <1>4, <1>5, NoOrderAssumption DEF Row

\* A flush adds its events to the outbox and sets the order row.
LEMMA WriteAdds ==
  ASSUME TypeOK, NEW r \in Requests, NEW o, NEW events \in Seq(EventType),
         NEW entries, Write(r, o, events, entries)
  PROVE  /\ tx'[r].order = o
         /\ Types(tx'[r].outbox) = Types(tx[r].outbox) \cup Types(events)
  <1>1. tx[r].outbox \in Seq(EventType)
    BY DEF TypeOK, OwnRows
  <1>2. tx'[r].order = o /\ tx'[r].outbox = tx[r].outbox \o events
    BY DEF TypeOK, Write
  <1> QED
    BY <1>1, <1>2, TypesOfBoth

-----------------------------------------------------------------------------
\* A request's step leaves what concerns the others alone.

Kept(s) ==
  /\ Untouched(s) /\ order'[s] = order[s] /\ saved'[s] = saved[s]
  /\ reply'[s] = reply[s] /\ result'[s] = result[s]

\* Aggregate, committed rows and reply belong to the request that acts.
LEMMA OthersKept ==
  ASSUME TypeOK, NEW r \in Requests, Act(r), NEW s \in Requests \ {r}
  PROVE  Kept(s)
  <1>1. Untouched(s)
    BY OthersUntouched
  <1>2. CASE Arrive(r) \/ CheckError(r) \/ GetCompleted(r)
               \/ GetInProgress(r) \/ GetError(r) \/ FetchCached(r)
    BY <1>1, <1>2 DEF TypeOK, Kept, Arrive, CheckAndStore, StartUnkeyed,
       CheckError, GetCompleted, GetInProgress, GetError, FetchCached, Return,
       RaiseOut, Abort, Answer, locals, database, client
  <1>3. CASE CreateOrder(r) \/ ReadStock(r) \/ UpdateStock(r)
               \/ RereadStock(r) \/ ReupdateStock(r)
    BY <1>1, <1>3 DEF TypeOK, Kept, CreateOrder, ReadStock, UpdateStock,
       RereadStock, ReupdateStock, TryUpdate, database, client
  <1>4. ASSUME NEW allowed, NEW next, NEW entries, NEW label,
               CompleteStep(r, allowed, next, entries, label)
        PROVE  Kept(s)
    <2>1. CASE allowed
      BY <1>1, <1>4, <2>1 DEF TypeOK, Kept, CompleteStep, database, client
    <2>2. CASE ~allowed
      BY <1>1, <1>4, <2>2 DEF TypeOK, Kept, CompleteStep, database, client
    <2> QED
      BY <2>1, <2>2
  <1>5. CASE MarkStockReserved(r) \/ PayOrder(r) \/ ConfirmOrder(r)
    BY <1>4, <1>5 DEF MarkStockReserved, PayOrder, ConfirmOrder
  <1>6. CASE PublishEvents(r) \/ StoreResult(r) \/ StoreError(r)
    BY <1>1, <1>6 DEF TypeOK, Kept, PublishEvents, StoreResult, StoreError,
       Published, locals, database, client
  <1>7. CASE LogFailure(r) \/ RefundPayment(r) \/ ReleaseStock(r)
               \/ UpdateReleased(r) \/ CancelOrder(r) \/ Rollback(r)
    BY <1>1, <1>7 DEF TypeOK, Kept, LogFailure, RefundPayment, ReleaseStock,
       UpdateReleased, CancelOrder, Rollback, RaiseOut, Abort, Answer, locals, database, client
  <1>8. CASE Commit(r) \/ CommitError(r) \/ Respond(r) \/ DbError(r)
               \/ CompensationError(r) \/ CancelError(r) \/ DeadlockAbort(r)
    BY <1>1, <1>8 DEF TypeOK, Kept, Commit, CommitError, Respond, DbError,
       CompensationError, CancelError, DeadlockAbort, RaiseOut, Abort,
       CommitRows, Answer, locals, database, client
  <1> QED
    BY <1>2, <1>3, <1>5, <1>6, <1>7, <1>8 DEF Act, Serve, Fault

\* Rows are committed at the end of a session and by nothing else, and only
\* then a key's placed orders grow; a request's own step makes nobody overdue.
LEMMA SavedWays ==
  ASSUME NEW r \in Requests, Act(r)
  PROVE  /\ overdue' = overdue
         /\ UNCHANGED <<row, saved, placed>> \/ (pc[r] = "commit" /\ CommitRows(r))
  <1>1. CASE Arrive(r) \/ CheckError(r) \/ GetCompleted(r)
               \/ GetInProgress(r) \/ GetError(r) \/ FetchCached(r)
    BY <1>1 DEF Arrive, CheckAndStore, StartUnkeyed, CheckError, GetCompleted,
       GetInProgress, GetError, FetchCached, RaiseOut, Abort, database, history
  <1>2. CASE CreateOrder(r) \/ ReadStock(r) \/ UpdateStock(r)
               \/ RereadStock(r) \/ ReupdateStock(r)
    BY <1>2 DEF CreateOrder, ReadStock, UpdateStock, RereadStock,
       ReupdateStock, TryUpdate, database, history
  <1>3. CASE MarkStockReserved(r) \/ PayOrder(r) \/ ConfirmOrder(r)
               \/ PublishEvents(r) \/ StoreResult(r) \/ StoreError(r)
    BY <1>3 DEF MarkStockReserved, PayOrder, ConfirmOrder, CompleteStep,
       PublishEvents, StoreResult, StoreError, database, history
  <1>4. CASE LogFailure(r) \/ RefundPayment(r) \/ ReleaseStock(r)
               \/ UpdateReleased(r) \/ CancelOrder(r) \/ Rollback(r)
    BY <1>4 DEF LogFailure, RefundPayment, ReleaseStock,
       UpdateReleased, CancelOrder,
       Rollback, RaiseOut, Abort, database, history
  <1>5. CASE Commit(r) \/ CommitError(r)
    BY <1>5 DEF Commit, CommitError, CommitRows, RaiseOut, Abort, history
  <1>6. CASE Respond(r) \/ DbError(r) \/ CompensationError(r)
               \/ CancelError(r) \/ DeadlockAbort(r)
    BY <1>6 DEF Respond, DbError, CompensationError, CancelError,
       DeadlockAbort, RaiseOut, Abort, database, history
  <1> QED
    BY <1>1, <1>2, <1>3, <1>4, <1>5, <1>6 DEF Act, Serve, Fault

\* A committed order stays as it was committed.
LEMMA SavedStays ==
  ASSUME TypeOK, OutcomeInv, NEW r \in Requests, Act(r), NEW o \in Requests,
         saved[o].order # None
  PROVE  saved'[o] = saved[o]
  <1>1. CASE UNCHANGED saved
    BY <1>1
  <1>2. CASE pc[r] = "commit" /\ CommitRows(r)
    <2>1. saved[r] = NoRows
      BY <1>2 DEF OutcomeInv, SavedAt
    <2>2. o # r
      BY <2>1 DEF NoRows
    <2> QED
      BY <1>2, <2>2 DEF CommitRows, TypeOK
  <1> QED
    BY <1>1, <1>2, SavedWays

\* The part of the invariant that speaks of one request.
OutcomeAt(r) == HistoryAt(r) /\ SavedAt(r) /\ ToldAt(r)

\* The others' part survives a step.
LEMMA OthersOutcome ==
  ASSUME TypeOK, OutcomeInv, NEW r \in Requests, Act(r), NEW s \in Requests \ {r}
  PROVE  OutcomeAt(s)'
  <1>1. Kept(s) /\ HistoryAt(s) /\ SavedAt(s) /\ ToldAt(s)
    BY OthersKept DEF OutcomeInv
  <1>2. HistoryAt(s)'
    BY <1>1 DEF HistoryAt, Written, Kept, Untouched
  <1>3. SavedAt(s)'
    BY <1>1 DEF SavedAt, Ending, Whole, Kept, Untouched
  <1>4. Tellable(s) => Tellable(s)'
    BY <1>1, SavedStays DEF Tellable, Kept
  <1>5. ToldAt(s)'
    BY <1>1, <1>4 DEF ToldAt, Ending, Kept, Untouched
  <1> QED
    BY <1>2, <1>3, <1>5 DEF OutcomeAt

-----------------------------------------------------------------------------
\* The acting request keeps its own part.

\* An exception that leaves execute ends the request with nothing committed.
LEMMA RaiseOutcome ==
  ASSUME IndInv, OutcomeInv, NEW r \in Requests, NEW a \in {"error", "rejected", "critical"},
         RaiseOut(r, a), result' = result, pc[r] \notin {"respond", "done"}
  PROVE  OutcomeAt(r)'
  <1>1. pc'[r] = "done" /\ tx'[r] = NoRows /\ saved'[r] = NoRows
    BY DEF RaiseOut, Goto, Abort, IndInv, TypeOK, OutcomeInv, SavedAt
  <1>2. reply[r] = "accepted" => RespondFirst
    BY DEF OutcomeInv, ToldAt
  <1>3. reply'[r] = "accepted" => RespondFirst
    BY <1>2 DEF RaiseOut, Answer, IndInv, TypeOK
  <1> QED
    BY <1>1, <1>3 DEF OutcomeAt, HistoryAt, SavedAt, ToldAt, Ending

\* The idempotency check writes nothing, and what it reads in Redis names a
\* request with the same key.
LEMMA CheckOutcome ==
  ASSUME IndInv, OutcomeInv, NEW r \in Requests,
         \/ Arrive(r) \/ GetCompleted(r)
         \/ (FetchCached(r) /\ saved[result[r]].order # None)
  PROVE  OutcomeAt(r)'
  <1>1. /\ HistoryAt(r) /\ SavedAt(r) /\ ToldAt(r) /\ ControlAt(r)
        /\ pc[r] \in {"check", "get", "fetch"}
        /\ UNCHANGED <<order, tx, saved, reply, idx>>
    BY DEF OutcomeInv, IndInv, RequestInv, Arrive, CheckAndStore, StartUnkeyed,
       GetCompleted, FetchCached, locals, database, client
  <1>2. tx[r] = NoRows /\ order[r] = NewOrder /\ saved[r] = NoRows
    BY <1>1 DEF HistoryAt, SavedAt
  <1>3. reply[r] \notin {"rejected", "critical"} /\ (reply[r] = "accepted" => RespondFirst)
    BY <1>1 DEF SavedAt, ToldAt
  <1>4. CASE Arrive(r)
    <2>1. pc'[r] \in {"get", "create"}
      BY <1>4 DEF Arrive, CheckAndStore, StartUnkeyed, Goto, IndInv, TypeOK
    <2> QED
      BY <1>1, <1>2, <1>3, <2>1 DEF OutcomeAt, HistoryAt, SavedAt, ToldAt, Ending
  <1>5. CASE GetCompleted(r)
    <2>1. pc'[r] = "fetch" /\ result'[r] = key[KeyOf[r]].order
      BY <1>5 DEF GetCompleted, Goto, IndInv, TypeOK
    <2>2. KeyOf[r] \in Keys /\ key[KeyOf[r]].status = "completed"
      BY <1>1, <1>5, KeyAssumption DEF ControlAt, GetCompleted
    <2>3. result'[r] \in Requests /\ KeyOf[result'[r]] = KeyOf[r]
      BY <2>1, <2>2 DEF OutcomeInv, OwnerAt
    <2> QED
      BY <1>1, <1>2, <1>3, <2>1, <2>3 DEF OutcomeAt, HistoryAt, SavedAt, ToldAt, Ending
  <1>6. CASE FetchCached(r) /\ saved[result[r]].order # None
    <2>1. /\ pc'[r] = IF RespondFirst THEN "respond" ELSE "commit"
          /\ result' = result
      BY <1>6 DEF FetchCached, Return, Goto, IndInv, TypeOK
    <2>2. Tellable(r)'
      BY <1>1, <1>6, <2>1 DEF Tellable, ToldAt, FetchCached
    <2> QED
      BY <1>1, <1>2, <1>3, <2>1, <2>2 DEF OutcomeAt, HistoryAt, SavedAt, ToldAt, Ending
  <1> QED
    BY <1>4, <1>5, <1>6

\* Creating the order writes its first row and its first event.
LEMMA CreateOutcome ==
  ASSUME IndInv, OutcomeInv, NEW r \in Requests, CreateOrder(r)
  PROVE  OutcomeAt(r)'
  <1>1. /\ pc[r] = "create" /\ pc'[r] = "read" /\ order' = order /\ saved' = saved
        /\ reply' = reply
    BY DEF CreateOrder, Goto, database, client, IndInv, TypeOK
  <1>2. /\ tx[r] = NoRows /\ order[r] = NewOrder /\ saved[r] = NoRows
        /\ reply[r] \notin {"rejected", "critical"} /\ (reply[r] = "accepted" => RespondFirst)
    BY <1>1 DEF OutcomeInv, HistoryAt, SavedAt, ToldAt
  <1>3. /\ tx'[r].order = Row(NewOrder)
        /\ Types(tx'[r].outbox) = Types(<<>>) \cup Types(<<"OrderCreated">>)
    <2>1. "OrderCreated" \in EventType
      BY DEF EventType
    <2>2. <<"OrderCreated">> \in Seq(EventType)
      BY <2>1
    <2>3. Write(r, Row(order[r]), <<"OrderCreated">>, LogStart(1))
      BY DEF CreateOrder
    <2>4. /\ tx'[r].order = Row(order[r])
          /\ Types(tx'[r].outbox) = Types(tx[r].outbox) \cup Types(<<"OrderCreated">>)
      BY <2>2, <2>3, WriteAdds DEF IndInv
    <2> QED
      BY <1>2, <2>4 DEF NoRows
  <1>4. Types(<<>>) = {} /\ Types(<<"OrderCreated">>) = {"OrderCreated"}
    BY TypesOfFew DEF EventType
  <1>5. Written(r, "PENDING", {"OrderCreated"})' /\ Types(order'[r].events) = {}
    BY <1>1, <1>2, <1>3, <1>4 DEF Written, NewOrder, Row
  <1> QED
    BY <1>1, <1>2, <1>5 DEF OutcomeAt, HistoryAt, SavedAt, ToldAt, Ending

\* Reserving writes stock rows, no events and no status.
LEMMA ReserveOutcome ==
  ASSUME IndInv, OutcomeInv, NEW r \in Requests,
         ReadStock(r) \/ UpdateStock(r) \/ RereadStock(r) \/ ReupdateStock(r)
  PROVE  OutcomeAt(r)'
  <1>1. /\ pc[r] \in {"read", "update", "reread", "reupdate"}
        /\ pc'[r] \in {"read", "update", "reread", "reupdate", "mark", "fail"}
        /\ order' = order /\ saved' = saved /\ reply' = reply
    BY DEF ReadStock, UpdateStock, RereadStock, ReupdateStock, TryUpdate,
       NextItem, Goto, database, client, IndInv, TypeOK
  <1>2. /\ Written(r, "PENDING", {"OrderCreated"}) /\ saved[r] = NoRows
        /\ Types(order[r].events) \subseteq Types(tx[r].outbox)
        /\ reply[r] \notin {"rejected", "critical"} /\ (reply[r] = "accepted" => RespondFirst)
    BY <1>1 DEF OutcomeInv, HistoryAt, SavedAt, ToldAt
  <1>3. tx'[r].order = tx[r].order /\ Types(tx'[r].outbox) = Types(tx[r].outbox)
    <2>1. CASE ReadStock(r)
      <3> DEFINE entries == IF idx[r] = 1 THEN LogStart(2) ELSE <<>>
      <3>1. Write(r, tx[r].order, <<>>, entries)
        BY <2>1 DEF ReadStock
      <3> HIDE DEF entries
      <3>2. /\ tx'[r].order = tx[r].order
            /\ Types(tx'[r].outbox) = Types(tx[r].outbox) \cup Types(<<>>)
        BY <3>1, WriteAdds, EventLists DEF IndInv
      <3> QED
        BY <3>2, TypesOfFew
    <2>2. CASE UpdateStock(r) \/ RereadStock(r) \/ ReupdateStock(r)
      BY <2>2 DEF UpdateStock, RereadStock, ReupdateStock, TryUpdate
    <2> QED
      BY <2>1, <2>2
  <1> QED
    BY <1>1, <1>2, <1>3 DEF OutcomeAt, HistoryAt, SavedAt, ToldAt, Ending, Written

\* A step whose transition the status allows moves aggregate, row and outbox
\* together.
LEMMA CompleteOutcome ==
  ASSUME IndInv, NEW r \in Requests, NEW st \in OrderStatus, NEW e \in EventType,
         NEW entries, NEW label, Types(order[r].events) \subseteq Types(tx[r].outbox),
         CompleteStep(r, TRUE, Transition(order[r], st, e), entries, label)
  PROVE  /\ order'[r].status = st /\ tx'[r].order.status = st
         /\ (\A t : t \in Types(tx'[r].outbox) <=> t \in Types(tx[r].outbox) \/ t = e)
         /\ Types(order'[r].events) \subseteq Types(tx'[r].outbox)
         /\ saved' = saved /\ reply' = reply /\ pc'[r] = label
  <1> DEFINE next == Transition(order[r], st, e)
  <1>1. order[r] \in Order
    BY DEF IndInv, TypeOK
  <1>2. /\ next \in Order /\ next.status = st /\ Row(next).status = st
        /\ \A t \in Types(next.events) : t \in Types(order[r].events) \/ t = e
        /\ next.events[Len(next.events)] = e
    <2>1. next \in Order /\ next.status = st
      BY <1>1, TransitionTypes
    <2>2. Row(next).status = st
      BY <1>1, TransitionTypes
    <2>3. \A t \in Types(next.events) : t \in Types(order[r].events) \/ t = e
      BY <1>1, TransitionTypes
    <2>4. next.events[Len(next.events)] = e
      BY <1>1, TransitionTypes
    <2> QED
      BY <2>1, <2>2, <2>3, <2>4
  <1>3. CompleteStep(r, TRUE, next, entries, label)
    OBVIOUS
  <1> HIDE DEF next
  <1>4. Write(r, Row(next), <<e>>, entries) /\ order' = [order EXCEPT ![r] = next]
    BY <1>2, <1>3 DEF CompleteStep
  <1>5. <<e>> \in Seq(EventType) /\ Types(<<e>>) = {e}
    BY EventLists, TypesOfFew
  <1>6. tx'[r].order = Row(next) /\ Types(tx'[r].outbox) = Types(tx[r].outbox) \cup {e}
    BY <1>4, <1>5, WriteAdds DEF IndInv
  <1>7. order'[r] = next
    BY <1>4 DEF IndInv, TypeOK
  <1>8. saved' = saved /\ reply' = reply /\ pc'[r] = label
    BY <1>3 DEF CompleteStep, Goto, database, client, IndInv, TypeOK
  <1> QED
    BY <1>2, <1>6, <1>7, <1>8

\* The steps that move the order pass their guards, and each adds its event.
LEMMA ForwardOutcome ==
  ASSUME IndInv, OutcomeInv, NEW r \in Requests,
         MarkStockReserved(r) \/ PayOrder(r) \/ ConfirmOrder(r)
  PROVE  OutcomeAt(r)'
  <1>1. /\ HistoryAt(r) /\ SavedAt(r) /\ ToldAt(r)
        /\ pc[r] \in {"mark", "pay", "confirm"}
    BY DEF OutcomeInv, MarkStockReserved, PayOrder, ConfirmOrder
  <1>2. /\ saved[r] = NoRows /\ reply[r] \notin {"rejected", "critical"}
        /\ (reply[r] = "accepted" => RespondFirst)
        /\ Types(order[r].events) \subseteq Types(tx[r].outbox)
    BY <1>1 DEF HistoryAt, SavedAt, ToldAt
  <1>3. CASE MarkStockReserved(r)
    <2>1. CompleteStep(r, TRUE, Transition(order[r], "STOCK_RESERVED", "StockReserved"), <<>>, "pay")
      BY <1>1, <1>3 DEF MarkStockReserved, HistoryAt, Written, CanReserveStock, ReserveStock
    <2>2. "STOCK_RESERVED" \in OrderStatus /\ "StockReserved" \in EventType
      BY DEF OrderStatus, EventType
    <2>3. /\ order'[r].status = "STOCK_RESERVED" /\ tx'[r].order.status = "STOCK_RESERVED"
          /\ (\A t : t \in Types(tx'[r].outbox) <=> t \in Types(tx[r].outbox) \/ t = "StockReserved")
          /\ Types(order'[r].events) \subseteq Types(tx'[r].outbox)
          /\ saved' = saved /\ reply' = reply /\ pc'[r] = "pay"
      BY <1>2, <2>1, <2>2, CompleteOutcome
    <2>4. Types(tx[r].outbox) = {"OrderCreated"}
      BY <1>1, <1>3 DEF MarkStockReserved, HistoryAt, Written
    <2> QED
      BY <1>2, <2>3, <2>4 DEF OutcomeAt, HistoryAt, SavedAt, ToldAt, Ending, Written
  <1>4. CASE PayOrder(r)
    <2> DEFINE entries == LogStart(3)
    <2>1. CompleteStep(r, TRUE, Transition(order[r], "PAYMENT_PROCESSED", "PaymentProcessed"),
                       entries, "confirm")
      BY <1>1, <1>4 DEF PayOrder, HistoryAt, Written, CanProcessPayment, ProcessPayment
    <2> HIDE DEF entries
    <2>2. "PAYMENT_PROCESSED" \in OrderStatus /\ "PaymentProcessed" \in EventType
      BY DEF OrderStatus, EventType
    <2>3. /\ order'[r].status = "PAYMENT_PROCESSED" /\ tx'[r].order.status = "PAYMENT_PROCESSED"
          /\ (\A t : t \in Types(tx'[r].outbox) <=> t \in Types(tx[r].outbox) \/ t = "PaymentProcessed")
          /\ Types(order'[r].events) \subseteq Types(tx'[r].outbox)
          /\ saved' = saved /\ reply' = reply /\ pc'[r] = "confirm"
      BY <1>2, <2>1, <2>2, CompleteOutcome
    <2>4. Types(tx[r].outbox) = {"OrderCreated", "StockReserved"}
      BY <1>1, <1>4 DEF PayOrder, HistoryAt, Written
    <2> QED
      BY <1>2, <2>3, <2>4 DEF OutcomeAt, HistoryAt, SavedAt, ToldAt, Ending, Written
  <1>5. CASE ConfirmOrder(r)
    <2> DEFINE entries == LogStart(4)
    <2>1. CompleteStep(r, TRUE, Transition(order[r], "CONFIRMED", "OrderConfirmed"),
                       entries, "publish")
      BY <1>1, <1>5 DEF ConfirmOrder, HistoryAt, Written, CanConfirm, Confirm
    <2> HIDE DEF entries
    <2>2. "CONFIRMED" \in OrderStatus /\ "OrderConfirmed" \in EventType
      BY DEF OrderStatus, EventType
    <2>3. /\ order'[r].status = "CONFIRMED" /\ tx'[r].order.status = "CONFIRMED"
          /\ (\A t : t \in Types(tx'[r].outbox) <=> t \in Types(tx[r].outbox) \/ t = "OrderConfirmed")
          /\ Types(order'[r].events) \subseteq Types(tx'[r].outbox)
          /\ saved' = saved /\ reply' = reply /\ pc'[r] = "publish"
      BY <1>2, <2>1, <2>2, CompleteOutcome
    <2>4. Types(tx[r].outbox) = {"OrderCreated", "StockReserved", "PaymentProcessed"}
      BY <1>1, <1>5 DEF ConfirmOrder, HistoryAt, Written
    <2> QED
      BY <1>2, <2>3, <2>4 DEF OutcomeAt, HistoryAt, SavedAt, ToldAt, Ending, Written, AllEvents
  <1> QED
    BY <1>3, <1>4, <1>5

\* Past the loop every line has been reserved.
LEMMA AllStocked ==
  ASSUME IndInv, NEW r \in Requests, pc[r] \in {"publish", "store"}
  PROVE  /\ idx[r] = Len(Items[r]) + 1 /\ tx[r].order # None
         /\ \A i \in DOMAIN Items[r] : Items[r][i].product \in Stocked
  <1>1. ControlAt(r) /\ StockedAt(r) /\ Items[r] \in Seq(OrderItem)
    BY ItemsAssumption DEF IndInv, RequestInv
  <1>2. idx[r] = Len(Items[r]) + 1 /\ tx[r].order # None
    BY <1>1 DEF ControlAt
  <1>3. \A i \in DOMAIN Items[r] : i < idx[r]
    BY <1>1, <1>2
  <1> QED
    BY <1>1, <1>2, <1>3 DEF StockedAt

\* The first of a list of events is one of them, and so are all the others.
LEMMA TypesOfParts ==
  ASSUME NEW events \in Seq(EventType), events # <<>>
  PROVE  /\ Head(events) \in EventType /\ <<Head(events)>> \in Seq(EventType)
         /\ Types(<<Head(events)>>) \subseteq Types(events)
         /\ Types(Tail(events)) \subseteq Types(events)
  <1>1. /\ Len(events) \in Nat /\ Len(events) >= 1 /\ DOMAIN events = 1 .. Len(events)
        /\ Head(events) = events[1] /\ Head(events) \in EventType
    OBVIOUS
  <1>2. /\ Tail(events) \in Seq(EventType) /\ Len(Tail(events)) = Len(events) - 1
        /\ DOMAIN Tail(events) = 1 .. Len(Tail(events))
        /\ \A i \in 1 .. Len(events) - 1 : Tail(events)[i] = events[i + 1]
    OBVIOUS
  <1>3. Types(<<Head(events)>>) = {events[1]} /\ events[1] \in Types(events)
    BY <1>1, TypesOfFew DEF Types
  <1>4. ASSUME NEW e \in Types(Tail(events)) PROVE e \in Types(events)
    <2>1. PICK i \in 1 .. Len(events) - 1 : e = Tail(events)[i]
      BY <1>2 DEF Types
    <2>2. e = events[i + 1] /\ i + 1 \in DOMAIN events
      BY <1>1, <1>2, <2>1
    <2> QED
      BY <2>2 DEF Types
  <1> QED
    BY <1>1, <1>3, <1>4

\* The aggregate's own events are in the outbox already: appending the next one
\* adds no type.
LEMMA PublishOutcome ==
  ASSUME IndInv, OutcomeInv, NEW r \in Requests, PublishEvents(r)
  PROVE  OutcomeAt(r)'
  <1>1. /\ pc[r] = "publish" /\ saved' = saved /\ reply' = reply /\ idx' = idx
        /\ order[r].events \in Seq(EventType) /\ order[r].events # <<>>
        /\ order'[r].status = order[r].status
        /\ order'[r].events = Tail(order[r].events)
        /\ \/ pc'[r] = "publish"
           \/ pc'[r] = "store"
           \/ /\ pc'[r] = IF RespondFirst THEN "respond" ELSE "commit"
              /\ result'[r] = r
    <2>1. /\ pc[r] = "publish" /\ saved' = saved /\ reply' = reply /\ idx' = idx
          /\ order[r].events # <<>>
      BY DEF PublishEvents, database, IndInv, RequestInv, ControlAt
    <2>2. /\ order[r] \in Order
          /\ order' = [order EXCEPT ![r].events = Tail(@)]
          /\ order \in [Requests -> Order]
      BY DEF PublishEvents, IndInv, TypeOK
    <2>3. order'[r] = [order[r] EXCEPT !.events = Tail(@)]
      BY <2>2
    <2>4. \/ pc'[r] = "publish"
          \/ pc'[r] = "store"
          \/ /\ pc'[r] = IF RespondFirst THEN "respond" ELSE "commit"
             /\ result'[r] = r
      BY <2>1 DEF PublishEvents, Published, Return, Goto, IndInv, TypeOK
    <2> QED
      BY <2>1, <2>2, <2>3, <2>4 DEF Order
  <1>2. /\ Written(r, "CONFIRMED", AllEvents) /\ saved[r] = NoRows
        /\ Types(order[r].events) \subseteq AllEvents
        /\ reply[r] \notin {"rejected", "critical"} /\ (reply[r] = "accepted" => RespondFirst)
    BY <1>1 DEF OutcomeInv, HistoryAt, SavedAt, ToldAt, Written
  <1>3. tx'[r].order = tx[r].order /\ Types(tx'[r].outbox) = AllEvents
    <2> DEFINE one == <<Head(order[r].events)>>
    <2>1. one \in Seq(EventType) /\ Types(one) \subseteq Types(order[r].events)
      BY <1>1, TypesOfParts
    <2>2. Write(r, tx[r].order, one, <<>>)
      BY DEF PublishEvents
    <2> HIDE DEF one
    <2>3. /\ tx'[r].order = tx[r].order
          /\ Types(tx'[r].outbox) = Types(tx[r].outbox) \cup Types(one)
      BY <2>1, <2>2, WriteAdds DEF IndInv
    <2> QED
      BY <1>2, <2>1, <2>3 DEF Written
  <1>4. Types(order'[r].events) \subseteq AllEvents
    BY <1>1, <1>2, TypesOfParts
  <1>5. Whole(r)'
    <2>1. /\ idx[r] = Len(Items[r]) + 1 /\ tx[r].order # None
          /\ \A i \in DOMAIN Items[r] : Items[r][i].product \in Stocked
      BY <1>1, AllStocked
    <2> QED
      BY <1>1, <1>2, <1>3, <2>1 DEF Whole, Written
  <1>6. Written(r, "CONFIRMED", AllEvents)'
    BY <1>1, <1>2, <1>3 DEF Written, AllEvents
  <1>7. HistoryAt(r)'
    BY <1>1, <1>3, <1>4, <1>6 DEF HistoryAt
  <1>8. SavedAt(r)'
    BY <1>1, <1>2, <1>5 DEF SavedAt, Ending
  <1>9. ToldAt(r)'
    BY <1>1, <1>2, <1>5 DEF ToldAt, Ending, Whole
  <1> QED
    BY <1>7, <1>8, <1>9 DEF OutcomeAt

\* Storing the result changes Redis and names r; it fails into the handler.
LEMMA StoreOutcome ==
  ASSUME IndInv, OutcomeInv, NEW r \in Requests, StoreResult(r) \/ StoreError(r)
  PROVE  OutcomeAt(r)'
  <1>1. /\ pc[r] = "store" /\ UNCHANGED <<saved, reply, idx, tx, order>>
        /\ \/ pc'[r] = "fail"
           \/ /\ pc'[r] = IF RespondFirst THEN "respond" ELSE "commit"
              /\ result'[r] = r
    BY DEF StoreResult, StoreError, Return, Goto, locals, database, client,
       IndInv, TypeOK
  <1>2. /\ Written(r, "CONFIRMED", AllEvents) /\ saved[r] = NoRows
        /\ reply[r] \notin {"rejected", "critical"} /\ (reply[r] = "accepted" => RespondFirst)
    BY <1>1 DEF OutcomeInv, HistoryAt, SavedAt, ToldAt
  <1>3. Whole(r)'
    <2>1. /\ idx[r] = Len(Items[r]) + 1 /\ tx[r].order # None
          /\ \A i \in DOMAIN Items[r] : Items[r][i].product \in Stocked
      BY <1>1, AllStocked
    <2> QED
      BY <1>1, <1>2, <2>1 DEF Whole, Written
  <1> QED
    BY <1>1, <1>2, <1>3 DEF OutcomeAt, HistoryAt, SavedAt, ToldAt, Ending, Whole

\* The handler and the compensations commit nothing and tell nobody.
LEMMA HandlerOutcome ==
  ASSUME IndInv, OutcomeInv, NEW r \in Requests,
         \/ LogFailure(r) \/ RefundPayment(r) \/ UpdateReleased(r) \/ CancelOrder(r)
         \/ (ReleaseStock(r) /\ CanRelease(Visible(r, Item(r).product), Item(r).qty))
  PROVE  OutcomeAt(r)'
  <1>1. /\ pc[r] \in {"fail", "refund", "release", "putback", "cancel"}
        /\ pc'[r] \in {"refund", "release", "putback", "cancel", "rollback"}
        /\ saved' = saved /\ reply' = reply
    BY DEF LogFailure, RefundPayment, CancelOrder, ReleaseStock, UpdateReleased,
       NextItem, Goto,
       database, client, IndInv, TypeOK
  <1>2. /\ saved[r] = NoRows /\ reply[r] \notin {"rejected", "critical"}
        /\ (reply[r] = "accepted" => RespondFirst)
    BY <1>1 DEF OutcomeInv, SavedAt, ToldAt, Ending
  <1> QED
    BY <1>1, <1>2 DEF OutcomeAt, HistoryAt, SavedAt, ToldAt, Ending

\* A session that ends keeps all of a saga's rows, or none.
LEMMA CommitOutcome ==
  ASSUME IndInv, OutcomeInv, NEW r \in Requests, pc[r] = "commit", CommitRows(r),
         result' = result,
         \/ (pc'[r] = "done" /\ Answer(r, "error"))
         \/ /\ pc'[r] = IF RespondFirst THEN "done" ELSE "respond"
            /\ reply' = reply
  PROVE  OutcomeAt(r)'
  <1>1. /\ saved'[r] = tx[r] /\ tx'[r] = NoRows
        /\ tx[r] = NoRows \/ Whole(r)
        /\ (tx[r].order # None /\ result[r] = r) \/ Tellable(r)
        /\ reply[r] \notin {"rejected", "critical"} /\ (reply[r] = "accepted" => RespondFirst)
    BY DEF OutcomeInv, SavedAt, ToldAt, Ending, CommitRows, IndInv, TypeOK
  <1>2. Tellable(r)'
    <2>1. CASE tx[r].order # None /\ result[r] = r
      BY <1>1, <2>1 DEF Tellable
    <2>2. CASE Tellable(r)
      <3>1. result[r] # r
        <4>1. saved[r] = NoRows
          BY DEF OutcomeInv, SavedAt, Ending
        <4> QED
          BY <2>2, <4>1 DEF Tellable, NoRows
      <3>2. saved'[result[r]] = saved[result[r]]
        BY <2>2, <3>1 DEF Tellable, CommitRows, IndInv, TypeOK
      <3> QED
        BY <2>2, <3>2 DEF Tellable
    <2> QED
      BY <1>1, <2>1, <2>2
  <1>3. reply'[r] \notin {"rejected", "critical"} /\ (reply'[r] = "accepted" => RespondFirst)
    BY <1>1 DEF Answer, IndInv, TypeOK
  <1>4. pc'[r] = "done" \/ (pc'[r] = "respond" /\ ~RespondFirst)
    BY SwitchAssumption
  <1>5. SavedAt(r)'
    BY <1>1, <1>3, <1>4 DEF SavedAt, Ending, Whole
  <1> QED
    BY <1>1, <1>2, <1>3, <1>4, <1>5 DEF OutcomeAt, HistoryAt, ToldAt, Ending

\* The client is answered before or after the commit.
LEMMA RespondOutcome ==
  ASSUME IndInv, OutcomeInv, NEW r \in Requests, Respond(r)
  PROVE  OutcomeAt(r)'
  <1>1. /\ pc[r] = "respond" /\ UNCHANGED <<saved, result, tx, idx, order>>
        /\ pc'[r] = IF RespondFirst THEN "commit" ELSE "done"
        /\ reply'[r] = IF reply[r] = "none" THEN "accepted" ELSE reply[r]
    BY DEF Respond, Goto, Answer, locals, database, IndInv, TypeOK
  <1>2. SavedAt(r) /\ ToldAt(r)
    BY DEF OutcomeInv
  <1>3. HistoryAt(r)'
    BY <1>1 DEF HistoryAt
  <1>4. SavedAt(r)'
    BY <1>1, <1>2, SwitchAssumption DEF SavedAt, Ending, Whole
  <1>5. Tellable(r)' <=> Tellable(r)
    BY <1>1 DEF Tellable
  <1>6. ToldAt(r)'
    BY <1>1, <1>2, <1>5, SwitchAssumption DEF ToldAt, Ending
  <1> QED
    BY <1>3, <1>4, <1>6 DEF OutcomeAt

\* A request that acts keeps its part of the invariant.
LEMMA SelfOutcome ==
  ASSUME IndInv, OutcomeInv, NEW r \in Requests, Act(r)
  PROVE  OutcomeAt(r)'
  <1>1. ASSUME NEW a \in {"error", "rejected", "critical"}, RaiseOut(r, a),
               result' = result, pc[r] \notin {"respond", "done"}
        PROVE  OutcomeAt(r)'
    BY <1>1, RaiseOutcome
  <1>2. CASE \/ CheckError(r) \/ GetInProgress(r) \/ GetError(r) \/ Rollback(r)
             \/ DbError(r) \/ CompensationError(r) \/ CancelError(r)
    BY <1>1, <1>2 DEF CheckError, GetInProgress, GetError, Rollback, DbError,
       CompensationError, CancelError
  <1>3. CASE DeadlockAbort(r)
    <2>1. pc[r] \in {"update", "reupdate", "putback"}
      BY <1>3 DEF DeadlockAbort, InDeadlock, WaitsFor
    <2> QED
      BY <1>1, <1>3, <2>1 DEF DeadlockAbort
  <1>4. CASE Arrive(r) \/ GetCompleted(r)
    BY <1>4, CheckOutcome
  <1>5. CASE FetchCached(r)
    <2>1. CASE saved[result[r]].order # None
      BY <1>5, <2>1, CheckOutcome
    <2>2. CASE saved[result[r]].order = None
      BY <1>1, <1>5, <2>2 DEF FetchCached
    <2> QED
      BY <2>1, <2>2
  <1>6. CASE CreateOrder(r)
    BY <1>6, CreateOutcome
  <1>7. CASE ReadStock(r) \/ UpdateStock(r) \/ RereadStock(r) \/ ReupdateStock(r)
    BY <1>7, ReserveOutcome
  <1>8. CASE MarkStockReserved(r) \/ PayOrder(r) \/ ConfirmOrder(r)
    BY <1>8, ForwardOutcome
  <1>9. CASE PublishEvents(r) \/ StoreResult(r) \/ StoreError(r)
    BY <1>9, PublishOutcome, StoreOutcome
  <1>10. CASE LogFailure(r) \/ RefundPayment(r) \/ UpdateReleased(r) \/ CancelOrder(r)
    BY <1>10, HandlerOutcome
  <1>11. CASE ReleaseStock(r)
    <2>1. CASE CanRelease(Visible(r, Item(r).product), Item(r).qty)
      BY <1>11, <2>1, HandlerOutcome
    <2>2. CASE ~CanRelease(Visible(r, Item(r).product), Item(r).qty)
      BY <1>1, <1>11, <2>2 DEF ReleaseStock
    <2> QED
      BY <2>1, <2>2
  <1>12. CASE Commit(r)
    BY <1>12, CommitOutcome DEF Commit, Goto, client, IndInv, TypeOK
  <1>13. CASE CommitError(r)
    BY <1>1, <1>13, CommitOutcome DEF CommitError, Goto, IndInv, TypeOK
  <1>14. CASE Respond(r)
    BY <1>14, RespondOutcome
  <1> QED
    BY <1>2, <1>3, <1>4, <1>5, <1>6, <1>7, <1>8, <1>9, <1>10, <1>11, <1>12,
       <1>13, <1>14 DEF Act, Serve, Fault

-----------------------------------------------------------------------------
\* Keys and their owners.

\* What a step of r does to key k: nothing that gives it an owner, taking it
\* while it is absent, or committing r's transaction.
KeyQuiet(r, k) ==
  /\ placed'[k] = placed[k]
  /\ KeyOf[r] = k /\ Owns(r)' => Owns(r)
  /\ \/ key'[k] = key[k]
     \/ key'[k] = Processing
     \/ key'[k] = Completed(r) /\ KeyOf[r] = k

KeyTaken(r, k) ==
  /\ placed'[k] = placed[k] /\ KeyOf[r] = k
  /\ key[k].status = "absent" /\ key'[k] = Processing

KeyCommitted(r, k) ==
  /\ key'[k] = key[k] /\ ~Owns(r)'
  /\ placed'[k] = IF KeyOf[r] = k /\ tx[r].order # None
                    THEN placed[k] \cup {r} ELSE placed[k]

\* Every step of a request does one of these three to every key.
LEMMA KeyWays ==
  ASSUME IndInv, NEW r \in Requests, Act(r), NEW k \in Keys
  PROVE  KeyQuiet(r, k) \/ KeyTaken(r, k) \/ KeyCommitted(r, k)
  <1>1. /\ key \in [Keys -> KeyValue] /\ placed \in [Keys -> SUBSET Requests]
        /\ tx \in [Requests -> OwnRows] /\ pc \in [Requests -> PC]
        /\ ControlAt(r) /\ KeyOf[r] \in Keys \cup {None} /\ None \notin Keys
    BY KeyAssumption, NoneAssumption DEF IndInv, RequestInv, TypeOK
  <1>2. ASSUME NEW a, RaiseOut(r, a) PROVE ~Owns(r)'
    BY <1>1, <1>2 DEF RaiseOut, Goto, Abort, Owns, NoRows
  <1>3. CASE \/ CheckError(r) \/ GetInProgress(r) \/ GetError(r) \/ Rollback(r)
             \/ DbError(r) \/ CompensationError(r) \/ CancelError(r) \/ DeadlockAbort(r)
    <2>1. ~Owns(r)'
      BY <1>2, <1>3 DEF CheckError, GetInProgress, GetError, Rollback, DbError,
         CompensationError, CancelError, DeadlockAbort
    <2>2. placed' = placed /\ (key'[k] = key[k] \/ key'[k] = Processing)
      BY <1>1, <1>3 DEF CheckError, GetInProgress, GetError, Rollback, DbError,
         CompensationError, CancelError, DeadlockAbort, history
    <2> QED
      BY <2>1, <2>2 DEF KeyQuiet
  <1>4. CASE CheckAndStore(r)
    BY <1>1, <1>4 DEF CheckAndStore, Goto, KeyQuiet, KeyTaken, Owns, history
  <1>5. CASE StartUnkeyed(r)
    BY <1>1, <1>5 DEF StartUnkeyed, KeyQuiet, history
  <1>6. CASE GetCompleted(r)
    BY <1>1, <1>6 DEF GetCompleted, Goto, KeyQuiet, Owns, history
  <1>7. CASE FetchCached(r)
    <2>1. key' = key /\ placed' = placed
      BY <1>7 DEF FetchCached, history
    <2>2. Owns(r)' => Owns(r)
      <3>1. CASE saved[result[r]].order # None
        BY <1>1, <1>7, <3>1 DEF FetchCached, Return, Goto, Owns
      <3>2. CASE saved[result[r]].order = None
        BY <1>2, <1>7, <3>2 DEF FetchCached
      <3> QED
        BY <3>1, <3>2
    <2> QED
      BY <2>1, <2>2 DEF KeyQuiet
  <1>8. ASSUME pc[r] \in {"create", "read", "update", "reread", "reupdate", "mark",
                          "pay", "confirm", "publish", "store", "fail",
                          "refund", "release", "putback", "cancel"}
        PROVE  Owns(r)
    BY <1>1, <1>8 DEF ControlAt, Owns
  <1>9. CASE \/ CreateOrder(r) \/ ReadStock(r) \/ UpdateStock(r) \/ RereadStock(r)
             \/ ReupdateStock(r) \/ MarkStockReserved(r) \/ PayOrder(r) \/ ConfirmOrder(r)
             \/ PublishEvents(r)
    <2>1. Owns(r)
      BY <1>8, <1>9 DEF CreateOrder, ReadStock, UpdateStock, RereadStock,
         ReupdateStock, MarkStockReserved, PayOrder, ConfirmOrder, PublishEvents
    <2>2. key' = key /\ placed' = placed
      BY <1>9 DEF CreateOrder, ReadStock, UpdateStock, RereadStock, ReupdateStock,
         TryUpdate, MarkStockReserved, PayOrder, ConfirmOrder, CompleteStep,
         PublishEvents, history
    <2> QED
      BY <2>1, <2>2 DEF KeyQuiet
  <1>10. CASE StoreResult(r) \/ StoreError(r)
    <2>1. Owns(r)
      BY <1>8, <1>10 DEF StoreResult, StoreError
    <2>2. placed' = placed
      BY <1>10 DEF StoreResult, StoreError, history
    <2>3. key'[k] = key[k] \/ (key'[k] = Completed(r) /\ KeyOf[r] = k)
      BY <1>1, <1>10 DEF StoreResult, StoreError
    <2> QED
      BY <2>1, <2>2, <2>3 DEF KeyQuiet
  <1>11. CASE \/ LogFailure(r) \/ RefundPayment(r) \/ ReleaseStock(r)
              \/ UpdateReleased(r) \/ CancelOrder(r)
    <2>1. Owns(r)
      BY <1>8, <1>11 DEF LogFailure, RefundPayment, ReleaseStock,
         UpdateReleased, CancelOrder
    <2>2. key' = key /\ placed' = placed
      BY <1>11 DEF LogFailure, RefundPayment, ReleaseStock, UpdateReleased,
         CancelOrder, history
    <2> QED
      BY <2>1, <2>2 DEF KeyQuiet
  <1>12. CASE Respond(r)
    BY <1>1, <1>12, SwitchAssumption DEF Respond, Goto, KeyQuiet, Owns, history
  <1>13. CASE Commit(r) \/ CommitError(r)
    <2>1. key' = key
      BY <1>13 DEF Commit, CommitError
    <2>2. ~Owns(r)'
      <3>1. tx'[r] = NoRows
        BY <1>1, <1>13 DEF Commit, CommitError, CommitRows, RaiseOut, Abort
      <3>2. pc'[r] # "create"
        BY <1>1, <1>13 DEF Commit, CommitError, RaiseOut, Goto
      <3> QED
        BY <3>1, <3>2 DEF Owns, NoRows
    <2>3. placed' = placed \/ CommitRows(r)
      BY <1>13 DEF Commit, CommitError, history
    <2> QED
      BY <1>1, <2>1, <2>2, <2>3 DEF KeyQuiet, KeyCommitted, CommitRows
  <1> QED
    BY <1>3, <1>4, <1>5, <1>6, <1>7, <1>9, <1>10, <1>11, <1>12, <1>13
       DEF Act, Arrive, Serve, Fault

\* A key keeps having one owner, whatever requests that do not outlive it do.
LEMMA KeyStep ==
  ASSUME IndInv, OutcomeInv, NEW r \in Requests, Act(r), NEW k \in Keys
  PROVE  OwnerAt(k)'
  <1>1. overdue' = overdue /\ \A s \in Requests \ {r} : Owns(s)' <=> Owns(s)
    BY OthersUntouched, SavedWays DEF Untouched, Owns, IndInv
  <1>2. OwnerAt(k) /\ Processing.status = "processing" /\ Completed(r).status = "completed"
        /\ Completed(r).order = r
    BY DEF OutcomeInv, Processing, Completed
  <1>3. CASE KeyQuiet(r, k)
    <2>1. \A s \in Requests : KeyOf[s] = k /\ Owns(s)' => Owns(s)
      BY <1>1, <1>3 DEF KeyQuiet
    <2>2. placed'[k] = placed[k] /\ (key'[k].status = "absent" => key[k].status = "absent")
      BY <1>2, <1>3 DEF KeyQuiet
    <2>3. key'[k].status = "completed" =>
            key'[k].order \in Requests /\ KeyOf[key'[k].order] = k
      BY <1>2, <1>3 DEF KeyQuiet, OwnerAt
    <2> QED
      BY <1>1, <1>2, <2>1, <2>2, <2>3 DEF OwnerAt
  <1>4. CASE KeyTaken(r, k)
    <2>1. \A s \in Requests \ overdue : KeyOf[s] = k => ~Owns(s)
      BY <1>2, <1>4 DEF KeyTaken, OwnerAt
    <2>2. placed'[k] \subseteq overdue /\ key'[k].status = "processing"
      BY <1>2, <1>4 DEF KeyTaken, OwnerAt
    <2>3. \A s \in Requests \ overdue : KeyOf[s] = k /\ Owns(s)' => s = r
      BY <1>1, <2>1
    <2> QED
      BY <1>1, <2>2, <2>3 DEF OwnerAt
  <1>5. CASE KeyCommitted(r, k)
    <2>1. \A s \in Requests : Owns(s)' => s # r /\ Owns(s)
      BY <1>1, <1>5 DEF KeyCommitted
    <2>2. CASE KeyOf[r] = k /\ tx[r].order # None /\ r \notin overdue
      <3>1. /\ placed'[k] = placed[k] \cup {r} /\ placed[k] \subseteq overdue
            /\ key[k].status # "absent" /\ key'[k] = key[k]
        BY <1>2, <1>5, <2>2 DEF KeyCommitted, OwnerAt, Owns
      <3>2. \A s \in Requests \ overdue : KeyOf[s] = k => ~Owns(s)'
        BY <1>2, <2>1, <2>2 DEF OwnerAt, Owns
      <3> QED
        BY <1>1, <1>2, <3>1, <3>2 DEF OwnerAt
    <2>3. CASE ~(KeyOf[r] = k /\ tx[r].order # None /\ r \notin overdue)
      <3>1. placed'[k] \ overdue = placed[k] \ overdue /\ key'[k] = key[k]
        BY <1>5, <2>3 DEF KeyCommitted
      <3>2. placed'[k] \subseteq overdue <=> placed[k] \subseteq overdue
        BY <3>1
      <3> QED
        BY <1>1, <1>2, <2>1, <3>1, <3>2 DEF OwnerAt
    <2> QED
      BY <2>2, <2>3
  <1> QED
    BY <1>3, <1>4, <1>5, KeyWays

-----------------------------------------------------------------------------
\* How many units there are does not change.

\* Every write of a stock row keeps the units the row has.
LEMMA UnitsStay ==
  ASSUME IndInv, OutcomeInv, NEW r \in Requests, Act(r), NEW p \in Stocked
  PROVE  AvailableAt(p)'
  <1>1. /\ row[p].available = InitialStock[p].available
        /\ dirty[p].available = InitialStock[p].available
        /\ row \in [Stocked -> StockItem] /\ dirty \in [Stocked -> StockItem]
        /\ lock \in [Stocked -> Requests \cup {None}]
    BY DEF OutcomeInv, AvailableAt, IndInv, TypeOK
  <1>2. CASE Quiet \/ Abort(r) \/ CommitRows(r)
    BY <1>1, <1>2 DEF Quiet, Abort, CommitRows, AvailableAt
  <1>3. ASSUME NEW q \in Stocked, NEW item \in StockItem, WriteStock(r, q, item),
               item.available = Visible(r, q).available, row' = row
        PROVE  AvailableAt(p)'
    <2>1. CASE p = q
      <3>1. dirty'[p] = [item EXCEPT !.version = @ + 1]
        BY <1>1, <1>3, <2>1 DEF WriteStock
      <3>2. dirty'[p].available = item.available
        BY <3>1 DEF StockItem
      <3>3. Visible(r, p).available = InitialStock[p].available
        BY <1>1 DEF Visible
      <3> QED
        BY <1>1, <1>3, <2>1, <3>2, <3>3 DEF AvailableAt
    <2>2. CASE p # q
      BY <1>1, <1>3, <2>2 DEF WriteStock, AvailableAt
    <2> QED
      BY <2>1, <2>2
  <1>4. CASE UpdateStock(r) \/ ReupdateStock(r)
    <2>1. /\ Item(r).product \in Stocked /\ stock[r] \in StockItem /\ SnapshotAt(r)
          /\ pc[r] \in {"update", "reupdate"} /\ row' = row
      BY <1>4 DEF IndInv, TypeOK, RequestInv, ControlAt, UpdateStock,
         ReupdateStock, TryUpdate
    <2>2. CASE VersionMatches(r)
      <3>1. WriteStock(r, Item(r).product, stock[r])
        BY <1>4, <2>2 DEF UpdateStock, ReupdateStock, TryUpdate
      <3>2. stock[r] = Reserve(Visible(r, Item(r).product), Item(r).qty)
        BY <2>1, <2>2 DEF SnapshotAt, VersionMatches
      <3>3. stock[r].available = Visible(r, Item(r).product).available
        <4>1. Visible(r, Item(r).product) \in StockItem
          BY <2>1, VisibleType DEF IndInv
        <4> QED
          BY <3>2, <4>1 DEF Reserve, StockItem
      <3> QED
        BY <1>3, <2>1, <3>1, <3>3
    <2>3. CASE ~VersionMatches(r)
      BY <1>2, <1>4, <2>3 DEF UpdateStock, ReupdateStock, TryUpdate, Quiet
    <2> QED
      BY <2>2, <2>3
  <1>5. CASE UpdateReleased(r)
    <2> DEFINE q == Item(r).product
               n == Item(r).qty
    <2>1. /\ q \in Stocked /\ idx[r] \in Nat \ {0} /\ idx[r] <= Len(Items[r])
          /\ stock[r] \in StockItem /\ stock[r] = Release(Visible(r, q), n)
      BY <1>5 DEF IndInv, TypeOK, RequestInv, ControlAt, SnapshotAt, UpdateReleased
    <2>2. Visible(r, q) \in StockItem
      BY <2>1, VisibleType DEF IndInv
    <2>3. stock[r].available = Visible(r, q).available
      BY <2>1, <2>2 DEF Release, StockItem
    <2>4. WriteStock(r, q, stock[r]) /\ row' = row
      BY <1>5, ReleaseIsGood
    <2> HIDE DEF q
    <2> QED
      BY <1>3, <2>1, <2>3, <2>4
  <1> QED
    BY <1>2, <1>4, <1>5, FourWays

-----------------------------------------------------------------------------
\* The invariant is inductive.

\* At the start nothing is written, told or owned.
LEMMA InitOutcome == Init => OutcomeInv
  <1> SUFFICES ASSUME Init PROVE OutcomeInv
    OBVIOUS
  <1>1. ASSUME NEW r \in Requests PROVE HistoryAt(r) /\ SavedAt(r) /\ ToldAt(r)
    BY DEF Init, HistoryAt, SavedAt, ToldAt, Ending
  <1>2. ASSUME NEW k \in Keys PROVE OwnerAt(k)
    BY DEF Init, OwnerAt, Owns, NoRows, Absent
  <1>3. ASSUME NEW p \in Stocked PROVE AvailableAt(p)
    BY DEF Init, AvailableAt
  <1> QED
    BY <1>1, <1>2, <1>3 DEF OutcomeInv

\* A crash ends what is in flight; whoever was in a session has none.
LEMMA CrashOutcome ==
  ASSUME IndInv, OutcomeInv, ApiCrash
  PROVE  OutcomeInv'
  <1>1. /\ UNCHANGED <<row, saved, key, result, placed, overdue, order>> /\ dirty' = row
        /\ \A r \in Requests :
             /\ tx'[r] = NoRows
             /\ pc'[r] = "check" => pc[r] = "check"
             /\ pc'[r] \in {"check", "done"}
             /\ pc[r] = "done" => pc'[r] = "done"
             /\ reply'[r] # "lost" => reply'[r] = reply[r]
    BY DEF ApiCrash, Active, locals, history
  <1>2. ASSUME NEW r \in Requests PROVE HistoryAt(r)' /\ SavedAt(r)' /\ ToldAt(r)'
    <2>1. HistoryAt(r) /\ SavedAt(r) /\ ToldAt(r)
      BY DEF OutcomeInv
    <2>2. HistoryAt(r)'
      BY <1>1, <2>1 DEF HistoryAt
    <2>3. SavedAt(r)'
      BY <1>1, <2>1 DEF SavedAt, Ending
    <2>4. Tellable(r)' <=> Tellable(r)
      BY <1>1 DEF Tellable
    <2>5. ToldAt(r)'
      BY <1>1, <2>1, <2>4 DEF ToldAt, Ending
    <2> QED
      BY <2>2, <2>3, <2>5
  <1>3. ASSUME NEW k \in Keys PROVE OwnerAt(k)'
    <2>1. \A r \in Requests : ~Owns(r)'
      BY <1>1 DEF Owns, NoRows
    <2>2. OwnerAt(k)
      BY DEF OutcomeInv
    <2> QED
      BY <1>1, <2>1, <2>2 DEF OwnerAt
  <1>4. ASSUME NEW p \in Stocked PROVE AvailableAt(p)'
    BY <1>1 DEF OutcomeInv, AvailableAt
  <1> QED
    BY <1>2, <1>3, <1>4 DEF OutcomeInv

\* Whoever owns a key when it is forgotten is overdue from then on.
LEMMA ExpiryOutcome ==
  ASSUME IndInv, OutcomeInv, NEW k \in Keys, ExpireKey(k)
  PROVE  OutcomeInv'
  <1>1. /\ UNCHANGED <<pc, locals, tx, database, client>>
        /\ key' = [key EXCEPT ![k] = Absent] /\ placed' = [placed EXCEPT ![k] = {}]
        /\ overdue' = overdue \cup {r \in Requests : KeyOf[r] = k /\ Owns(r)}
    BY DEF ExpireKey
  <1>2. /\ \A r \in Requests \ overdue' : r \notin overdue /\ (KeyOf[r] = k => ~Owns(r))
        /\ overdue \subseteq overdue'
    BY <1>1
  <1>3. ASSUME NEW r \in Requests PROVE HistoryAt(r)' /\ SavedAt(r)' /\ ToldAt(r)'
    <2>1. HistoryAt(r) /\ SavedAt(r) /\ ToldAt(r)
      BY DEF OutcomeInv
    <2> QED
      BY <1>1, <2>1 DEF HistoryAt, Written, SavedAt, Ending, Whole, ToldAt,
         Tellable, locals, database, client
  <1>4. ASSUME NEW j \in Keys PROVE OwnerAt(j)'
    <2>1. \A r \in Requests : Owns(r)' <=> Owns(r)
      BY <1>1 DEF Owns
    <2>2. CASE j = k
      <3>1. key'[j].status = "absent" /\ placed'[j] = {}
        BY <1>1, <2>2 DEF Absent, IndInv, TypeOK
      <3> QED
        BY <1>2, <2>1, <2>2, <3>1 DEF OwnerAt
    <2>3. CASE j # k
      <3>1. key'[j] = key[j] /\ placed'[j] = placed[j] /\ OwnerAt(j)
        BY <1>1, <2>3 DEF OutcomeInv, IndInv, TypeOK
      <3>2. \A r \in placed[j] \ overdue' : r \notin overdue
        BY <1>2
      <3> QED
        BY <1>2, <2>1, <3>1, <3>2 DEF OwnerAt
    <2> QED
      BY <2>2, <2>3
  <1>5. ASSUME NEW p \in Stocked PROVE AvailableAt(p)'
    BY <1>1 DEF OutcomeInv, AvailableAt, database
  <1> QED
    BY <1>3, <1>4, <1>5 DEF OutcomeInv

\* Every step keeps the invariant, given IndInv.
LEMMA NextOutcome == IndInv /\ OutcomeInv /\ [Next]_vars => OutcomeInv'
  <1> SUFFICES ASSUME IndInv, OutcomeInv, [Next]_vars PROVE OutcomeInv'
    OBVIOUS
  <1>1. ASSUME NEW r \in Requests, Act(r) PROVE OutcomeInv'
    <2>1. ASSUME NEW s \in Requests PROVE OutcomeAt(s)'
      <3>1. CASE s = r
        BY <1>1, <3>1, SelfOutcome
      <3>2. CASE s # r
        BY <1>1, <3>2, OthersOutcome DEF IndInv
      <3> QED
        BY <3>1, <3>2
    <2>2. \A k \in Keys : OwnerAt(k)'
      BY <1>1, KeyStep
    <2>3. \A p \in Stocked : AvailableAt(p)'
      BY <1>1, UnitsStay
    <2> QED
      BY <2>1, <2>2, <2>3 DEF OutcomeInv, OutcomeAt
  <1>2. CASE ApiCrash
    BY <1>2, CrashOutcome
  <1>3. ASSUME NEW k \in Keys, ExpireKey(k) PROVE OutcomeInv'
    BY <1>3, ExpiryOutcome
  <1>4. CASE UNCHANGED vars
    <2>1. ASSUME NEW r \in Requests PROVE HistoryAt(r)' /\ SavedAt(r)' /\ ToldAt(r)'
      <3>1. HistoryAt(r) /\ SavedAt(r) /\ ToldAt(r)
        BY DEF OutcomeInv
      <3> QED
        BY <1>4, <3>1 DEF vars, locals, database, client, HistoryAt, Written,
           SavedAt, Ending, Whole, ToldAt, Tellable
    <2>2. ASSUME NEW k \in Keys PROVE OwnerAt(k)'
      BY <1>4 DEF vars, history, OutcomeInv, OwnerAt, Owns
    <2>3. ASSUME NEW p \in Stocked PROVE AvailableAt(p)'
      BY <1>4 DEF vars, database, OutcomeInv, AvailableAt
    <2> QED
      BY <2>1, <2>2, <2>3 DEF OutcomeInv
  <1> QED
    BY <1>1, <1>2, <1>3, <1>4 DEF Next, Terminating, Act

\* What sagas write, commit, tell and own fits together in every reachable
\* state, whatever the requests, the faults and the crashes.
THEOREM OutcomeInvariant == Spec => []OutcomeInv
  <1> QED
    BY InitOutcome, NextOutcome, IndInvariant, PTL DEF Spec

\* Within the lifetime of an idempotency key at most one order is committed by
\* requests that do not outlive it, for any number of duplicates, retries and
\* crashes, and whatever a request does whose key expired while it was at work
\* (check_and_store, store_result).
THEOREM KeyPlacesOnce == Spec => []OneOrderPerKey
  <1>1. OutcomeInv => OneOrderPerKey
    BY DEF OutcomeInv, OwnerAt, OneOrderPerKey
  <1> QED
    BY <1>1, OutcomeInvariant, PTL

\* An order is committed confirmed and with the four kinds of event of a whole
\* saga, none of a compensation among them, and where no order is committed no
\* event and no entry of the saga log is (get_db_session, append, log_step).
THEOREM OutboxIsTransactional == Spec => []OutboxMatchesOrder
  <1>1. OutcomeInv => OutboxMatchesOrder
    <2> SUFFICES ASSUME OutcomeInv, NEW r \in Requests
                 PROVE  IF saved[r].order = None
                          THEN saved[r] = NoRows
                          ELSE /\ saved[r].order.status = "CONFIRMED"
                               /\ {saved[r].outbox[i] : i \in DOMAIN saved[r].outbox} =
                                    {"OrderCreated", "StockReserved",
                                     "PaymentProcessed", "OrderConfirmed"}
      BY DEF OutboxMatchesOrder
    <2>1. \/ saved[r] = NoRows
          \/ /\ saved[r].order # None /\ saved[r].order.status = "CONFIRMED"
             /\ Types(saved[r].outbox) = AllEvents
      BY DEF OutcomeInv, SavedAt
    <2>2. NoRows.order = None
      BY DEF NoRows
    <2> QED
      BY <2>1, <2>2 DEF Types, AllEvents
  <1> QED
    BY <1>1, OutcomeInvariant, PTL

\* A client that was answered 400 has left nothing behind, wherever its saga
\* failed and whatever the compensation did (_compensate, get_db_session).
THEOREM RejectionIsClean == Spec => []RejectedLeavesNothing
  <1>1. IndInv /\ OutcomeInv => RejectedLeavesNothing
    <2> SUFFICES ASSUME IndInv, OutcomeInv, NEW r \in Requests,
                        reply[r] \in {"rejected", "critical"}
                 PROVE  saved[r] = NoRows /\ \A p \in Stocked : lock[p] # r
      BY DEF RejectedLeavesNothing
    <2>1. pc[r] = "done" /\ saved[r] = NoRows
      BY DEF OutcomeInv, SavedAt
    <2>2. tx[r].order = None
      BY <2>1 DEF IndInv, RequestInv, ControlAt
    <2>3. \A p \in Stocked : lock[p] # r
      BY <2>2, NoneAssumption DEF IndInv, LockAt
    <2> QED
      BY <2>1, <2>3
  <1> QED
    BY <1>1, IndInvariant, OutcomeInvariant, PTL

\* Where the reply follows the commit (FastAPI up to 0.117), a client that was
\* answered 202 finds the order it was told of committed, confirmed and under
\* its key (get_db_session, get_result).
THEOREM AcceptanceIsDurable == RespondFirst = FALSE => (Spec => []AcceptedIsDurable)
  <1> SUFFICES ASSUME RespondFirst = FALSE PROVE Spec => []AcceptedIsDurable
    OBVIOUS
  <1>1. OutcomeInv => AcceptedIsDurable
    <2> SUFFICES ASSUME OutcomeInv, NEW r \in Requests, reply[r] = "accepted"
                 PROVE  /\ saved[result[r]].order # None
                        /\ saved[result[r]].order.status = "CONFIRMED"
                        /\ KeyOf[result[r]] = KeyOf[r]
      BY DEF AcceptedIsDurable
    <2>1. Tellable(r)
      BY DEF OutcomeInv, ToldAt
    <2>2. saved[result[r]].order.status = "CONFIRMED"
      BY <2>1 DEF OutcomeInv, SavedAt, Tellable, NoRows
    <2> QED
      BY <2>1, <2>2 DEF Tellable
  <1> QED
    BY <1>1, OutcomeInvariant, PTL
=============================================================================
