----------------------------- MODULE OrderSystem -----------------------------
(***************************************************************************)
(* The API and the Celery worker together: the sagas of OrderSaga fill     *)
(* outbox_events, the runs of OutboxRelay empty it.  They share that table *)
(* and nothing else.                                                       *)
(*                                                                         *)
(* append flushes each event, and the flush sets its created_at.  The      *)
(* events of concurrent sagas so interleave in time, long before either    *)
(* commits; created_at is the number of events appended before, those of   *)
(* transactions that roll back included, and no two are the same.          *)
(***************************************************************************)
EXTENDS OrderSaga

CONSTANTS Runs, BatchSize, MaxFailures, MaxErrors   \* see OutboxRelay

ASSUME WorkerAssumption ==
  BatchSize \in Nat \ {0} /\ MaxFailures \in Nat /\ MaxErrors \in Nat

VARIABLES
  clock,      \* events appended so far
  stamps,     \* stamps[r][i]: created_at of the i-th row of r's outbox
  owner,      \* owner[e]: aggregate_id of the committed row of time e
  \* the relay's variables, its pc being run and its todo being batch
  sent, failed, run, batch, markedSent, markedFailed, published, failures,
  errors

saga == vars
table == <<clock, stamps, owner>>
relay == <<sent, failed, run, batch, markedSent, markedFailed, published,
           failures, errors>>
allVars == <<saga, table, relay>>

-----------------------------------------------------------------------------
\* The committed rows of r's order in outbox_events, by created_at.
Rows(r) == {stamps[r][i] : i \in DOMAIN saved[r].outbox}

Relay == INSTANCE OutboxRelay WITH
  Orders <- Requests, Events <- Nat,
  RowSets <- {S \in SUBSET Nat : \E n \in Nat : S \subseteq 0 .. n},
  pc <- run, todo <- batch

SystemInit ==
  /\ Init
  /\ clock = 0
  /\ stamps = [r \in Requests |-> <<>>]
  /\ owner = <<>>
  /\ sent = {} /\ failed = {}
  /\ run = [w \in Runs |-> "idle"]
  /\ batch = [w \in Runs |-> {}]
  /\ markedSent = [w \in Runs |-> {}]
  /\ markedFailed = [w \in Runs |-> {}]
  /\ published = {}
  /\ failures = 0 /\ errors = 0

-----------------------------------------------------------------------------
\* The rows r has appended to its open transaction, or has committed.
Length(r) == Len(tx[r].outbox) + Len(saved[r].outbox)

\* Mutant: the database's now() as the default, the start of the transaction.
StampByTransaction ==
  /\ stamps' = [r \in Requests |->
       [i \in 1 .. Length(r)' |->
          IF i <= Len(stamps[r]) THEN stamps[r][i]
          ELSE IF stamps[r] # <<>> THEN stamps[r][1] ELSE clock + 1]]
  /\ owner' = [e \in UNION {Rows(r)' : r \in Requests} |->
                  CHOOSE r \in Requests : e \in Rows(r)']

\* What a request appends is stamped with the next time, what it commits keeps
\* its times, what it rolls back is gone.  A step appends one row at most.
Stamp ==
  /\ stamps' = [r \in Requests |->
       [i \in 1 .. Length(r)' |->
          IF i <= Len(stamps[r]) THEN stamps[r][i]
                                 ELSE clock + i - Len(stamps[r])]]
  /\ owner' = [e \in UNION {Rows(r)' : r \in Requests} |->
                  CHOOSE r \in Requests : e \in Rows(r)']

\* One step of a saga by itself.
Api(r, step) ==
  /\ step
  /\ Stamp
  /\ clock' = IF Length(r)' > Length(r) THEN clock + Length(r)' - Length(r) ELSE clock
  /\ UNCHANGED relay

ServeRequest(r) == Api(r, Serve(r))

\* The process or a key is gone; nothing is appended.
ApiEvent ==
  /\ ApiCrash \/ \E k \in Keys : ExpireKey(k)
  /\ Stamp
  /\ UNCHANGED <<clock, relay>>

\* The worker's steps leave the API alone.
StartRun(w) == UNCHANGED <<saga, table>> /\ Relay!Start(w)
WorkRun(w) == UNCHANGED <<saga, table>> /\ Relay!Work(w)
FailRun(w) == UNCHANGED <<saga, table>> /\ Relay!Fail(w)

SystemNext ==
  \/ \E r \in Requests : Api(r, Arrive(r)) \/ ServeRequest(r) \/ Api(r, Fault(r))
  \/ ApiEvent
  \/ \E w \in Runs : StartRun(w) \/ WorkRun(w) \/ FailRun(w)

SystemSpec == SystemInit /\ [][SystemNext]_allVars

\* The fairness of the parts: arrived requests are served, beat starts runs,
\* and runs that have started go on.
FairSystem ==
  /\ SystemSpec
  /\ \A r \in Requests : WF_vars(Serve(r))
  /\ WF_allVars(\E w \in Runs : StartRun(w))
  /\ \A w \in Runs : WF_allVars(WorkRun(w))

-----------------------------------------------------------------------------
\* Properties.

\* What is published of an order is what its committed, confirmed saga did, in
\* whatever moment the worker looks and however the saga ends: nothing of a
\* saga in flight, failed or compensated gets out (append, get_pending).
OnlyConfirmedPublished ==
  \A e \in published : \E r \in Requests :
    /\ e \in Rows(r)
    /\ saved[r].order.status = "CONFIRMED"
    /\ \A i \in DOMAIN saved[r].outbox :
         saved[r].outbox[i] \in {"OrderCreated", "StockReserved",
                                "PaymentProcessed", "OrderConfirmed"}

\* Consumers see what a saga did in the order in which it did it: a row is not
\* published before the rows its saga appended earlier, but for those that an
\* exception set aside (append's created_at, get_pending's ORDER BY).
SagaOrderKept ==
  [][\A r \in Requests : \A i, j \in DOMAIN saved[r].outbox :
       i < j /\ stamps[r][j] \in published' \ published =>
         stamps[r][i] \in published \cup failed
                            \cup UNION {markedFailed[w] : w \in Runs}]_allVars

\* To the relay the sagas are PlaceOrder: an order's rows appear together, once,
\* at times no other row has.  All that is shown of the relay so holds here.
ImplementsRelay ==
  /\ Relay!Init
  /\ [][\/ \E r \in Requests : Relay!PlaceOrder(r, Rows(r)')
        \/ \E w \in Runs :
             Relay!Start(w) \/ Relay!Work(w) \/ Relay!Fail(w)]_(Relay!vars)

\* The outbox is done with r: its events are out, the confirmation with them,
\* but for those that an exception set aside.
Announced(r) ==
  /\ \E i \in DOMAIN saved[r].outbox : saved[r].outbox[i] = "OrderConfirmed"
  /\ Rows(r) \subseteq published \cup failed

\* In the end every request that arrived is refused, or its client holds a 202 for
\* an order with whose confirmation and other events the worker has dealt
\* (execute, get_db_session, _async_process_outbox).
AcceptedIsAnnounced ==
  <>[](\A r \in Requests :
         \/ pc[r] = "check"
         \/ reply[r] \notin {"none", "accepted"}
         \/ \E o \in Requests : result[r] = o /\ Announced(o))

-----------------------------------------------------------------------------
\* The inductive invariant that the proofs use.

\* A time is given to one row of one order, committed or not, and later rows
\* of an order have later times.
StampsFit ==
  /\ \A r, s \in Requests : \A i \in DOMAIN stamps[r], j \in DOMAIN stamps[s] :
       stamps[r][i] = stamps[s][j] => r = s /\ i = j
  /\ \A r \in Requests : \A i, j \in DOMAIN stamps[r] :
       i < j => stamps[r][i] < stamps[r][j]

\* Every row that is written has its time, and the table holds the rows of the
\* committed orders, which are all that the worker has seen.
TableInv ==
  /\ clock \in Nat
  /\ stamps \in [Requests -> Seq(1 .. clock)]
  /\ \A r \in Requests : Len(stamps[r]) = Length(r)
  /\ StampsFit
  /\ owner = [e \in DOMAIN owner |-> owner[e]]
  /\ DOMAIN owner = UNION {Rows(r) : r \in Requests}
  /\ \A r \in Requests : \A e \in Rows(r) : owner[e] = r
  /\ published \subseteq DOMAIN owner
  /\ batch \in [Runs -> SUBSET DOMAIN owner]
=============================================================================
