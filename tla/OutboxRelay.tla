----------------------------- MODULE OutboxRelay -----------------------------
(***************************************************************************)
(* The Celery task process_outbox (src/src/workers) over outbox_events:    *)
(* beat starts a run every ten seconds whether or not the last one has     *)
(* ended, so runs overlap.  A run reads the oldest pending events, then    *)
(* publishes and marks them one by one in one READ COMMITTED transaction,  *)
(* which it commits at the end.                                            *)
(*                                                                         *)
(* An event is the rank of its created_at, which the API sets before it    *)
(* commits: events become visible order by order, not by rank.  Which      *)
(* ranks an order's rows get depends on how the sagas interleave, and is   *)
(* open here; OrderSystem plays it out.                                    *)
(***************************************************************************)
EXTENDS FiniteSetsExt, Integers

CONSTANTS
  Orders,       \* orders whose saga will commit
  Events,       \* their outbox rows, by rank of created_at
  RowSets,      \* the sets of ranks that the rows of one order may get
  Runs,         \* worker processes, each running one task at a time
  BatchSize,    \* how many events one run takes, 50 in the code
  MaxFailures,  \* bound: exceptions caught while publishing or marking
  MaxErrors     \* bound: runs that die (killed, time limit, database error)

ASSUME EventAssumption ==
  /\ Events \subseteq Nat
  /\ \A new \in RowSets : new \subseteq Events /\ \E n \in Events : new \subseteq 0 .. n
ASSUME BatchAssumption == BatchSize \in Nat \ {0}
ASSUME RelayBounds == MaxFailures \in Nat /\ MaxErrors \in Nat

VARIABLES
  owner,        \* owner[e]: aggregate_id of the committed row e
  sent,         \* rows whose column sent is true
  failed,       \* rows whose column failed is true
  pc,           \* next step of each run
  todo,         \* the part of the run's batch still to be handled
  markedSent,   \* rows the run has updated, not yet committed
  markedFailed,
  published,    \* history: events handed to the outside
  failures, errors

rows == <<owner, sent, failed>>
vars == <<rows, pc, todo, markedSent, markedFailed, published, failures, errors>>

\* The committed rows.
stored == DOMAIN owner

TypeOK ==
  /\ stored \subseteq Events /\ owner \in [stored -> Orders]
  /\ sent \subseteq stored /\ failed \subseteq stored
  /\ pc \in [Runs -> {"idle", "publish", "mark", "fail"}]
  /\ todo \in [Runs -> SUBSET stored]
  /\ markedSent \in [Runs -> SUBSET stored]
  /\ markedFailed \in [Runs -> SUBSET stored]
  /\ published \subseteq stored
  /\ failures \in 0 .. MaxFailures /\ errors \in 0 .. MaxErrors

Init ==
  /\ owner = <<>> /\ sent = {} /\ failed = {}
  /\ pc = [w \in Runs |-> "idle"]
  /\ todo = [w \in Runs |-> {}]
  /\ markedSent = [w \in Runs |-> {}]
  /\ markedFailed = [w \in Runs |-> {}]
  /\ published = {}
  /\ failures = 0 /\ errors = 0

-----------------------------------------------------------------------------
Goto(w, label) == pc' = [pc EXCEPT ![w] = label]

\* Committed rows are all another run can see.
Pending == stored \ (sent \cup failed)

\* Mutant: ORDER BY created_at DESC.
Newest(S, n) == {e \in S : Cardinality({d \in S : d > e}) < n}

Oldest(S, n) == {e \in S : Cardinality({d \in S : d < e}) < n}

\* Mutant: without ORDER BY, each run may get the rows in an order of its own.
MessageInAnyOrder(w) ==
  LET backwards == w = CHOOSE v \in Runs : TRUE
  IN CHOOSE e \in todo[w] : \A d \in todo[w] : IF backwards THEN e >= d ELSE e <= d

\* The batch is worked through in the order of created_at.
Message(w) == CHOOSE e \in todo[w] : \A d \in todo[w] : e <= d

Marked(w) == markedSent[w] \cup markedFailed[w]

\* An UPDATE waits while another open transaction has updated the row.
CanMark(w) == \A v \in Runs \ {w} : Message(w) \notin Marked(v)

-----------------------------------------------------------------------------
\* The order of the new rows is not among those committed before.
IsNew(o, new) == new \cap stored = {} /\ \A e \in stored : owner[e] # o

\* Mutant: the saga publishes on its own, before it commits.
PublishDirectly(o, new) ==
  /\ IsNew(o, new)
  /\ published' = published \cup new
  /\ UNCHANGED <<rows, pc, todo, markedSent, markedFailed, failures, errors>>

\* A saga commits: all events of its order become visible at once.
PlaceOrder(o, new) ==
  /\ IsNew(o, new)
  /\ owner' = [e \in stored \cup new |-> IF e \in new THEN o ELSE owner[e]]
  /\ UNCHANGED <<sent, failed, pc, todo, markedSent, markedFailed, published,
                 failures, errors>>

\* Beat's task reaches a free worker, which reads its batch.
Start(w) ==
  /\ pc[w] = "idle"
  /\ todo' = [todo EXCEPT ![w] = Oldest(Pending, BatchSize)]
  /\ Goto(w, "publish")
  /\ UNCHANGED <<rows, markedSent, markedFailed, published, failures, errors>>

Publish(w) ==
  /\ pc[w] = "publish" /\ todo[w] # {}
  /\ published' = published \cup {Message(w)}
  /\ Goto(w, "mark")
  /\ UNCHANGED <<rows, todo, markedSent, markedFailed, failures, errors>>

\* Mutant: one UPDATE marks the whole batch once its first event is out.
MarkBatchSent(w) ==
  /\ pc[w] = "mark" /\ CanMark(w)
  /\ markedSent' = [markedSent EXCEPT ![w] = @ \cup todo[w]]
  /\ todo' = [todo EXCEPT ![w] = {}]
  /\ Goto(w, "publish")
  /\ UNCHANGED <<rows, markedFailed, published, failures, errors>>

MarkSent(w) ==
  /\ pc[w] = "mark" /\ CanMark(w)
  /\ markedSent' = [markedSent EXCEPT ![w] = @ \cup {Message(w)}]
  /\ todo' = [todo EXCEPT ![w] = @ \ {Message(w)}]
  /\ Goto(w, "publish")
  /\ UNCHANGED <<rows, markedFailed, published, failures, errors>>

\* An exception before or after the event went out that leaves the
\* transaction usable: the publisher's own, or SoftTimeLimitExceeded.
PublishFails(w) ==
  /\ failures < MaxFailures
  /\ pc[w] \in {"publish", "mark"} /\ todo[w] # {}
  /\ failures' = failures + 1
  /\ Goto(w, "fail")
  /\ UNCHANGED <<rows, todo, markedSent, markedFailed, published, errors>>

\* Mutant: the handler marks the event like the others.
MarkFailedAsSent(w) ==
  /\ pc[w] = "fail" /\ CanMark(w)
  /\ markedSent' = [markedSent EXCEPT ![w] = @ \cup {Message(w)}]
  /\ todo' = [todo EXCEPT ![w] = @ \ {Message(w)}]
  /\ Goto(w, "publish")
  /\ UNCHANGED <<rows, markedFailed, published, failures, errors>>

\* Mutant: the event stays in the batch, to be tried again at once.
MarkFailedAndRetry(w) ==
  /\ pc[w] = "fail" /\ CanMark(w)
  /\ markedFailed' = [markedFailed EXCEPT ![w] = @ \cup {Message(w)}]
  /\ Goto(w, "publish")
  /\ UNCHANGED <<rows, todo, markedSent, published, failures, errors>>

MarkFailed(w) ==
  /\ pc[w] = "fail" /\ CanMark(w)
  /\ markedFailed' = [markedFailed EXCEPT ![w] = @ \cup {Message(w)}]
  /\ todo' = [todo EXCEPT ![w] = @ \ {Message(w)}]
  /\ Goto(w, "publish")
  /\ UNCHANGED <<rows, markedSent, published, failures, errors>>

\* The transaction of w is over.
Close(w) ==
  /\ markedSent' = [markedSent EXCEPT ![w] = {}]
  /\ markedFailed' = [markedFailed EXCEPT ![w] = {}]
  /\ todo' = [todo EXCEPT ![w] = {}]
  /\ Goto(w, "idle")

\* Mutant: the session is closed without a commit.
CloseUncommitted(w) ==
  /\ pc[w] = "publish" /\ todo[w] = {}
  /\ Close(w)
  /\ UNCHANGED <<rows, published, failures, errors>>

Commit(w) ==
  /\ pc[w] = "publish" /\ todo[w] = {}
  /\ sent' = sent \cup markedSent[w]
  /\ failed' = failed \cup markedFailed[w]
  /\ Close(w)
  /\ UNCHANGED <<owner, published, failures, errors>>

\* A run ends without its commit: killed at the hard time limit or with its
\* process, or a statement failed and mark_failed after it.
RunDies(w) ==
  /\ errors < MaxErrors
  /\ pc[w] # "idle"
  /\ errors' = errors + 1
  /\ Close(w)
  /\ UNCHANGED <<rows, published, failures>>

-----------------------------------------------------------------------------
Work(w) == Publish(w) \/ MarkSent(w) \/ MarkFailed(w) \/ Commit(w)
Fail(w) == PublishFails(w) \/ RunDies(w)

Next ==
  \/ \E o \in Orders, new \in RowSets : PlaceOrder(o, new)
  \/ \E w \in Runs : Start(w) \/ Work(w) \/ Fail(w)

Spec == Init /\ [][Next]_vars

\* Beat keeps sending the task, some free worker takes it, and a run's
\* statements are answered.  New orders, failures and deaths are never owed.
FairSpec ==
  /\ Spec
  /\ WF_vars(\E w \in Runs : Start(w))
  /\ \A w \in Runs : WF_vars(Work(w))

-----------------------------------------------------------------------------
\* Properties.

\* An event recorded as sent has been published, across overlapping runs,
\* failures and deaths between publishing and committing
\* (_async_process_outbox, mark_sent).
SentWasPublished == sent \subseteq published

\* An order's events go out for the first time in the order they were
\* created, except those that an exception set aside, whatever runs overlap,
\* die and repeat them (get_pending's ORDER BY and LIMIT).
OrderedPublication ==
  [][\A e \in published' \ published, d \in stored :
       owner[d] = owner[e] /\ d < e =>
         d \in published \cup failed \cup UNION {markedFailed[w] : w \in Runs}]_vars

\* What is settled of an order, sent or set aside, is always its oldest events:
\* after any death, the next batches go on where the order was left, and no
\* commit leaves a gap behind (get_pending's ORDER BY and LIMIT, the one commit
\* of a run).
SettledFromOldest ==
  \A e \in sent \cup failed, d \in stored :
    owner[d] = owner[e] /\ d < e => d \in sent \cup failed

\* At most so many steps are left to the run of w: three for every event still
\* to be handled, and the commit.
StepsLeft(w) ==
  LET n == Cardinality(todo[w])
  IN CASE pc[w] = "idle" -> 0
       [] pc[w] = "publish" -> 3 * n + 1
       [] pc[w] = "mark" -> 3 * n
       [] pc[w] = "fail" -> 3 * n - 1

\* A run under way only gets shorter, whatever other runs do and however many
\* orders are committed meanwhile, and every step shortens one unless it
\* commits an order or starts a run: an exception does not send the loop back
\* (_async_process_outbox).
RunsGetShorter ==
  [][/\ \A w \in Runs : pc[w] # "idle" => StepsLeft(w)' <= StepsLeft(w)
     /\ \/ \E w \in Runs : StepsLeft(w)' < StepsLeft(w)
        \/ \E w \in Runs : pc[w] = "idle" /\ pc'[w] # "idle"
        \/ owner' # owner]_vars

WaitsFor(w, v) ==
  /\ v # w /\ pc[w] \in {"mark", "fail"}
  /\ Message(w) \in Marked(v)

\* Overlapping runs never wait for each other in a circle, because all of
\* them update rows in the order of created_at (get_pending, mark_sent).
NoLockCycle ==
  \A S \in (SUBSET Runs) \ {{}} : \E w \in S : \A v \in S : ~WaitsFor(w, v)

\* Every committed event is in the end either sent or set aside: no run
\* waits forever, no event is skipped by all batches (beat, BatchSize).
EveryEventSettled ==
  \A e \in Events : e \in stored ~> e \in sent \cup failed

\* Every committed event is published at least once ("100% de confiabilidade
\* na publicação (At-least-once delivery)").
AtLeastOnce ==
  \A e \in Events : e \in stored ~> e \in published

-----------------------------------------------------------------------------
\* A run's marks and the event it is about to mark have been published, and
\* it marks its batch from the oldest event on.
RunInv(w) ==
  /\ markedSent[w] \subseteq published
  /\ pc[w] = "idle" => Marked(w) = {}
  /\ pc[w] = "mark" => todo[w] # {} /\ Message(w) \in published
  /\ pc[w] = "fail" => todo[w] # {}
  /\ \A e \in Marked(w), d \in todo[w] : e < d

\* Of the order of an event still to be handled, the older events are handled
\* first, or have been before: a batch never starts in the middle.
BatchInv(w) ==
  \A e \in todo[w], d \in stored :
    owner[d] = owner[e] /\ d < e =>
      d \in todo[w] \cup published \cup failed \cup markedFailed[w]

\* Of the order of an event that w is to settle, w settles the older ones too,
\* unless they are.
CoverInv(w) ==
  \A e \in todo[w] \cup Marked(w), d \in stored :
    owner[d] = owner[e] /\ d < e => d \in todo[w] \cup Marked(w) \cup sent \cup failed

\* The inductive invariant: what runs in flight owe to what is committed.
RelayInv == TypeOK /\ SentWasPublished /\ \A w \in Runs : RunInv(w)

OrderInv == \A w \in Runs : BatchInv(w)
=============================================================================
