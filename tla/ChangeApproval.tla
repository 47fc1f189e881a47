--------------------------- MODULE ChangeApproval ---------------------------
(***************************************************************************)
(* The change-request approval pipeline.  A member submits a batch of      *)
(* folder operations (SubmitChangeService); the pre-storage goroutine      *)
(* copies the newest pending batch of the (user, project) pair to a        *)
(* payload key (handlePendingUpdate); an admin approves the pair, not a    *)
(* request (ApproveChange); the approval coordinator pairs "approved" with *)
(* "pre-stored" (checkAndTransition); the consumer takes the payload,      *)
(* executes it and clears the pending entry (onApproved).                  *)
(*                                                                         *)
(* One action is one access to Redis, to a broker queue or to a Go channel,*)
(* with every failure branch the code has.  A broker queue and the Go      *)
(* channel its listener fills are one FIFO; a crash loses any prefix of it *)
(* (messages are auto-acknowledged on delivery).                           *)
(***************************************************************************)
EXTENDS Naturals, Sequences, SequencesExt

CONSTANTS
  Users, Projects,
  Requests,      \* change requests; each is submitted at most once
  OwnerOf,       \* the user that submits a request
  ProjectOf,     \* the project a request edits
  Conflicts,     \* the pairs <<r, q>> for which CheckConflict reports a conflict
  ChanCap,       \* capacity of pendingUpdatesChan (100 in the code)
  MaxApprovals,  \* bound on the verdicts sent to approval_result_queue
  MaxFaults,     \* bound on the failing Redis, broker or database calls
  MaxCrashes,    \* bound on the restarts of the server process
  Discipline,    \* what the users and admins are assumed to refrain from
  World,         \* the optional behaviours of the environment that occur
  None

Keys == Users \X Projects
Key(r) == <<OwnerOf[r], ProjectOf[r]>>

Habits == {"oneOpenRequest", "serialSubmit", "listedOnly", "oneVerdict"}
Behaviours == {"keyspaceEvents", "ttl", "refusals"}

Pending == {"waiting", "pre_storaged"}
Final   == {"completed", "failed", "refused"}
States  == Pending \cup Final \cup {"approved"}

StatusRecord == [project : Projects, state : States]
Verdict == [key : Keys, approved : BOOLEAN, token : 1..MaxApprovals]
Entry   == [approvalRecv : BOOLEAN, preStorageRecv : BOOLEAN,
            approved : BOOLEAN, token : 0..MaxApprovals]

ASSUME ConstantsAssumption ==
  /\ OwnerOf \in [Requests -> Users]
  /\ ProjectOf \in [Requests -> Projects]
  /\ Conflicts \subseteq Requests \X Requests
  /\ ChanCap \in Nat /\ MaxApprovals \in Nat
  /\ MaxFaults \in Nat /\ MaxCrashes \in Nat
  /\ Discipline \subseteq Habits /\ World \subseteq Behaviours

ASSUME NoneAssumption ==
  /\ None \notin Requests /\ None \notin Keys
  /\ None \notin StatusRecord /\ None \notin Entry

VARIABLES
  \* Redis
  pending,      \* user:{u}:pending_updates, newest request first
  status,       \* the hash userId:{u}: ONE project and state per user
  index,        \* project:{p}:pending_users
  payload,      \* prestorage:payload:{u}:{p}
  \* broker queues
  apQueue,      \* approval_result_queue and approvalChannel
  psQueue,      \* pre_storage_queue and preStorageChannel
  coQueue,      \* consumer_queue and inbox
  \* memory of the server process
  notices,      \* pendingUpdatesChan
  hsetEvents,   \* keyspace events not yet read by listenKeyspaceNotifications
  listener,     \* listenKeyspaceNotifications between its two reads
  preStore,     \* the processPendingUpdates goroutine
  registry,     \* ApprovalCoordinator.stateRegistry
  coordinator,  \* the coordinate goroutine, from Store to Delete
  cleaning,     \* the entry cleanupExpiredStates found expired
  consumer,     \* the runProcessor goroutine
  submitPc,     \* the progress of each submission handler
  \* history
  grants,       \* the verdicts sent, in order; a token is an index into it
  batches,      \* the batches handed to ExecuteApproved, in order
  faults, crashes

redis   == <<pending, status, index, payload>>
queues  == <<apQueue, psQueue, coQueue>>
workers == <<notices, hsetEvents, listener, preStore, registry, coordinator,
             cleaning, consumer, submitPc>>
history == <<grants, batches, crashes>>
vars    == <<redis, queues, workers, history, faults>>

-----------------------------------------------------------------------------
IdleListener    == [pc |-> "idle", key |-> None]
IdlePreStore    == [pc |-> "idle", key |-> None, request |-> None]
IdleCoordinator == [pc |-> "idle", key |-> None, approved |-> FALSE, token |-> 0]
IdleConsumer    == [pc |-> "idle", key |-> None, approved |-> FALSE, token |-> 0,
                    request |-> None, item |-> None]
NewEntry == [approvalRecv |-> FALSE, preStorageRecv |-> FALSE,
             approved |-> FALSE, token |-> 0]

Init ==
  /\ pending = [u \in Users |-> << >>]
  /\ status = [u \in Users |-> None]
  /\ index = [p \in Projects |-> {}]
  /\ payload = [k \in Keys |-> None]
  /\ apQueue = << >> /\ psQueue = << >> /\ coQueue = << >>
  /\ notices = << >> /\ hsetEvents = << >>
  /\ listener = IdleListener
  /\ preStore = IdlePreStore
  /\ registry = [k \in Keys |-> None]
  /\ coordinator = IdleCoordinator
  /\ cleaning = None
  /\ consumer = IdleConsumer
  /\ submitPc = [r \in Requests |-> "new"]
  /\ grants = << >> /\ batches = << >>
  /\ faults = 0 /\ crashes = 0

\* A call to Redis, the broker or the database succeeds, or returns an error.
Succeeds == UNCHANGED faults
Fails    == faults < MaxFaults /\ faults' = faults + 1

\* HSET userId:{u}: overwrites the user's record whatever project it was about.
SetUserProjectStatus(u, p, s) ==
  /\ status' = [status EXCEPT ![u] = [project |-> p, state |-> s]]
  /\ hsetEvents' = IF "keyspaceEvents" \in World THEN Append(hsetEvents, u)
                                                 ELSE hsetEvents
KeepStatus == UNCHANGED <<status, hsetEvents>>

\* A non-blocking send on pendingUpdatesChan: dropped when the channel is full.
Offer(k) == notices' = IF Len(notices) < ChanCap THEN Append(notices, k) ELSE notices

\* The newest pending request of u for p: lists are read from the LPUSH end.
PositionsOf(u, p) == {i \in DOMAIN pending[u] : ProjectOf[pending[u][i]] = p}
NewestFor(u, p) ==
  IF PositionsOf(u, p) = {} THEN None
  ELSE pending[u][CHOOSE i \in PositionsOf(u, p) : \A j \in PositionsOf(u, p) : i <= j]

\* The requests of a project that the index leads to.
IndexedRequests(p) ==
  {r \in Requests : /\ ProjectOf[r] = p
                    /\ OwnerOf[r] \in index[p]
                    /\ r \in ToSet(pending[OwnerOf[r]])}

\* What the admin's page of pending changes shows.
ListedRequests(p) ==
  {r \in IndexedRequests(p) : /\ status[OwnerOf[r]] # None
                              /\ status[OwnerOf[r]].state \in Pending}

-----------------------------------------------------------------------------
(* SubmitChangeService: check, LPUSH and EXPIRE, HSET, SADD, notify.       *)

InProgress == {"checked", "pushed", "stated", "indexed"}
SubmitStates == InProgress \cup {"new", "conflict", "failed", "submitted"}

Open(r) == submitPc[r] \in InProgress \/ ( /\ submitPc[r] = "submitted"
                                          /\ status[OwnerOf[r]] # None
                                          /\ status[OwnerOf[r]].state \notin Final )

\* When a disciplined user, or users that take turns, start a submission.
MaySubmit(r) ==
  /\ "oneOpenRequest" \in Discipline =>
        \A q \in Requests : OwnerOf[q] = OwnerOf[r] => ~Open(q)
  /\ "serialSubmit" \in Discipline => \A q \in Requests : submitPc[q] \notin InProgress

SubmitTo(r, pc) == submitPc' = [submitPc EXCEPT ![r] = pc]

\* CheckConflict compares with the indexed requests of the other users.
OwnPending(r) == {q \in IndexedRequests(ProjectOf[r]) : OwnerOf[q] = OwnerOf[r]}
OthersPending(r) == {q \in IndexedRequests(ProjectOf[r]) : OwnerOf[q] # OwnerOf[r]}

\* The list of another user that cannot be read is skipped.
CheckConflict(r) ==
  LET compare(S) == SubmitTo(r, IF \E q \in S : <<r, q>> \in Conflicts
                                THEN "conflict" ELSE "checked")
  IN
  /\ submitPc[r] = "new"
  /\ MaySubmit(r)
  /\ \/ Succeeds /\ compare(OthersPending(r))
     \/ Fails /\ SubmitTo(r, "failed")
     \/ Fails /\ \E u \in Users : compare({q \in OthersPending(r) : OwnerOf[q] # u})
  /\ UNCHANGED <<redis, queues, notices, hsetEvents, listener, preStore, registry,
                 coordinator, cleaning, consumer, history>>

\* LPUSH, then EXPIRE: when EXPIRE fails the caller gets an error but the
\* request stays in the list.
PushLast(r) == [pending EXCEPT ![OwnerOf[r]] = Append(@, r)]
PushFirst(r) == [pending EXCEPT ![OwnerOf[r]] = <<r>> \o @]

PushRequest(r) ==
  LET push == pending' = PushFirst(r) IN
  /\ submitPc[r] = "checked"
  /\ \/ Succeeds /\ push /\ SubmitTo(r, "pushed")
     \/ Fails /\ push /\ SubmitTo(r, "failed")
     \/ Fails /\ UNCHANGED pending /\ SubmitTo(r, "failed")
  /\ UNCHANGED <<status, index, payload, queues, notices, hsetEvents, listener,
                 preStore, registry, coordinator, cleaning, consumer, history>>

SetWaiting(r) ==
  /\ submitPc[r] = "pushed"
  /\ \/ /\ Succeeds
        /\ SetUserProjectStatus(OwnerOf[r], ProjectOf[r], "waiting")
        /\ SubmitTo(r, "stated")
     \/ Fails /\ KeepStatus /\ SubmitTo(r, "failed")
  /\ UNCHANGED <<pending, index, payload, queues, notices, listener, preStore,
                 registry, coordinator, cleaning, consumer, history>>

NotIndexed(r) == index
Indexed(r) == [index EXCEPT ![ProjectOf[r]] = @ \cup {OwnerOf[r]}]

AddToIndex(r) ==
  /\ submitPc[r] = "stated"
  /\ \/ /\ Succeeds
        /\ index' = Indexed(r)
        /\ SubmitTo(r, "indexed")
     \/ Fails /\ UNCHANGED index /\ SubmitTo(r, "failed")
  /\ UNCHANGED <<pending, status, payload, queues, notices, hsetEvents, listener,
                 preStore, registry, coordinator, cleaning, consumer, history>>

NotifyPendingUpdate(r) ==
  /\ submitPc[r] = "indexed"
  /\ Offer(Key(r))
  /\ SubmitTo(r, "submitted")
  /\ UNCHANGED <<redis, queues, hsetEvents, listener, preStore, registry,
                 coordinator, cleaning, consumer, history, faults>>

SubmitStep(r) == \/ PushRequest(r) \/ SetWaiting(r)
                 \/ AddToIndex(r) \/ NotifyPendingUpdate(r)

-----------------------------------------------------------------------------
(* listenKeyspaceNotifications: HGET project, then HGETALL, then notify.   *)

ReadEvent ==
  LET u == Head(hsetEvents) IN
  /\ listener.pc = "idle" /\ hsetEvents # << >>
  /\ hsetEvents' = Tail(hsetEvents)
  /\ \/ Succeeds /\ listener' = [pc |-> "offer", key |-> <<u, status[u].project>>]
     \/ Fails /\ UNCHANGED listener
  /\ UNCHANGED <<redis, queues, notices, preStore, registry, coordinator, cleaning,
                 consumer, submitPc, history>>

OfferIfWaiting ==
  /\ listener.pc = "offer"
  /\ \/ /\ Succeeds
        /\ IF status[listener.key[1]].state = "waiting" THEN Offer(listener.key)
                                                        ELSE UNCHANGED notices
     \/ Fails /\ UNCHANGED notices
  /\ listener' = IdleListener
  /\ UNCHANGED <<redis, queues, hsetEvents, preStore, registry, coordinator,
                 cleaning, consumer, submitPc, history>>

ListenerStep == ReadEvent \/ OfferIfWaiting

-----------------------------------------------------------------------------
(* handlePendingUpdate, run by one goroutine: its stateRegistry guard never*)
(* finds a key.                                                            *)

PreStoreFrame == UNCHANGED <<pending, index, apQueue, coQueue, listener, registry,
                             coordinator, cleaning, consumer, submitPc, history>>

FindPendingUpdate ==
  LET k == Head(notices)
      target == NewestFor(k[1], k[2])
  IN
  /\ preStore.pc = "idle" /\ notices # << >>
  /\ notices' = Tail(notices)
  /\ \/ /\ Succeeds
        /\ preStore' = IF target = None THEN IdlePreStore
                       ELSE [pc |-> "stage", key |-> k, request |-> target]
     \/ Fails /\ UNCHANGED preStore
  /\ UNCHANGED <<payload, psQueue>> /\ KeepStatus
  /\ PreStoreFrame

\* Mutant of StagePreStoragePayload: tells the coordinator at once, before the
\* status is written.
StageAndNotify ==
  /\ preStore.pc = "stage"
  /\ Succeeds
  /\ payload' = [payload EXCEPT ![preStore.key] = preStore.request]
  /\ preStore' = [preStore EXCEPT !.pc = "state"]
  /\ psQueue' = Append(psQueue, preStore.key)
  /\ UNCHANGED notices /\ KeepStatus
  /\ PreStoreFrame

StagePreStoragePayload ==
  /\ preStore.pc = "stage"
  /\ \/ /\ Succeeds
        /\ payload' = [payload EXCEPT ![preStore.key] = preStore.request]
        /\ preStore' = [preStore EXCEPT !.pc = "state"]
     \/ Fails /\ UNCHANGED payload /\ preStore' = IdlePreStore
  /\ UNCHANGED <<notices, psQueue>> /\ KeepStatus
  /\ PreStoreFrame

MarkPreStoraged ==
  /\ preStore.pc = "state"
  /\ \/ /\ Succeeds
        /\ SetUserProjectStatus(preStore.key[1], preStore.key[2], "pre_storaged")
        /\ preStore' = [preStore EXCEPT !.pc = "publish"]
     \/ Fails /\ KeepStatus /\ preStore' = IdlePreStore
  /\ UNCHANGED <<notices, payload, psQueue>>
  /\ PreStoreFrame

NotifyApprovalCoordinator ==
  /\ preStore.pc = "publish"
  /\ \/ Succeeds /\ psQueue' = Append(psQueue, preStore.key)
     \/ Fails /\ UNCHANGED psQueue
  /\ preStore' = IdlePreStore
  /\ UNCHANGED <<notices, payload>> /\ KeepStatus
  /\ PreStoreFrame

PreStoreStep == \/ FindPendingUpdate \/ StagePreStoragePayload
                \/ MarkPreStoraged \/ NotifyApprovalCoordinator

-----------------------------------------------------------------------------
(* ApproveChange: publishes a verdict on the pair, whatever its state.     *)
(* `approved` carries binding:"required", so a request with FALSE never    *)
(* gets past the binding; refusals can only come from another producer.    *)

MaySend(k, shown) ==
  /\ "listedOnly" \in Discipline => shown # {}
  /\ "oneVerdict" \in Discipline =>
        ~(shown \subseteq UNION {grants[i].listed : i \in DOMAIN grants})

SendVerdict(k, approved) ==
  LET shown == {r \in ListedRequests(k[2]) : OwnerOf[r] = k[1]} IN
  /\ Len(grants) < MaxApprovals
  /\ MaySend(k, shown)
  /\ grants' = Append(grants, [key |-> k, approved |-> approved, listed |-> shown])
  /\ apQueue' = Append(apQueue, [key |-> k, approved |-> approved,
                                 token |-> Len(grants) + 1])
  /\ UNCHANGED <<redis, psQueue, coQueue, workers, batches, crashes, faults>>

ApproveChange(k) == SendVerdict(k, TRUE)
RefuseChange(k)  == "refusals" \in World /\ SendVerdict(k, FALSE)

-----------------------------------------------------------------------------
(* The approval coordinator.  handleApprovalMessage and                    *)
(* handlePreStorageMessage store the entry; checkAndTransition writes the  *)
(* status, publishes to consumer_queue and deletes the entry, and leaves   *)
(* it where it is when either call fails.                                  *)

CoordinatorFrame == UNCHANGED <<pending, index, payload, notices, listener, preStore,
                                consumer, submitPc, history>>

Stored(k) == IF registry[k] = None THEN NewEntry ELSE registry[k]

\* Store the entry; go on to the transition when both messages are in.
StoreAndCheck(k, e) ==
  /\ registry' = [registry EXCEPT ![k] = e]
  /\ coordinator' = IF e.approvalRecv /\ e.preStorageRecv
                    THEN [pc |-> "transition", key |-> k,
                          approved |-> e.approved, token |-> e.token]
                    ELSE IdleCoordinator

\* Mutant of Recorded: a refusal does not replace an approval.
RecordedSticky(e, m) ==
  [approvalRecv |-> TRUE, preStorageRecv |-> e.preStorageRecv,
   approved |-> e.approved \/ m.approved, token |-> m.token]

\* The latest verdict replaces an earlier one.
Recorded(e, m) ==
  [approvalRecv |-> TRUE, preStorageRecv |-> e.preStorageRecv,
   approved |-> m.approved, token |-> m.token]

\* Mutant of HandleApprovalMessage: the entry is stored but not checked.
HandleApprovalUnchecked ==
  LET m == Head(apQueue) IN
  /\ coordinator.pc = "idle" /\ apQueue # << >>
  /\ apQueue' = Tail(apQueue)
  /\ registry' = [registry EXCEPT ![m.key] = Recorded(Stored(m.key), m)]
  /\ UNCHANGED <<psQueue, coQueue, coordinator, cleaning, faults>> /\ KeepStatus
  /\ CoordinatorFrame

HandleApprovalMessage ==
  LET m == Head(apQueue) IN
  /\ coordinator.pc = "idle" /\ apQueue # << >>
  /\ apQueue' = Tail(apQueue)
  /\ StoreAndCheck(m.key, Recorded(Stored(m.key), m))
  /\ UNCHANGED <<psQueue, coQueue, cleaning, faults>> /\ KeepStatus
  /\ CoordinatorFrame

\* The status write may fail: the code logs that and goes on.
HandlePreStorageMessage ==
  LET k == Head(psQueue) IN
  /\ coordinator.pc = "idle" /\ psQueue # << >>
  /\ psQueue' = Tail(psQueue)
  /\ \/ Succeeds /\ SetUserProjectStatus(k[1], k[2], "pre_storaged")
     \/ Fails /\ KeepStatus
  /\ StoreAndCheck(k, [Stored(k) EXCEPT !.preStorageRecv = TRUE])
  /\ UNCHANGED <<apQueue, coQueue, cleaning>>
  /\ CoordinatorFrame

CheckAndTransition ==
  /\ coordinator.pc = "transition"
  /\ \/ /\ Succeeds
        /\ SetUserProjectStatus(coordinator.key[1], coordinator.key[2],
                                IF coordinator.approved THEN "approved" ELSE "refused")
        /\ coordinator' = [coordinator EXCEPT !.pc = "publish"]
     \/ Fails /\ KeepStatus /\ coordinator' = IdleCoordinator
  /\ UNCHANGED <<queues, registry, cleaning>>
  /\ CoordinatorFrame

WithEntry(k) == registry
WithoutEntry(k) == [registry EXCEPT ![k] = None]

NotifyConsumerCoordinator ==
  /\ coordinator.pc = "publish"
  /\ \/ /\ Succeeds
        /\ coQueue' = Append(coQueue, [key |-> coordinator.key,
                                       approved |-> coordinator.approved,
                                       token |-> coordinator.token])
        /\ registry' = WithoutEntry(coordinator.key)
     \/ Fails /\ UNCHANGED <<coQueue, registry>>
  /\ coordinator' = IdleCoordinator
  /\ UNCHANGED <<apQueue, psQueue, cleaning>> /\ KeepStatus
  /\ CoordinatorFrame

CoordinatorStep == \/ HandleApprovalMessage \/ HandlePreStorageMessage
                   \/ CheckAndTransition \/ NotifyConsumerCoordinator

\* cleanupExpiredStates: an entry whose user has no status record, or whose
\* record cannot be read, is deleted, whatever was stored in between.
CleanupFrame == UNCHANGED <<redis, queues, notices, hsetEvents, listener, preStore,
                            coordinator, consumer, submitPc, history>>
FindExpired(k) ==
  /\ cleaning = None /\ registry[k] # None
  /\ \/ Succeeds /\ status[k[1]] = None
     \/ Fails
  /\ cleaning' = k
  /\ UNCHANGED registry /\ CleanupFrame
DeleteExpired ==
  /\ cleaning # None
  /\ registry' = [registry EXCEPT ![cleaning] = None]
  /\ cleaning' = None
  /\ UNCHANGED faults /\ CleanupFrame

-----------------------------------------------------------------------------
(* The consumer: onApproved takes, executes, removes, completes; onRefused *)
(* takes, removes, refuses.  Any error on the way ends in status failed.   *)

ConsumerFrame == UNCHANGED <<apQueue, psQueue, notices, listener, preStore, registry,
                             coordinator, cleaning, submitPc, grants, crashes>>
ConsumerAt(pc) == consumer' = [consumer EXCEPT !.pc = pc]
FailHere == Fails /\ ConsumerAt("fail")

\* GETDEL: a payload can be taken once.
Read(k) == payload
Taken(k) == [payload EXCEPT ![k] = None]

\* A refusal needs no payload; an approval without one fails.
AfterTakeUnchecked(approved, r) == IF approved THEN "execute" ELSE "find"
AfterTake(approved, r) == CASE ~approved -> "find"
                            [] approved /\ r = None -> "fail"
                            [] OTHER -> "execute"

\* After an error the code cannot know whether the key is gone.
TakeResult ==
  LET m == Head(coQueue)
      take == payload' = Taken(m.key)
      next(pc, r) == consumer' = [pc |-> pc, key |-> m.key, approved |-> m.approved,
                                  token |-> m.token, request |-> r, item |-> None]
  IN
  /\ consumer.pc = "idle" /\ coQueue # << >>
  /\ coQueue' = Tail(coQueue)
  /\ \/ /\ Succeeds /\ take
        /\ next(AfterTake(m.approved, payload[m.key]), payload[m.key])
     \/ /\ Fails /\ (take \/ UNCHANGED payload)
        /\ next(AfterTake(m.approved, None), None)
  /\ UNCHANGED <<pending, index, batches>> /\ KeepStatus
  /\ ConsumerFrame

\* The batch may be rejected by the database or the cache at any operation.
ExecuteApproved ==
  /\ consumer.pc = "execute"
  /\ batches' = Append(batches, [token |-> consumer.token, request |-> consumer.request])
  /\ ConsumerAt("find") \/ ConsumerAt("fail")
  /\ UNCHANGED <<redis, coQueue, hsetEvents, faults>>
  /\ ConsumerFrame

\* RemovePendingChangeForProject: LRANGE, LREM of the newest entry, SREM.
FindPendingChange ==
  /\ consumer.pc = "find"
  /\ \/ /\ Succeeds
        /\ consumer' = [consumer EXCEPT !.pc = "remove",
                          !.item = NewestFor(consumer.key[1], consumer.key[2])]
     \/ FailHere
  /\ UNCHANGED <<redis, coQueue, hsetEvents, batches>>
  /\ ConsumerFrame

RemovePendingChange ==
  /\ consumer.pc = "remove"
  /\ \/ /\ Succeeds
        /\ pending' = [pending EXCEPT ![consumer.key[1]] =
                         RemoveFirst(@, consumer.item)]
        /\ ConsumerAt("unindex")
     \/ consumer.item # None /\ FailHere /\ UNCHANGED pending
  /\ UNCHANGED <<index, payload, coQueue, batches>> /\ KeepStatus
  /\ ConsumerFrame

RemoveFromIndex ==
  /\ consumer.pc = "unindex"
  /\ \/ /\ Succeeds
        /\ index' = [index EXCEPT ![consumer.key[2]] = @ \ {consumer.key[1]}]
        /\ ConsumerAt("finish")
     \/ FailHere /\ UNCHANGED index
  /\ UNCHANGED <<pending, payload, coQueue, batches>> /\ KeepStatus
  /\ ConsumerFrame

\* The last status write; its own failure leaves the record as it was.
FinishResult ==
  LET outcome == CASE consumer.pc = "fail" -> "failed"
                   [] consumer.approved    -> "completed"
                   [] OTHER                -> "refused"
  IN
  /\ consumer.pc \in {"finish", "fail"}
  /\ \/ Succeeds /\ SetUserProjectStatus(consumer.key[1], consumer.key[2], outcome)
     \/ Fails /\ KeepStatus
  /\ consumer' = IdleConsumer
  /\ UNCHANGED <<pending, index, payload, coQueue, batches>>
  /\ ConsumerFrame

ConsumerStep == \/ TakeResult \/ ExecuteApproved \/ FindPendingChange
                \/ RemovePendingChange \/ RemoveFromIndex \/ FinishResult

-----------------------------------------------------------------------------
(* The environment: restarts of the process and key expiry.                *)

\* A restart loses the memory of the process; a submission it interrupts
\* keeps what it wrote.  Of a broker queue the messages already delivered to
\* the listener are lost.
Restart ==
  LET keeps(q, n) == SubSeq(q, n + 1, Len(q)) IN
  /\ crashes < MaxCrashes
  /\ crashes' = crashes + 1
  /\ \E n \in 0..Len(apQueue) : apQueue' = keeps(apQueue, n)
  /\ \E n \in 0..Len(psQueue) : psQueue' = keeps(psQueue, n)
  /\ \E n \in 0..Len(coQueue) : coQueue' = keeps(coQueue, n)
  /\ notices' = << >> /\ hsetEvents' = << >>
  /\ listener' = IdleListener
  /\ preStore' = IdlePreStore
  /\ registry' = [k \in Keys |-> None]
  /\ coordinator' = IdleCoordinator
  /\ cleaning' = None
  /\ consumer' = IdleConsumer
  /\ submitPc' = [r \in Requests |->
                    IF submitPc[r] \in InProgress THEN "failed" ELSE submitPc[r]]
  /\ UNCHANGED <<redis, grants, batches, faults>>

\* The list lives 24 hours from the last push, the payload 7 days.
ExpirePending(u) ==
  /\ "ttl" \in World /\ pending[u] # << >>
  /\ pending' = [pending EXCEPT ![u] = << >>]
  /\ UNCHANGED <<status, index, payload, queues, workers, history, faults>>
ExpirePayload(k) ==
  /\ "ttl" \in World /\ payload[k] # None
  /\ payload' = [payload EXCEPT ![k] = None]
  /\ UNCHANGED <<pending, status, index, queues, workers, history, faults>>

Next ==
  \/ \E r \in Requests : CheckConflict(r)
  \/ \E r \in Requests : SubmitStep(r)
  \/ ListenerStep
  \/ PreStoreStep
  \/ \E k \in Keys : ApproveChange(k)
  \/ \E k \in Keys : RefuseChange(k)
  \/ CoordinatorStep
  \/ \E k \in Keys : FindExpired(k)
  \/ DeleteExpired
  \/ ConsumerStep
  \/ Restart
  \/ \E u \in Users : ExpirePending(u)
  \/ \E k \in Keys : ExpirePayload(k)

Spec == Init /\ [][Next]_vars

\* A started submission and the worker goroutines keep running; nobody has to
\* submit, to approve, or to crash.
Fairness ==
  /\ \A r \in Requests : WF_vars(SubmitStep(r))
  /\ WF_vars(ListenerStep)
  /\ WF_vars(PreStoreStep)
  /\ WF_vars(CoordinatorStep)
  /\ WF_vars(ConsumerStep)

FairSpec == Spec /\ Fairness

-----------------------------------------------------------------------------
(* Properties.                                                             *)

RedisOK ==
  /\ pending \in [Users -> Seq(Requests)]
  /\ status \in [Users -> StatusRecord \cup {None}]
  /\ index \in [Projects -> SUBSET Users]
  /\ payload \in [Keys -> Requests \cup {None}]

QueuesOK ==
  /\ apQueue \in Seq(Verdict) /\ psQueue \in Seq(Keys) /\ coQueue \in Seq(Verdict)
  /\ notices \in Seq(Keys) /\ hsetEvents \in Seq(Users)

WorkersOK ==
  /\ listener \in [pc : {"idle", "offer"}, key : Keys \cup {None}]
  /\ preStore \in [pc : {"idle", "stage", "state", "publish"},
                   key : Keys \cup {None}, request : Requests \cup {None}]
  /\ registry \in [Keys -> Entry \cup {None}]
  /\ coordinator \in [pc : {"idle", "transition", "publish"}, key : Keys \cup {None},
                      approved : BOOLEAN, token : 0..MaxApprovals]
  /\ cleaning \in Keys \cup {None}
  /\ consumer \in [pc : {"idle", "execute", "find", "remove", "unindex", "finish", "fail"},
                   key : Keys \cup {None}, approved : BOOLEAN, token : 0..MaxApprovals,
                   request : Requests \cup {None}, item : Requests \cup {None}]
  /\ submitPc \in [Requests -> SubmitStates]

HistoryOK ==
  /\ grants \in Seq([key : Keys, approved : BOOLEAN, listed : SUBSET Requests])
  /\ Len(grants) <= MaxApprovals
  /\ batches \in Seq([token : 1..MaxApprovals, request : Requests])
  /\ faults \in 0..MaxFaults /\ crashes \in 0..MaxCrashes

\* Every variable keeps its shape; in particular no worker goes on with a
\* request, a user or a project it has not found: the nil cases of the code are
\* all caught before their use.
TypeOK == RedisOK /\ QueuesOK /\ WorkersOK /\ HistoryOK

\* One approval causes at most one execution: whatever is retried, left in
\* the registry or paired late, no verdict message executes two batches.
OneExecutionPerApproval ==
  \A i, j \in DOMAIN batches : batches[i].token = batches[j].token => i = j

\* A batch is executed only on the strength of an approval, never of a
\* refusal, and for the user and project that approval named.
ExecutionsAreApproved ==
  \A i \in DOMAIN batches :
     LET g == grants[batches[i].token] IN
     /\ batches[i].token \in DOMAIN grants
     /\ g.approved /\ g.key = Key(batches[i].request)

\* A request is executed at most once.
ExecutedOnce ==
  \A i, j \in DOMAIN batches : batches[i].request = batches[j].request => i = j

\* ApprovalResultMessage, api/model/approval.go:18: "the state machine
\* guarantees that pre-storage is complete at this stage".  A result message
\* that approves a pair finds the payload of that pair.
ConsumerFindsPayload ==
  \A i \in DOMAIN coQueue : coQueue[i].approved => payload[coQueue[i].key] # None

\* Readme.md:60: a submitted edit reaches the project after an admin has
\* approved it.  What an approval executes was listed when it was sent.
ExecutesWhatWasReviewed ==
  \A i \in DOMAIN batches : batches[i].request \in grants[batches[i].token].listed

\* A pair in the hands of the coordinator or the consumer.
Deciding(k) == \/ coordinator.pc # "idle" /\ coordinator.key = k
               \/ consumer.pc # "idle" /\ consumer.key = k
               \/ \E i \in DOMAIN coQueue : coQueue[i].key = k

\* service/project.go:257: "all change requests of the project that wait for
\* approval".  A staged request that nobody is deciding yet is listed.
StagedRequestsAreListed ==
  \A k \in Keys : payload[k] # None /\ ~Deciding(k) => payload[k] \in ListedRequests(k[2])

\* Two requests in conflict are never both submitted and waiting for their
\* execution: CheckConflict turns the later one away.
Executed(r) == \E i \in DOMAIN batches : batches[i].request = r
Waiting(r) == /\ submitPc[r] = "submitted" /\ ~Executed(r)
              /\ r \in ToSet(pending[OwnerOf[r]])
NoConflictingPairWaits ==
  \A r, q \in Requests :
     /\ <<r, q>> \in Conflicts
     /\ OwnerOf[r] # OwnerOf[q] /\ ProjectOf[r] = ProjectOf[q]
     => ~(Waiting(r) /\ Waiting(q))

\* A final status is replaced only by the "waiting" of a new submission: no
\* late message moves a finished request back into the pipeline.
FinalStatusIsFinal ==
  [][\A u \in Users :
       status[u] # None /\ status[u].state \in Final /\ status'[u] # status[u]
         => status'[u].state = "waiting"]_status

\* A completed pair has left nothing behind: no payload, and no request of
\* its own that still waits.
CompletedIsClean ==
  \A u \in Users : status[u] # None /\ status[u].state = "completed" =>
     LET p == status[u].project IN
     /\ payload[<<u, p>>] = None
     /\ \A r \in Requests : Key(r) = <<u, p>> => ~Waiting(r)

\* A request that an admin approves while it is listed is executed, and the
\* coordinator and the consumer come to an end with its pair.
ApprovedIsExecuted ==
  \A r \in Requests :
     (\E i \in DOMAIN grants : grants[i].approved /\ r \in grants[i].listed)
       ~> (Executed(r) /\ ~Deciding(Key(r)))

\* The pipeline implements the ledger of ApprovalLedger: whatever fails, is
\* lost, repeated or expires, each execution uses up one fresh approval of its
\* own pair, and verdicts and executions are never taken back.
Ledger == INSTANCE ApprovalLedger WITH
            Pairs <- Keys,
            PairOf <- [r \in Requests |-> Key(r)],
            verdicts <- [i \in DOMAIN grants |->
                           [key |-> grants[i].key, approved |-> grants[i].approved]],
            executed <- {batches[i] : i \in DOMAIN batches}
ImplementsLedger == Ledger!Spec
=============================================================================
