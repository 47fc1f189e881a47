------------------------ MODULE ChangeApprovalProofs ------------------------
(* Proofs about ChangeApproval, for every value of its constants.          *)
EXTENDS ChangeApproval, SequenceTheorems, FiniteSetTheorems, TLAPS

-----------------------------------------------------------------------------
(* Lemmas about sets of naturals and sequences.                            *)

\* A nonempty set of naturals has a least element.
LEMMA HasLeast ==
  ASSUME NEW S \in SUBSET Nat, S # {}
  PROVE  \E x \in S : \A y \in S : x <= y
<1> DEFINE below == {0..x : x \in S}
<1>1. IsWellFoundedOn(StrictSubsetOrdering(Nat), FiniteSubsetsOf(Nat))
  BY FS_StrictSubsetOrderingWellFounded
<1>2. below \subseteq FiniteSubsetsOf(Nat) /\ below # {}
  <2>1. ASSUME NEW x \in S PROVE 0..x \in SUBSET Nat /\ IsFiniteSet(0..x)
    BY FS_Interval
  <2> QED
    BY <2>1 DEF FiniteSubsetsOf
<1>3. PICK b \in below : \A c \in below : <<c, b>> \notin StrictSubsetOrdering(Nat)
  BY <1>1, <1>2, WFMin, Zenon
<1>4. PICK x \in S : b = 0..x
  BY <1>3
<1>5. ASSUME NEW y \in S, y < x PROVE FALSE
  <2>1. 0..y \in below /\ 0..y \in SUBSET Nat /\ 0..x \in SUBSET Nat
    OBVIOUS
  <2>2. 0..y \subseteq 0..x /\ x \in 0..x /\ x \notin 0..y
    BY <1>5
  <2>3. <<0..y, 0..x>> \in StrictSubsetOrdering(Nat)
    BY <2>1, <2>2, Zenon DEF StrictSubsetOrdering
  <2> QED
    BY <1>3, <1>4, <2>1, <2>3, Zenon
<1> QED
  BY <1>5

\* Removing one occurrence of an element leaves a sequence over the same set.
LEMMA RemoveFirstType ==
  ASSUME NEW S, NEW s \in Seq(S), NEW e
  PROVE  RemoveFirst(s, e) \in Seq(S)
<1>1. CASE ~(\E i \in 1..Len(s) : s[i] = e)
  BY <1>1 DEF RemoveFirst
<1>2. CASE \E i \in 1..Len(s) : s[i] = e
  <2> DEFINE I == {i \in 1..Len(s) : s[i] = e}
             k == SelectInSeq(s, LAMBDA v : v = e)
  <2>1. I # {} /\ I \in SUBSET Nat
    BY <1>2
  <2>2. k = CHOOSE x \in I : \A y \in I : x <= y
    BY <2>1 DEF SelectInSeq, Min
  <2>3. k \in I
    BY <2>1, <2>2, HasLeast
  <2>4. SubSeq(s, 1, k - 1) \in Seq(S) /\ SubSeq(s, k + 1, Len(s)) \in Seq(S)
    <3>1. k \in 1..Len(s) /\ Len(s) \in Nat /\ \A i \in 1..Len(s) : s[i] \in S
      BY <2>3, LenProperties, ElementOfSeq
    <3> HIDE DEF k
    <3>2. /\ k - 1 \in Int /\ \A i \in 1..(k - 1) : s[i] \in S
          /\ k + 1 \in Int /\ \A i \in (k + 1)..Len(s) : s[i] \in S
      BY <3>1
    <3> QED
      BY <3>1, <3>2, SubSeqProperties
  <2> QED
    BY <1>2, <2>4, ConcatProperties DEF RemoveFirst, RemoveAt
<1> QED
  BY <1>1, <1>2

\* The newest pending request of a pair is a request, if there is one.
LEMMA NewestForType ==
  ASSUME RedisOK, NEW u \in Users, NEW p \in Projects
  PROVE  NewestFor(u, p) \in Requests \cup {None}
<1> DEFINE I == PositionsOf(u, p)
<1>1. CASE I = {}
  BY <1>1 DEF NewestFor
<1>2. CASE I # {}
  <2>1. pending[u] \in Seq(Requests)
    BY DEF RedisOK
  <2>2. I \in SUBSET Nat /\ I \subseteq 1..Len(pending[u])
    BY <2>1 DEF PositionsOf
  <2>3. PICK m \in I : \A j \in I : m <= j
    BY <1>2, <2>2, HasLeast, Zenon
  <2>4. (CHOOSE i \in I : \A j \in I : i <= j) \in 1..Len(pending[u])
    BY <2>2, <2>3
  <2> QED
    BY <1>2, <2>1, <2>4, ElementOfSeq DEF NewestFor
<1> QED
  BY <1>1, <1>2

-----------------------------------------------------------------------------
(* Type correctness.  TypeOK is not inductive: a worker that is not idle   *)
(* holds a key, a token and a request, and a keyspace event is about a     *)
(* user that has a status record.                                          *)

HoldersOK ==
  /\ \A i \in DOMAIN hsetEvents : status[hsetEvents[i]] # None
  /\ listener.pc = "offer" => listener.key \in Keys /\ status[listener.key[1]] # None
  /\ preStore.pc # "idle" => preStore.key \in Keys /\ preStore.request \in Requests
  /\ \A k \in Keys : registry[k] # None /\ registry[k].approvalRecv
                       => registry[k].token # 0
  /\ coordinator.pc # "idle" => coordinator.key \in Keys /\ coordinator.token # 0
  /\ consumer.pc # "idle" => consumer.key \in Keys /\ consumer.token # 0
  /\ consumer.pc = "execute" => consumer.request \in Requests

TypeInv == TypeOK /\ HoldersOK

LEMMA InitTypeInv == Init => TypeInv
<1> SUFFICES ASSUME Init PROVE TypeInv
  OBVIOUS
<1> USE ConstantsAssumption DEF Init
<1>1. RedisOK
  BY DEF RedisOK
<1>2. QueuesOK
  BY DEF QueuesOK
<1>3. WorkersOK
  BY DEF WorkersOK, IdleListener, IdlePreStore, IdleCoordinator, IdleConsumer, SubmitStates
<1>4. HistoryOK
  BY DEF HistoryOK
<1>5. HoldersOK
  BY DEF HoldersOK, IdleListener, IdlePreStore, IdleCoordinator, IdleConsumer
<1> QED
  BY <1>1, <1>2, <1>3, <1>4, <1>5 DEF TypeInv, TypeOK
\* A status write keeps the records well formed and every event about a user
\* that has one.
LEMMA SetStatusType ==
  ASSUME TypeInv, NEW u \in Users, NEW p \in Projects, NEW st \in States,
         SetUserProjectStatus(u, p, st)
  PROVE  /\ status' \in [Users -> StatusRecord \cup {None}]
         /\ hsetEvents' \in Seq(Users)
         /\ \A v \in Users : status[v] # None => status'[v] # None
         /\ \A i \in DOMAIN hsetEvents' : status'[hsetEvents'[i]] # None
<1> USE NoneAssumption DEF TypeInv, TypeOK, RedisOK, QueuesOK, HoldersOK, SetUserProjectStatus
<1>1. [project |-> p, state |-> st] \in StatusRecord
  BY DEF StatusRecord
<1>2. status' \in [Users -> StatusRecord \cup {None}] /\ status'[u] # None
  BY <1>1
<1>3. \A v \in Users : status[v] # None => status'[v] # None
  BY <1>1
<1>4. CASE hsetEvents' = hsetEvents
  BY <1>2, <1>3, <1>4, ElementOfSeq
<1>5. CASE hsetEvents' = Append(hsetEvents, u)
  BY <1>2, <1>3, <1>5, AppendProperties, ElementOfSeq
<1> QED
  BY <1>2, <1>3, <1>4, <1>5

(* A step of each worker preserves TypeInv.  A failing call only counts.   *)

LEMMA FaultsType ==
  ASSUME TypeInv, Succeeds \/ Fails
  PROVE  faults' \in 0..MaxFaults
  BY ConstantsAssumption DEF TypeInv, TypeOK, HistoryOK, Succeeds, Fails

\* What SetStatusType says holds as well when the status is not written.
LEMMA StatusType ==
  ASSUME TypeInv, NEW u \in Users, NEW p \in Projects, NEW st \in States,
         SetUserProjectStatus(u, p, st) \/ KeepStatus
  PROVE  /\ status' \in [Users -> StatusRecord \cup {None}]
         /\ hsetEvents' \in Seq(Users)
         /\ \A v \in Users : status[v] # None => status'[v] # None
         /\ \A i \in DOMAIN hsetEvents' : status'[hsetEvents'[i]] # None
<1>1. CASE SetUserProjectStatus(u, p, st)
  BY <1>1, SetStatusType
<1>2. CASE KeepStatus
  BY <1>2 DEF KeepStatus, TypeInv, TypeOK, RedisOK, QueuesOK, HoldersOK
<1> QED
  BY <1>1, <1>2

LEMMA SubmitTypeInv ==
  ASSUME TypeInv, NEW r \in Requests, CheckConflict(r) \/ SubmitStep(r)
  PROVE  TypeInv'
<1> USE ConstantsAssumption DEF TypeInv, TypeOK
<1>1. OwnerOf[r] \in Users /\ ProjectOf[r] \in Projects /\ Key(r) \in Keys
  BY DEF Key, Keys
<1>2. CASE CheckConflict(r)
  <2>1. RedisOK' /\ QueuesOK' /\ HoldersOK'
    BY <1>2 DEF CheckConflict, redis, queues, RedisOK, QueuesOK, HoldersOK
  <2>2. submitPc' \in [Requests -> SubmitStates]
    <3>1. \A pc \in {"checked", "conflict", "failed"} :
             SubmitTo(r, pc) => submitPc' \in [Requests -> SubmitStates]
      BY DEF SubmitTo, WorkersOK, SubmitStates, InProgress
    <3>2. \E pc \in {"checked", "conflict", "failed"} : SubmitTo(r, pc)
      BY <1>2, Zenon DEF CheckConflict
    <3> QED
      BY <3>1, <3>2
  <2>4. WorkersOK'
    <3>1. UNCHANGED <<listener, preStore, registry, coordinator, cleaning, consumer>>
      BY <1>2 DEF CheckConflict
    <3> QED
      BY <2>2, <3>1 DEF WorkersOK
  <2>3. HistoryOK'
    BY <1>2, FaultsType DEF CheckConflict, HistoryOK, history
  <2> QED
    BY <2>1, <2>3, <2>4
<1>3. CASE PushRequest(r)
  <2>1. PushFirst(r) \in [Users -> Seq(Requests)]
    BY <1>1, ConcatProperties DEF PushFirst, RedisOK
  <2>2. RedisOK'
    BY <1>3, <2>1 DEF PushRequest, RedisOK
  <2>3. WorkersOK'
    BY <1>3 DEF PushRequest, WorkersOK, SubmitTo, SubmitStates, InProgress
  <2>4. HistoryOK'
    BY <1>3, FaultsType DEF PushRequest, HistoryOK, history
  <2>5. QueuesOK' /\ HoldersOK'
    BY <1>3 DEF PushRequest, queues, QueuesOK, HoldersOK
  <2> QED
    BY <2>2, <2>3, <2>4, <2>5
<1>4. CASE SetWaiting(r)
  <2>1. SetUserProjectStatus(OwnerOf[r], ProjectOf[r], "waiting") \/ KeepStatus
    BY <1>4 DEF SetWaiting
  <2>2. /\ status' \in [Users -> StatusRecord \cup {None}]
        /\ hsetEvents' \in Seq(Users)
        /\ \A v \in Users : status[v] # None => status'[v] # None
        /\ \A i \in DOMAIN hsetEvents' : status'[hsetEvents'[i]] # None
    BY <1>1, <2>1, StatusType DEF States, Pending
  <2>3. RedisOK' /\ QueuesOK'
    BY <1>4, <2>2 DEF SetWaiting, queues, RedisOK, QueuesOK
  <2>4. WorkersOK'
    BY <1>4 DEF SetWaiting, WorkersOK, SubmitTo, SubmitStates, InProgress
  <2>5. HistoryOK'
    BY <1>4, FaultsType DEF SetWaiting, HistoryOK, history
  <2>6. HoldersOK'
    BY <1>4, <2>2 DEF SetWaiting, HoldersOK, Keys
  <2> QED
    BY <2>3, <2>4, <2>5, <2>6
<1>5. CASE AddToIndex(r)
  <2>1. RedisOK'
    BY <1>1, <1>5 DEF AddToIndex, Indexed, RedisOK
  <2>2. WorkersOK'
    BY <1>5 DEF AddToIndex, WorkersOK, SubmitTo, SubmitStates, InProgress
  <2>3. HistoryOK'
    BY <1>5, FaultsType DEF AddToIndex, HistoryOK, history
  <2>4. QueuesOK' /\ HoldersOK'
    BY <1>5 DEF AddToIndex, queues, QueuesOK, HoldersOK
  <2> QED
    BY <2>1, <2>2, <2>3, <2>4
<1>6. CASE NotifyPendingUpdate(r)
  <2>1. QueuesOK'
    BY <1>1, <1>6, AppendProperties DEF NotifyPendingUpdate, Offer, queues, QueuesOK
  <2>2. WorkersOK'
    BY <1>6 DEF NotifyPendingUpdate, WorkersOK, SubmitTo, SubmitStates
  <2>3. RedisOK' /\ HistoryOK' /\ HoldersOK'
    BY <1>6 DEF NotifyPendingUpdate, redis, history, RedisOK, HistoryOK, HoldersOK
  <2> QED
    BY <2>1, <2>2, <2>3
<1> QED
  BY <1>2, <1>3, <1>4, <1>5, <1>6 DEF SubmitStep

LEMMA ListenerTypeInv ==
  ASSUME TypeInv, ListenerStep
  PROVE  TypeInv'
<1> USE ConstantsAssumption DEF TypeInv, TypeOK
<1>1. CASE ReadEvent
  <2>1. /\ Head(hsetEvents) \in Users /\ Tail(hsetEvents) \in Seq(Users)
        /\ status[Head(hsetEvents)] # None
        /\ \A i \in DOMAIN Tail(hsetEvents) : status[Tail(hsetEvents)[i]] # None
    BY <1>1, HeadTailProperties DEF ReadEvent, QueuesOK, HoldersOK
  <2>2. <<Head(hsetEvents), status[Head(hsetEvents)].project>> \in Keys
    BY <2>1 DEF Keys, StatusRecord, RedisOK
  <2>3. RedisOK' /\ QueuesOK'
    BY <1>1, <2>1 DEF ReadEvent, redis, queues, RedisOK, QueuesOK
  <2>4. WorkersOK'
    <3>1. listener' \in [pc : {"idle", "offer"}, key : Keys \cup {None}]
      BY <1>1, <2>2 DEF ReadEvent, WorkersOK
    <3> QED
      BY <1>1, <3>1 DEF ReadEvent, WorkersOK
  <2>5. HistoryOK'
    BY <1>1, FaultsType DEF ReadEvent, HistoryOK, history
  <2>6. HoldersOK'
    BY <1>1, <2>1, <2>2 DEF ReadEvent, redis, HoldersOK
  <2> QED
    BY <2>3, <2>4, <2>5, <2>6
<1>2. CASE OfferIfWaiting
  <2>1. QueuesOK'
    <3>1. notices' \in Seq(Keys)
      <4>1. notices' = notices \/ notices' = Append(notices, listener.key)
        BY <1>2 DEF OfferIfWaiting, Offer
      <4>2. listener.key \in Keys
        BY <1>2 DEF OfferIfWaiting, HoldersOK
      <4>3. notices \in Seq(Keys)
        BY DEF QueuesOK
      <4> QED
        BY <4>1, <4>2, <4>3
    <3> QED
      BY <1>2, <3>1 DEF OfferIfWaiting, queues, QueuesOK
  <2>2. RedisOK' /\ WorkersOK' /\ HoldersOK'
    BY <1>2 DEF OfferIfWaiting, IdleListener, redis, RedisOK, WorkersOK, HoldersOK
  <2>3. HistoryOK'
    BY <1>2, FaultsType DEF OfferIfWaiting, HistoryOK, history
  <2> QED
    BY <2>1, <2>2, <2>3
<1> QED
  BY <1>1, <1>2 DEF ListenerStep

LEMMA PreStoreTypeInv ==
  ASSUME TypeInv, PreStoreStep
  PROVE  TypeInv'
<1> USE ConstantsAssumption DEF TypeInv, TypeOK, PreStoreFrame
<1> DEFINE shape == [pc : {"idle", "stage", "state", "publish"},
                     key : Keys \cup {None}, request : Requests \cup {None}]
<1>1. CASE FindPendingUpdate
  <2>1. /\ Head(notices) \in Keys /\ Tail(notices) \in Seq(Keys)
    BY <1>1, HeadTailProperties DEF FindPendingUpdate, QueuesOK
  <2>2. NewestFor(Head(notices)[1], Head(notices)[2]) \in Requests \cup {None}
    BY <2>1, NewestForType DEF Keys
  <2>3. /\ preStore' \in shape
        /\ preStore'.pc # "idle" => preStore'.key \in Keys /\ preStore'.request \in Requests
    BY <1>1, <2>1, <2>2 DEF FindPendingUpdate, IdlePreStore, WorkersOK
  <2>4. RedisOK' /\ QueuesOK'
    BY <1>1, <2>1 DEF FindPendingUpdate, KeepStatus, RedisOK, QueuesOK
  <2>5. WorkersOK' /\ HoldersOK'
    BY <1>1, <2>3 DEF FindPendingUpdate, KeepStatus, WorkersOK, HoldersOK
  <2>6. HistoryOK'
    BY <1>1, FaultsType DEF FindPendingUpdate, HistoryOK, history
  <2> QED
    BY <2>4, <2>5, <2>6
<1>2. CASE StagePreStoragePayload
  <2>1. payload' \in [Keys -> Requests \cup {None}]
    BY <1>2 DEF StagePreStoragePayload, RedisOK, HoldersOK
  <2>2. /\ preStore' \in shape
        /\ preStore'.pc # "idle" => preStore'.key \in Keys /\ preStore'.request \in Requests
    BY <1>2 DEF StagePreStoragePayload, IdlePreStore, WorkersOK, HoldersOK
  <2>3. RedisOK' /\ QueuesOK'
    BY <1>2, <2>1 DEF StagePreStoragePayload, KeepStatus, RedisOK, QueuesOK
  <2>4. WorkersOK' /\ HoldersOK'
    BY <1>2, <2>2 DEF StagePreStoragePayload, KeepStatus, WorkersOK, HoldersOK
  <2>5. HistoryOK'
    BY <1>2, FaultsType DEF StagePreStoragePayload, HistoryOK, history
  <2> QED
    BY <2>3, <2>4, <2>5
<1>3. CASE MarkPreStoraged
  <2>1. preStore.key[1] \in Users /\ preStore.key[2] \in Projects
    BY <1>3 DEF MarkPreStoraged, HoldersOK, Keys
  <2>2. SetUserProjectStatus(preStore.key[1], preStore.key[2], "pre_storaged")
        \/ KeepStatus
    BY <1>3 DEF MarkPreStoraged
  <2>3. /\ status' \in [Users -> StatusRecord \cup {None}]
        /\ hsetEvents' \in Seq(Users)
        /\ \A v \in Users : status[v] # None => status'[v] # None
        /\ \A i \in DOMAIN hsetEvents' : status'[hsetEvents'[i]] # None
    BY <2>1, <2>2, StatusType DEF States, Pending
  <2>4. /\ preStore' \in shape
        /\ preStore'.pc # "idle" => preStore'.key \in Keys /\ preStore'.request \in Requests
    BY <1>3 DEF MarkPreStoraged, IdlePreStore, WorkersOK, HoldersOK
  <2>5. RedisOK' /\ QueuesOK'
    BY <1>3, <2>3 DEF MarkPreStoraged, RedisOK, QueuesOK
  <2>6. WorkersOK' /\ HoldersOK'
    BY <1>3, <2>3, <2>4 DEF MarkPreStoraged, WorkersOK, HoldersOK, Keys
  <2>7. HistoryOK'
    BY <1>3, FaultsType DEF MarkPreStoraged, HistoryOK, history
  <2> QED
    BY <2>5, <2>6, <2>7
<1>4. CASE NotifyApprovalCoordinator
  <2>1. psQueue' \in Seq(Keys)
    <3>1. psQueue \in Seq(Keys)
      BY DEF QueuesOK
    <3>2. preStore.key \in Keys
      BY <1>4 DEF NotifyApprovalCoordinator, HoldersOK
    <3>3. psQueue' = psQueue \/ psQueue' = Append(psQueue, preStore.key)
      BY <1>4 DEF NotifyApprovalCoordinator
    <3> QED
      BY <3>1, <3>2, <3>3
  <2>2. RedisOK' /\ QueuesOK'
    BY <1>4, <2>1 DEF NotifyApprovalCoordinator, KeepStatus, RedisOK, QueuesOK
  <2>3. WorkersOK' /\ HoldersOK'
    BY <1>4 DEF NotifyApprovalCoordinator, IdlePreStore, KeepStatus, WorkersOK, HoldersOK
  <2>4. HistoryOK'
    BY <1>4, FaultsType DEF NotifyApprovalCoordinator, HistoryOK, history
  <2> QED
    BY <2>2, <2>3, <2>4
<1> QED
  BY <1>1, <1>2, <1>3, <1>4 DEF PreStoreStep

LEMMA VerdictTypeInv ==
  ASSUME TypeInv, NEW k \in Keys, NEW a \in BOOLEAN, SendVerdict(k, a)
  PROVE  TypeInv'
<1> USE ConstantsAssumption DEF TypeInv, TypeOK
<1> DEFINE shown == {r \in ListedRequests(k[2]) : OwnerOf[r] = k[1]}
           grant == [key |-> k, approved |-> a, listed |-> shown]
           verdict == [key |-> k, approved |-> a, token |-> Len(grants) + 1]
<1>1. shown \in SUBSET Requests
  BY DEF ListedRequests, IndexedRequests
<1>2. Len(grants) \in Nat /\ Len(grants) < MaxApprovals
  BY LenProperties DEF SendVerdict, HistoryOK
<1>3. grant \in [key : Keys, approved : BOOLEAN, listed : SUBSET Requests]
  BY <1>1
<1>4. verdict \in Verdict
  BY <1>2 DEF Verdict
<1>5. grants' = Append(grants, grant) /\ apQueue' = Append(apQueue, verdict)
  BY DEF SendVerdict
<1> HIDE DEF grant, verdict
<1>6. HistoryOK'
  BY <1>2, <1>3, <1>5, AppendProperties DEF SendVerdict, HistoryOK
<1>7. apQueue' \in Seq(Verdict)
  BY <1>4, <1>5, AppendProperties DEF QueuesOK
<1>8. RedisOK' /\ QueuesOK'
  BY <1>7 DEF SendVerdict, redis, workers, RedisOK, QueuesOK
<1>9. WorkersOK' /\ HoldersOK'
  BY DEF SendVerdict, redis, workers, WorkersOK, HoldersOK
<1> QED
  BY <1>6, <1>8, <1>9

LEMMA StoredType ==
  ASSUME TypeInv, NEW k \in Keys
  PROVE  /\ Stored(k) \in Entry
         /\ Stored(k).approvalRecv => Stored(k).token # 0
<1>1. CASE registry[k] = None
  BY <1>1, ConstantsAssumption DEF Stored, NewEntry, Entry
<1>2. CASE registry[k] # None
  BY <1>2 DEF TypeInv, TypeOK, WorkersOK, HoldersOK, Stored
<1> QED
  BY <1>1, <1>2

LEMMA RecordedType ==
  ASSUME NEW e \in Entry, NEW m \in Verdict
  PROVE  Recorded(e, m) \in Entry /\ Recorded(e, m).token # 0
  BY ConstantsAssumption DEF Recorded, Entry, Verdict

\* Storing a well formed entry, and going on with it when it is complete.
LEMMA StoreAndCheckType ==
  ASSUME TypeInv, NEW k \in Keys, NEW e \in Entry, e.approvalRecv => e.token # 0,
         StoreAndCheck(k, e)
  PROVE  /\ registry' \in [Keys -> Entry \cup {None}]
         /\ \A j \in Keys : registry'[j] # None /\ registry'[j].approvalRecv
                              => registry'[j].token # 0
         /\ coordinator' \in [pc : {"idle", "transition", "publish"},
                              key : Keys \cup {None}, approved : BOOLEAN,
                              token : 0..MaxApprovals]
         /\ coordinator'.pc # "idle" => coordinator'.key \in Keys /\ coordinator'.token # 0
<1> USE ConstantsAssumption DEF TypeInv, TypeOK
<1>1. registry' = [registry EXCEPT ![k] = e]
  BY DEF StoreAndCheck
<1>2. registry' \in [Keys -> Entry \cup {None}]
  BY <1>1 DEF WorkersOK
<1>3. ASSUME NEW j \in Keys, registry'[j] # None, registry'[j].approvalRecv
      PROVE  registry'[j].token # 0
  BY <1>1, <1>3 DEF WorkersOK, HoldersOK
<1>4. CASE e.approvalRecv /\ e.preStorageRecv
  <2>1. coordinator' = [pc |-> "transition", key |-> k, approved |-> e.approved,
                        token |-> e.token]
    BY <1>4 DEF StoreAndCheck
  <2> QED
    BY <1>2, <1>3, <1>4, <2>1 DEF Entry
<1>5. CASE ~(e.approvalRecv /\ e.preStorageRecv)
  <2>1. coordinator' = IdleCoordinator
    BY <1>5 DEF StoreAndCheck
  <2> QED
    BY <1>2, <1>3, <2>1 DEF IdleCoordinator
<1> QED
  BY <1>4, <1>5

LEMMA CoordinatorTypeInv ==
  ASSUME TypeInv, CoordinatorStep
  PROVE  TypeInv'
<1> USE ConstantsAssumption DEF TypeInv, TypeOK, CoordinatorFrame
<1> DEFINE shape == [pc : {"idle", "transition", "publish"}, key : Keys \cup {None},
                     approved : BOOLEAN, token : 0..MaxApprovals]
<1>1. CASE HandleApprovalMessage
  <2> DEFINE m == Head(apQueue)
             e == Recorded(Stored(m.key), m)
  <2>1. m \in Verdict /\ apQueue' \in Seq(Verdict)
    BY <1>1, HeadTailProperties DEF HandleApprovalMessage, QueuesOK
  <2>2. e \in Entry /\ (e.approvalRecv => e.token # 0)
    BY <2>1, StoredType, RecordedType DEF Verdict
  <2>3. StoreAndCheck(m.key, e) /\ m.key \in Keys
    BY <1>1, <2>1 DEF HandleApprovalMessage, Verdict
  <2> HIDE DEF e, m
  <2>4. /\ registry' \in [Keys -> Entry \cup {None}]
        /\ \A j \in Keys : registry'[j] # None /\ registry'[j].approvalRecv
                             => registry'[j].token # 0
        /\ coordinator' \in shape
        /\ coordinator'.pc # "idle" => coordinator'.key \in Keys /\ coordinator'.token # 0
    BY <2>2, <2>3, StoreAndCheckType
  <2>5. RedisOK' /\ QueuesOK' /\ HistoryOK'
    BY <1>1, <2>1 DEF HandleApprovalMessage, KeepStatus, history, RedisOK, QueuesOK, HistoryOK
  <2>6. WorkersOK' /\ HoldersOK'
    BY <1>1, <2>4 DEF HandleApprovalMessage, KeepStatus, WorkersOK, HoldersOK
  <2> QED
    BY <2>5, <2>6
<1>2. CASE HandlePreStorageMessage
  <2> DEFINE k == Head(psQueue)
             e == [Stored(k) EXCEPT !.preStorageRecv = TRUE]
  <2>1. k \in Keys /\ k[1] \in Users /\ k[2] \in Projects /\ psQueue' \in Seq(Keys)
    BY <1>2, HeadTailProperties DEF HandlePreStorageMessage, QueuesOK, Keys
  <2>2. e \in Entry /\ (e.approvalRecv => e.token # 0)
    BY <2>1, StoredType DEF Entry
  <2>3. /\ StoreAndCheck(k, e)
        /\ SetUserProjectStatus(k[1], k[2], "pre_storaged") \/ KeepStatus
    BY <1>2 DEF HandlePreStorageMessage
  <2> HIDE DEF e, k
  <2>4. /\ registry' \in [Keys -> Entry \cup {None}]
        /\ \A j \in Keys : registry'[j] # None /\ registry'[j].approvalRecv
                             => registry'[j].token # 0
        /\ coordinator' \in shape
        /\ coordinator'.pc # "idle" => coordinator'.key \in Keys /\ coordinator'.token # 0
    BY <2>1, <2>2, <2>3, StoreAndCheckType
  <2>5. /\ status' \in [Users -> StatusRecord \cup {None}]
        /\ hsetEvents' \in Seq(Users)
        /\ \A v \in Users : status[v] # None => status'[v] # None
        /\ \A i \in DOMAIN hsetEvents' : status'[hsetEvents'[i]] # None
    BY <2>1, <2>3, StatusType DEF States, Pending
  <2>6. RedisOK' /\ QueuesOK'
    BY <1>2, <2>1, <2>5 DEF HandlePreStorageMessage, RedisOK, QueuesOK
  <2>7. WorkersOK' /\ HoldersOK'
    BY <1>2, <2>4, <2>5 DEF HandlePreStorageMessage, WorkersOK, HoldersOK, Keys
  <2>8. HistoryOK'
    BY <1>2, FaultsType DEF HandlePreStorageMessage, history, HistoryOK
  <2> QED
    BY <2>6, <2>7, <2>8
<1>3. CASE CheckAndTransition
  <2> DEFINE k == coordinator.key
             st == IF coordinator.approved THEN "approved" ELSE "refused"
  <2>1. k[1] \in Users /\ k[2] \in Projects /\ st \in States
    BY <1>3 DEF CheckAndTransition, HoldersOK, Keys, States, Final
  <2>2. SetUserProjectStatus(k[1], k[2], st) \/ KeepStatus
    BY <1>3 DEF CheckAndTransition
  <2> HIDE DEF k, st
  <2>3. /\ status' \in [Users -> StatusRecord \cup {None}]
        /\ hsetEvents' \in Seq(Users)
        /\ \A v \in Users : status[v] # None => status'[v] # None
        /\ \A i \in DOMAIN hsetEvents' : status'[hsetEvents'[i]] # None
    BY <2>1, <2>2, StatusType
  <2>4. /\ coordinator' \in shape
        /\ coordinator'.pc # "idle" => coordinator'.key \in Keys /\ coordinator'.token # 0
    <3>1. coordinator \in shape /\ coordinator.key \in Keys /\ coordinator.token # 0
      BY <1>3 DEF CheckAndTransition, WorkersOK, HoldersOK
    <3>2. \/ coordinator' = [coordinator EXCEPT !.pc = "publish"]
          \/ coordinator' = IdleCoordinator
      BY <1>3 DEF CheckAndTransition
    <3>3. CASE coordinator' = IdleCoordinator
      BY <3>3 DEF IdleCoordinator
    <3>4. CASE coordinator' = [coordinator EXCEPT !.pc = "publish"]
      BY <3>1, <3>4
    <3> QED
      BY <3>2, <3>3, <3>4
  <2>5. RedisOK' /\ QueuesOK'
    BY <1>3, <2>3 DEF CheckAndTransition, queues, RedisOK, QueuesOK
  <2>6. WorkersOK' /\ HoldersOK'
    BY <1>3, <2>3, <2>4 DEF CheckAndTransition, WorkersOK, HoldersOK, Keys
  <2>7. HistoryOK'
    BY <1>3, FaultsType DEF CheckAndTransition, history, HistoryOK
  <2> QED
    BY <2>5, <2>6, <2>7
<1>4. CASE NotifyConsumerCoordinator
  <2> DEFINE m == [key |-> coordinator.key, approved |-> coordinator.approved,
                   token |-> coordinator.token]
  <2>1. m \in Verdict /\ coQueue \in Seq(Verdict)
    BY <1>4 DEF NotifyConsumerCoordinator, HoldersOK, WorkersOK, QueuesOK, Verdict
  <2>2. coQueue' = coQueue \/ coQueue' = Append(coQueue, m)
    BY <1>4 DEF NotifyConsumerCoordinator
  <2>3. coQueue' \in Seq(Verdict)
    BY <2>1, <2>2
  <2>4. registry' = registry \/ registry' = WithoutEntry(coordinator.key)
    BY <1>4 DEF NotifyConsumerCoordinator
  <2>5. RedisOK' /\ QueuesOK'
    BY <1>4, <2>3 DEF NotifyConsumerCoordinator, KeepStatus, RedisOK, QueuesOK
  <2>6. /\ registry' \in [Keys -> Entry \cup {None}]
        /\ \A j \in Keys : registry'[j] # None => registry'[j] = registry[j]
    BY <2>4 DEF WithoutEntry, WorkersOK
  <2>8. coordinator' = IdleCoordinator
    BY <1>4 DEF NotifyConsumerCoordinator
  <2>9. WorkersOK'
    BY <1>4, <2>6, <2>8 DEF NotifyConsumerCoordinator, IdleCoordinator, WorkersOK
  <2>10. HoldersOK'
    BY <1>4, <2>6, <2>8 DEF NotifyConsumerCoordinator, IdleCoordinator, KeepStatus, HoldersOK
  <2>7. HistoryOK'
    BY <1>4, FaultsType DEF NotifyConsumerCoordinator, history, HistoryOK
  <2> QED
    BY <2>5, <2>7, <2>9, <2>10
<1> QED
  BY <1>1, <1>2, <1>3, <1>4 DEF CoordinatorStep

LEMMA CleanupTypeInv ==
  ASSUME TypeInv, (\E k \in Keys : FindExpired(k)) \/ DeleteExpired
  PROVE  TypeInv'
<1> USE ConstantsAssumption DEF TypeInv, TypeOK, CleanupFrame
<1>1. cleaning' \in Keys \cup {None} /\ UNCHANGED <<redis, queues, notices, hsetEvents>>
  BY DEF FindExpired, DeleteExpired
<1>2. /\ registry' \in [Keys -> Entry \cup {None}]
      /\ \A j \in Keys : registry'[j] # None => registry'[j] = registry[j]
  BY DEF FindExpired, DeleteExpired, WorkersOK
<1>3. RedisOK' /\ QueuesOK'
  BY <1>1 DEF redis, queues, RedisOK, QueuesOK
<1>4. WorkersOK'
  BY <1>1, <1>2 DEF FindExpired, DeleteExpired, WorkersOK
<1>5. HistoryOK'
  BY FaultsType DEF FindExpired, DeleteExpired, history, HistoryOK
<1>6. HoldersOK'
  BY <1>1, <1>2 DEF FindExpired, DeleteExpired, redis, HoldersOK
<1> QED
  BY <1>3, <1>4, <1>5, <1>6

LEMMA ConsumerAtType ==
  ASSUME TypeInv, consumer.pc # "idle", ConsumerAt("find") \/ ConsumerAt("fail"),
         NEW T, consumer \in T,
         T = [pc : {"idle", "execute", "find", "remove", "unindex", "finish", "fail"},
              key : Keys \cup {None}, approved : BOOLEAN, token : 0..MaxApprovals,
              request : Requests \cup {None}, item : Requests \cup {None}]
  PROVE  /\ consumer' \in T
         /\ consumer'.key = consumer.key /\ consumer'.token = consumer.token
         /\ consumer'.pc \in {"find", "fail"}
  BY DEF ConsumerAt

LEMMA ConsumerTypeInv ==
  ASSUME TypeInv, ConsumerStep
  PROVE  TypeInv'
<1> USE ConstantsAssumption DEF TypeInv, TypeOK, ConsumerFrame
<1> DEFINE shape ==
      [pc : {"idle", "execute", "find", "remove", "unindex", "finish", "fail"},
       key : Keys \cup {None}, approved : BOOLEAN, token : 0..MaxApprovals,
       request : Requests \cup {None}, item : Requests \cup {None}]
<1> DEFINE holds ==
      /\ consumer'.pc # "idle" => consumer'.key \in Keys /\ consumer'.token # 0
      /\ consumer'.pc = "execute" => consumer'.request \in Requests
<1>1. CASE TakeResult
  <2> DEFINE m == Head(coQueue)
  <2>1. m \in Verdict /\ m.key \in Keys /\ coQueue' \in Seq(Verdict)
    <3>1. coQueue \in Seq(Verdict) /\ coQueue # << >> /\ coQueue' = Tail(coQueue)
      BY <1>1 DEF TakeResult, QueuesOK
    <3>2. m \in Verdict /\ coQueue' \in Seq(Verdict)
      BY <3>1, HeadTailProperties
    <3> QED
      BY <3>2 DEF Verdict
  <2> HIDE DEF m
  <2>2. payload' = payload \/ payload' = [payload EXCEPT ![m.key] = None]
    BY <1>1 DEF TakeResult, Taken, m
  <2>3. PICK r \in Requests \cup {None} :
          consumer' = [pc |-> AfterTake(m.approved, r), key |-> m.key,
                       approved |-> m.approved, token |-> m.token,
                       request |-> r, item |-> None]
    BY <1>1, <2>1 DEF TakeResult, RedisOK, m
  <2>4. consumer' \in shape /\ holds
    BY <2>1, <2>3 DEF Verdict, AfterTake
  <2>5. RedisOK' /\ QueuesOK'
    BY <1>1, <2>1, <2>2 DEF TakeResult, KeepStatus, RedisOK, QueuesOK
  <2>6. WorkersOK' /\ HoldersOK'
    BY <1>1, <2>4 DEF TakeResult, KeepStatus, WorkersOK, HoldersOK
  <2>7. HistoryOK'
    BY <1>1, FaultsType DEF TakeResult, HistoryOK
  <2> QED
    BY <2>5, <2>6, <2>7
<1>2. CASE ExecuteApproved
  <2> DEFINE b == [token |-> consumer.token, request |-> consumer.request]
  <2>1. b \in [token : 1..MaxApprovals, request : Requests]
    BY <1>2 DEF ExecuteApproved, WorkersOK, HoldersOK
  <2>2. batches' = Append(batches, b)
    BY <1>2 DEF ExecuteApproved
  <2> HIDE DEF b
  <2>3. HistoryOK'
    BY <1>2, <2>1, <2>2, AppendProperties DEF ExecuteApproved, HistoryOK
  <2>4. consumer' \in shape /\ holds
    <3>1. /\ consumer \in shape /\ consumer.pc = "execute"
          /\ ConsumerAt("find") \/ ConsumerAt("fail")
      BY <1>2 DEF ExecuteApproved, WorkersOK
    <3>2. /\ consumer' \in shape /\ consumer'.pc \in {"find", "fail"}
          /\ consumer'.key = consumer.key /\ consumer'.token = consumer.token
      BY <3>1, ConsumerAtType
    <3> QED
      BY <3>1, <3>2 DEF HoldersOK
  <2>5. RedisOK' /\ QueuesOK'
    BY <1>2 DEF ExecuteApproved, redis, RedisOK, QueuesOK
  <2>6. WorkersOK' /\ HoldersOK'
    BY <1>2, <2>4 DEF ExecuteApproved, redis, WorkersOK, HoldersOK
  <2> QED
    BY <2>3, <2>5, <2>6
<1>3. CASE FindPendingChange
  <2>1. NewestFor(consumer.key[1], consumer.key[2]) \in Requests \cup {None}
    BY <1>3, NewestForType DEF FindPendingChange, HoldersOK, Keys
  <2>2. consumer' \in shape /\ holds
    <3>1. /\ consumer \in shape /\ consumer.pc = "find"
          /\ consumer.key \in Keys /\ consumer.token # 0
      BY <1>3 DEF FindPendingChange, WorkersOK, HoldersOK
    <3>2. CASE ConsumerAt("fail")
      BY <3>1, <3>2, ConsumerAtType
    <3>3. CASE consumer' = [consumer EXCEPT !.pc = "remove",
                              !.item = NewestFor(consumer.key[1], consumer.key[2])]
      BY <2>1, <3>1, <3>3
    <3> QED
      BY <1>3, <3>2, <3>3 DEF FindPendingChange, FailHere
  <2>3. RedisOK' /\ QueuesOK'
    BY <1>3 DEF FindPendingChange, redis, RedisOK, QueuesOK
  <2>4. WorkersOK' /\ HoldersOK'
    BY <1>3, <2>2 DEF FindPendingChange, redis, WorkersOK, HoldersOK
  <2>5. HistoryOK'
    BY <1>3, FaultsType DEF FindPendingChange, FailHere, HistoryOK
  <2> QED
    BY <2>3, <2>4, <2>5
<1>4. CASE RemovePendingChange
  <2>1. pending' \in [Users -> Seq(Requests)]
    BY <1>4, RemoveFirstType DEF RemovePendingChange, RedisOK
  <2>2. consumer' \in shape /\ holds
    BY <1>4 DEF RemovePendingChange, FailHere, ConsumerAt, WorkersOK, HoldersOK
  <2>3. RedisOK' /\ QueuesOK'
    BY <1>4, <2>1 DEF RemovePendingChange, KeepStatus, RedisOK, QueuesOK
  <2>4. WorkersOK' /\ HoldersOK'
    BY <1>4, <2>2 DEF RemovePendingChange, KeepStatus, WorkersOK, HoldersOK
  <2>5. HistoryOK'
    BY <1>4, FaultsType DEF RemovePendingChange, FailHere, HistoryOK
  <2> QED
    BY <2>3, <2>4, <2>5
<1>5. CASE RemoveFromIndex
  <2>1. index' \in [Projects -> SUBSET Users]
    BY <1>5 DEF RemoveFromIndex, RedisOK
  <2>2. consumer' \in shape /\ holds
    BY <1>5 DEF RemoveFromIndex, FailHere, ConsumerAt, WorkersOK, HoldersOK
  <2>3. RedisOK' /\ QueuesOK'
    BY <1>5, <2>1 DEF RemoveFromIndex, KeepStatus, RedisOK, QueuesOK
  <2>4. WorkersOK' /\ HoldersOK'
    BY <1>5, <2>2 DEF RemoveFromIndex, KeepStatus, WorkersOK, HoldersOK
  <2>5. HistoryOK'
    BY <1>5, FaultsType DEF RemoveFromIndex, FailHere, HistoryOK
  <2> QED
    BY <2>3, <2>4, <2>5
<1>6. CASE FinishResult
  <2> DEFINE k == consumer.key
             outcome == CASE consumer.pc = "fail" -> "failed"
                          [] consumer.approved    -> "completed"
                          [] OTHER                -> "refused"
  <2>1. k[1] \in Users /\ k[2] \in Projects
    BY <1>6 DEF FinishResult, HoldersOK, Keys
  <2>2. outcome \in States
    BY DEF States, Final
  <2>3. SetUserProjectStatus(k[1], k[2], outcome) \/ KeepStatus
    BY <1>6 DEF FinishResult
  <2> HIDE DEF k, outcome
  <2>4. /\ status' \in [Users -> StatusRecord \cup {None}]
        /\ hsetEvents' \in Seq(Users)
        /\ \A v \in Users : status[v] # None => status'[v] # None
        /\ \A i \in DOMAIN hsetEvents' : status'[hsetEvents'[i]] # None
    BY <2>1, <2>2, <2>3, StatusType
  <2>5. consumer' \in shape /\ holds
    BY <1>6 DEF FinishResult, IdleConsumer
  <2>6. RedisOK' /\ QueuesOK'
    BY <1>6, <2>4 DEF FinishResult, RedisOK, QueuesOK
  <2>7. WorkersOK' /\ HoldersOK'
    BY <1>6, <2>4, <2>5 DEF FinishResult, WorkersOK, HoldersOK, Keys
  <2>8. HistoryOK'
    BY <1>6, FaultsType DEF FinishResult, HistoryOK
  <2> QED
    BY <2>6, <2>7, <2>8
<1> QED
  BY <1>1, <1>2, <1>3, <1>4, <1>5, <1>6 DEF ConsumerStep

LEMMA SuffixArithmetic ==
  ASSUME NEW l \in Nat, NEW n \in 0..l, NEW m,
         m = IF n + 1 <= l THEN l - (n + 1) + 1 ELSE 0
  PROVE  \A i \in 1..m : i \in 1..(l - (n + 1) + 1) /\ n + i \in 1..l /\ n + 1 + i - 1 = n + i
  OBVIOUS

\* What is left of a queue after a prefix of it is lost.
LEMMA SuffixType ==
  ASSUME NEW S, NEW q \in Seq(S), NEW n \in 0..Len(q)
  PROVE  /\ SubSeq(q, n + 1, Len(q)) \in Seq(S)
         /\ \A i \in DOMAIN SubSeq(q, n + 1, Len(q)) :
               n + i \in DOMAIN q /\ SubSeq(q, n + 1, Len(q))[i] = q[n + i]
<1> DEFINE t == SubSeq(q, n + 1, Len(q))
           l == Len(q)
<1>1. l \in Nat /\ DOMAIN q = 1..l /\ \A i \in (n + 1)..l : q[i] \in S
  BY LenProperties, ElementOfSeq
<1>2. /\ t \in Seq(S)
      /\ Len(t) = IF n + 1 <= l THEN l - (n + 1) + 1 ELSE 0
      /\ \A i \in 1..(l - (n + 1) + 1) : t[i] = q[n + 1 + i - 1]
  BY <1>1, SubSeqProperties
<1>3. n \in 0..l
  OBVIOUS
<1> HIDE DEF t, l
<1>4. DOMAIN t = 1..Len(t)
  BY <1>2, LenProperties
<1>5. \A i \in 1..Len(t) :
         i \in 1..(l - (n + 1) + 1) /\ n + i \in 1..l /\ n + 1 + i - 1 = n + i
  BY <1>1, <1>2, <1>3, SuffixArithmetic
<1>6. \A i \in DOMAIN t : n + i \in DOMAIN q /\ t[i] = q[n + i]
  BY <1>1, <1>2, <1>4, <1>5
<1> QED
  BY <1>2, <1>6 DEF t, l

LEMMA UnchangedWorkers ==
  ASSUME TypeInv, UNCHANGED <<status, workers, history, faults>>
  PROVE  WorkersOK' /\ HistoryOK' /\ HoldersOK'
<1>1. WorkersOK'
  BY DEF TypeInv, TypeOK, WorkersOK, workers
<1>2. HistoryOK'
  BY DEF TypeInv, TypeOK, HistoryOK, history
<1>3. HoldersOK'
  BY DEF TypeInv, HoldersOK, workers
<1> QED
  BY <1>1, <1>2, <1>3

LEMMA EnvironmentTypeInv ==
  ASSUME TypeInv,
         \/ Restart
         \/ \E u \in Users : ExpirePending(u)
         \/ \E k \in Keys : ExpirePayload(k)
  PROVE  TypeInv'
<1> USE ConstantsAssumption DEF TypeInv, TypeOK
<1>1. CASE Restart
  <2>1. apQueue \in Seq(Verdict) /\ psQueue \in Seq(Keys) /\ coQueue \in Seq(Verdict)
    BY DEF QueuesOK
  <2>2. apQueue' \in Seq(Verdict) /\ psQueue' \in Seq(Keys) /\ coQueue' \in Seq(Verdict)
    <3>1. PICK n \in 0..Len(apQueue) : apQueue' = SubSeq(apQueue, n + 1, Len(apQueue))
      BY <1>1 DEF Restart
    <3>2. PICK m \in 0..Len(psQueue) : psQueue' = SubSeq(psQueue, m + 1, Len(psQueue))
      BY <1>1 DEF Restart
    <3>3. PICK l \in 0..Len(coQueue) : coQueue' = SubSeq(coQueue, l + 1, Len(coQueue))
      BY <1>1 DEF Restart
    <3> QED
      BY <2>1, <3>1, <3>2, <3>3, SuffixType
  <2>3. notices' \in Seq(Keys) /\ hsetEvents' \in Seq(Users)
    BY <1>1 DEF Restart
  <2>8. QueuesOK'
    BY <2>2, <2>3 DEF QueuesOK
  <2>4. submitPc' \in [Requests -> SubmitStates]
    BY <1>1 DEF Restart, WorkersOK, SubmitStates
  <2>5. WorkersOK'
    BY <1>1, <2>4 DEF Restart, WorkersOK, IdleListener, IdlePreStore, IdleCoordinator,
                      IdleConsumer
  <2>6. RedisOK'
    BY <1>1 DEF Restart, redis, RedisOK
  <2>9. HistoryOK'
    <3>1. crashes' \in 0..MaxCrashes /\ UNCHANGED <<grants, batches, faults>>
      BY <1>1 DEF Restart, HistoryOK
    <3> QED
      BY <3>1 DEF HistoryOK
  <2>7. HoldersOK'
    BY <1>1 DEF Restart, HoldersOK, IdleListener, IdlePreStore, IdleCoordinator,
                IdleConsumer
  <2> QED
    BY <2>5, <2>6, <2>7, <2>8, <2>9
<1>2. CASE \E u \in Users : ExpirePending(u)
  <2>1. pending' \in [Users -> Seq(Requests)]
    BY <1>2 DEF ExpirePending, RedisOK
  <2>2. UNCHANGED <<status, index, payload, queues, workers, history, faults>>
    BY <1>2 DEF ExpirePending
  <2>3. RedisOK' /\ QueuesOK'
    BY <2>1, <2>2 DEF RedisOK, QueuesOK, queues, workers
  <2>4. WorkersOK' /\ HistoryOK' /\ HoldersOK'
    BY <2>2, UnchangedWorkers
  <2> QED
    BY <2>3, <2>4
<1>3. CASE \E k \in Keys : ExpirePayload(k)
  <2>1. payload' \in [Keys -> Requests \cup {None}]
    BY <1>3 DEF ExpirePayload, RedisOK
  <2>2. UNCHANGED <<pending, status, index, queues, workers, history, faults>>
    BY <1>3 DEF ExpirePayload
  <2>3. RedisOK' /\ QueuesOK'
    BY <2>1, <2>2 DEF RedisOK, QueuesOK, queues, workers
  <2>4. WorkersOK' /\ HistoryOK' /\ HoldersOK'
    BY <2>2, UnchangedWorkers
  <2> QED
    BY <2>3, <2>4
<1> QED
  BY <1>1, <1>2, <1>3

LEMMA NextTypeInv == TypeInv /\ [Next]_vars => TypeInv'
<1> SUFFICES ASSUME TypeInv, [Next]_vars PROVE TypeInv'
  OBVIOUS
<1>1. ASSUME NEW r \in Requests, CheckConflict(r) \/ SubmitStep(r) PROVE TypeInv'
  BY <1>1, SubmitTypeInv
<1>2. CASE ListenerStep
  BY <1>2, ListenerTypeInv
<1>3. CASE PreStoreStep
  BY <1>3, PreStoreTypeInv
<1>4. ASSUME NEW k \in Keys, ApproveChange(k) \/ RefuseChange(k) PROVE TypeInv'
  BY <1>4, VerdictTypeInv DEF ApproveChange, RefuseChange
<1>5. CASE CoordinatorStep
  BY <1>5, CoordinatorTypeInv
<1>6. CASE (\E k \in Keys : FindExpired(k)) \/ DeleteExpired
  BY <1>6, CleanupTypeInv
<1>7. CASE ConsumerStep
  BY <1>7, ConsumerTypeInv
<1>8. CASE \/ Restart
           \/ \E u \in Users : ExpirePending(u)
           \/ \E k \in Keys : ExpirePayload(k)
  BY <1>8, EnvironmentTypeInv
<1>9. CASE UNCHANGED vars
  BY <1>9 DEF vars, redis, queues, workers, history, TypeInv, TypeOK, RedisOK, QueuesOK,
              WorkersOK, HistoryOK, HoldersOK
<1> QED
  BY <1>1, <1>2, <1>3, <1>4, <1>5, <1>6, <1>7, <1>8, <1>9 DEF Next

\* In every state of every behaviour, whatever calls fail, whatever is lost in
\* a restart and whenever keys expire, the variables have their types: no
\* worker of the approval pipeline goes on without a pair, a verdict or a
\* request (the nil checks of handlePendingUpdate, checkAndTransition and
\* onApproved are all that is needed).
THEOREM TypeCorrect == Spec => []TypeOK
<1>1. TypeInv /\ [Next]_vars => TypeInv'
  BY NextTypeInv
<1>2. Init => TypeInv
  BY InitTypeInv
<1>3. TypeInv => TypeOK
  BY DEF TypeInv
<1> QED
  BY <1>1, <1>2, <1>3, PTL DEF Spec

-----------------------------------------------------------------------------
(* The inductive invariant.  OneExecutionPerApproval and                   *)
(* ExecutionsAreApproved are not inductive: what makes them hold is that a *)
(* verdict is in one place at a time.  It waits in approval_result_queue,  *)
(* or is held by the coordinator, or waits in consumer_queue, or is being  *)
(* executed, or was executed; and wherever it is, it says what was granted.*)

InQueue(q, t) == \E i \in DOMAIN q : q[i].token = t
OncePerToken(q) == \A i, j \in DOMAIN q : q[i].token = q[j].token => i = j

InEntry(t) == \E k \in Keys : /\ registry[k] # None
                              /\ registry[k].approvalRecv
                              /\ registry[k].token = t
Held(t) == InEntry(t) \/ (coordinator.pc # "idle" /\ coordinator.token = t)
Executing(t) == consumer.pc = "execute" /\ consumer.token = t

OnePlace ==
  /\ OncePerToken(apQueue) /\ OncePerToken(coQueue) /\ OncePerToken(batches)
  /\ \A t \in 1..MaxApprovals :
       /\ InQueue(apQueue, t) => ~(Held(t) \/ InQueue(coQueue, t) \/ Executing(t)
                                           \/ InQueue(batches, t))
       /\ Held(t) => ~(InQueue(coQueue, t) \/ Executing(t) \/ InQueue(batches, t))
       /\ InQueue(coQueue, t) => ~(Executing(t) \/ InQueue(batches, t))
       /\ Executing(t) => ~InQueue(batches, t)

\* The grant of token t was verdict a on pair k.
Granted(k, a, t) == t \in DOMAIN grants /\ grants[t].key = k /\ grants[t].approved = a

SaysWhatWasGranted ==
  /\ \A i \in DOMAIN apQueue :
        Granted(apQueue[i].key, apQueue[i].approved, apQueue[i].token)
  /\ \A i \in DOMAIN coQueue :
        Granted(coQueue[i].key, coQueue[i].approved, coQueue[i].token)
  /\ \A k \in Keys : registry[k] # None /\ registry[k].approvalRecv
                       => Granted(k, registry[k].approved, registry[k].token)
  /\ coordinator.pc # "idle" =>
        Granted(coordinator.key, coordinator.approved, coordinator.token)
  /\ consumer.pc = "execute" => Granted(consumer.key, TRUE, consumer.token)

\* Whatever lies at a user's or a pair's key is a request of that user or pair.
OwnRequests ==
  /\ \A u \in Users : pending[u] \in Seq({r \in Requests : OwnerOf[r] = u})
  /\ \A k \in Keys : payload[k] # None => Key(payload[k]) = k
  /\ preStore.pc # "idle" => Key(preStore.request) = preStore.key
  /\ consumer.pc = "execute" => Key(consumer.request) = consumer.key

ApprovalInv == OnePlace /\ SaysWhatWasGranted /\ OwnRequests /\ ExecutionsAreApproved

Inv == TypeInv /\ ApprovalInv

-----------------------------------------------------------------------------
(* Lemmas about queues of verdicts.                                        *)

LEMMA InAppended ==
  ASSUME NEW S, NEW q \in Seq(S), NEW m \in S, NEW t
  PROVE  InQueue(Append(q, m), t) <=> InQueue(q, t) \/ m.token = t
<1> DEFINE r == Append(q, m)
<1>1. /\ DOMAIN q = 1..Len(q) /\ DOMAIN r = 1..(Len(q) + 1) /\ Len(q) \in Nat
      /\ \A i \in 1..Len(q) : r[i] = q[i]
      /\ r[Len(q) + 1] = m
  BY AppendProperties, LenProperties
<1> HIDE DEF r
<1>2. InQueue(r, t) <=> InQueue(q, t) \/ m.token = t
  BY <1>1 DEF InQueue
<1> QED
  BY <1>2 DEF r

LEMMA OnceAppended ==
  ASSUME NEW S, NEW q \in Seq(S), NEW m \in S, OncePerToken(q), ~InQueue(q, m.token)
  PROVE  OncePerToken(Append(q, m))
<1> DEFINE r == Append(q, m)
<1>1. /\ DOMAIN q = 1..Len(q) /\ DOMAIN r = 1..(Len(q) + 1) /\ Len(q) \in Nat
      /\ \A i \in 1..Len(q) : r[i] = q[i]
      /\ r[Len(q) + 1] = m
  BY AppendProperties, LenProperties
<1> HIDE DEF r
<1>2. ASSUME NEW i \in DOMAIN r, NEW j \in DOMAIN r, r[i].token = r[j].token
      PROVE  i = j
  BY <1>1, <1>2 DEF InQueue, OncePerToken
<1>3. OncePerToken(r)
  BY <1>2 DEF OncePerToken
<1> QED
  BY <1>3 DEF r

\* The queue r is what is left of q without its first n elements.
Rest(q, r, n) ==
  /\ n \in Nat /\ DOMAIN r \subseteq Nat
  /\ \A i \in DOMAIN r : n + i \in DOMAIN q /\ r[i] = q[n + i]

LEMMA FromQueue ==
  ASSUME NEW q, NEW r, NEW n, Rest(q, r, n)
  PROVE  /\ \A t : InQueue(r, t) => InQueue(q, t)
         /\ OncePerToken(q) => OncePerToken(r)
<1>1. \A t : InQueue(r, t) => InQueue(q, t)
  BY DEF InQueue, Rest
<1>2. ASSUME OncePerToken(q), NEW i \in DOMAIN r, NEW j \in DOMAIN r, r[i].token = r[j].token
      PROVE  i = j
  <2>1. n + i = n + j
    BY <1>2 DEF OncePerToken, Rest
  <2> QED
    BY <2>1 DEF Rest
<1> QED
  BY <1>1, <1>2 DEF OncePerToken

LEMMA AfterHead ==
  ASSUME NEW S, NEW q \in Seq(S), q # << >>
  PROVE  /\ InQueue(q, Head(q).token)
         /\ \A t : InQueue(Tail(q), t) => InQueue(q, t)
         /\ OncePerToken(q) => /\ OncePerToken(Tail(q))
                               /\ ~InQueue(Tail(q), Head(q).token)
<1> DEFINE r == Tail(q)
           h == Head(q)
<1>1. /\ Len(q) \in Nat \ {0} /\ DOMAIN q = 1..Len(q) /\ h = q[1]
      /\ DOMAIN r = 1..(Len(q) - 1) /\ \A i \in DOMAIN r : r[i] = q[i + 1]
  BY HeadTailProperties, LenProperties, EmptySeq
<1> HIDE DEF r, h
<1>2. DOMAIN r \subseteq Nat /\ \A i \in DOMAIN r : 1 + i \in DOMAIN q /\ r[i] = q[1 + i]
  BY <1>1
<1>3. /\ \A t : InQueue(r, t) => InQueue(q, t)
      /\ OncePerToken(q) => OncePerToken(r)
  BY <1>2, FromQueue DEF Rest
<1>4. InQueue(q, h.token)
  BY <1>1 DEF InQueue
<1>5. ASSUME OncePerToken(q), NEW i \in DOMAIN r, r[i].token = h.token PROVE FALSE
  BY <1>1, <1>2, <1>5 DEF OncePerToken
<1> QED
  BY <1>3, <1>4, <1>5 DEF r, h, InQueue

LEMMA AfterLoss ==
  ASSUME NEW S, NEW q \in Seq(S), NEW n \in 0..Len(q), NEW r,
         r = SubSeq(q, n + 1, Len(q))
  PROVE  /\ \A t : InQueue(r, t) => InQueue(q, t)
         /\ OncePerToken(q) => OncePerToken(r)
<1>1. \A i \in DOMAIN r : n + i \in DOMAIN q /\ r[i] = q[n + i]
  BY SuffixType
<1>2. DOMAIN r \subseteq Nat
  <2>1. r \in Seq(S)
    BY SuffixType
  <2> QED
    BY <2>1, LenProperties
<1>3. n \in Nat
  BY LenProperties
<1>4. Rest(q, r, n)
  BY <1>1, <1>2, <1>3 DEF Rest
<1> QED
  BY <1>4, FromQueue

-----------------------------------------------------------------------------
(* Initially no verdict is anywhere.                                       *)

LEMMA InitInv == Init => Inv
<1> SUFFICES ASSUME Init PROVE Inv
  OBVIOUS
<1> USE DEF Init, IdleCoordinator, IdleConsumer, IdlePreStore
<1>1. TypeInv
  BY InitTypeInv
<1>2. OnePlace
  BY DEF OnePlace, OncePerToken, InQueue, Held, InEntry, Executing
<1>3. SaysWhatWasGranted /\ ExecutionsAreApproved
  BY DEF SaysWhatWasGranted, ExecutionsAreApproved
<1>4. OwnRequests
  BY DEF OwnRequests
<1> QED
  BY <1>1, <1>2, <1>3, <1>4 DEF Inv, ApprovalInv

-----------------------------------------------------------------------------
(* OnePlace, SaysWhatWasGranted and ExecutionsAreApproved: the verdicts.   *)

VerdictInv == OnePlace /\ SaysWhatWasGranted /\ ExecutionsAreApproved

\* A token that is granted is an index of grants.
LEMMA TokenRange ==
  ASSUME Inv
  PROVE  /\ apQueue \in Seq(Verdict) /\ coQueue \in Seq(Verdict)
         /\ batches \in Seq([token : 1..MaxApprovals, request : Requests])
         /\ DOMAIN grants = 1..Len(grants) /\ Len(grants) \in 0..MaxApprovals
         /\ \A k, a, t : Granted(k, a, t) => t \in 1..MaxApprovals
<1>1. /\ apQueue \in Seq(Verdict) /\ coQueue \in Seq(Verdict)
      /\ batches \in Seq([token : 1..MaxApprovals, request : Requests])
      /\ grants \in Seq([key : Keys, approved : BOOLEAN, listed : SUBSET Requests])
      /\ Len(grants) <= MaxApprovals
  BY DEF Inv, TypeInv, TypeOK, QueuesOK, HistoryOK
<1>2. DOMAIN grants = 1..Len(grants) /\ Len(grants) \in Nat
  BY <1>1, LenProperties
<1> QED
  BY <1>1, <1>2, ConstantsAssumption DEF Granted

\* Steps that leave the verdicts where they are, and may lose some of them.
LEMMA QuietVerdicts ==
  ASSUME Inv, UNCHANGED <<apQueue, coQueue, coordinator, grants, batches>>,
         \A k \in Keys : registry'[k] # None => registry'[k] = registry[k],
         consumer'.pc = "execute" => consumer' = consumer
  PROVE  VerdictInv'
<1> USE DEF Inv, ApprovalInv
<1>1. \A t : InEntry(t)' => InEntry(t)
  BY DEF InEntry
<1>2. \A t : Held(t)' => Held(t)
  BY <1>1 DEF Held
<1>3. \A t : Executing(t)' => Executing(t)
  BY DEF Executing
<1>4. OnePlace'
  BY <1>2, <1>3 DEF OnePlace, OncePerToken, InQueue
<1>5. SaysWhatWasGranted'
  BY DEF SaysWhatWasGranted, Granted
<1>6. ExecutionsAreApproved'
  BY DEF ExecutionsAreApproved
<1> QED
  BY <1>4, <1>5, <1>6 DEF VerdictInv

\* The new verdict has a token that no other place can have: it is beyond
\* what was granted so far.
LEMMA SendVerdictInv ==
  ASSUME Inv, NEW k \in Keys, NEW a \in BOOLEAN, SendVerdict(k, a)
  PROVE  VerdictInv'
<1> DEFINE shown == {r \in ListedRequests(k[2]) : OwnerOf[r] = k[1]}
           grant == [key |-> k, approved |-> a, listed |-> shown]
           n == Len(grants) + 1
           m == [key |-> k, approved |-> a, token |-> n]
<1>1. /\ apQueue \in Seq(Verdict) /\ m \in Verdict /\ n \in 1..MaxApprovals
      /\ DOMAIN grants = 1..Len(grants) /\ Len(grants) \in Nat
  BY TokenRange, ConstantsAssumption DEF SendVerdict, Verdict
<1>2. /\ apQueue' = Append(apQueue, m) /\ grants' = Append(grants, grant)
      /\ UNCHANGED <<coQueue, registry, coordinator, consumer, batches>>
  BY DEF SendVerdict, workers
<1>3. /\ n \in DOMAIN grants' /\ grants'[n].key = k /\ grants'[n].approved = a
      /\ \A t \in DOMAIN grants : t \in DOMAIN grants' /\ grants'[t] = grants[t] /\ t # n
  <2>1. grants \in Seq([key : Keys, approved : BOOLEAN, listed : SUBSET Requests])
    BY DEF Inv, TypeInv, TypeOK, HistoryOK
  <2>2. grant \in [key : Keys, approved : BOOLEAN, listed : SUBSET Requests]
    BY DEF ListedRequests, IndexedRequests
  <2>3. grant.key = k /\ grant.approved = a
    OBVIOUS
  <2> HIDE DEF grant
  <2>4. /\ DOMAIN grants' = 1..n /\ grants'[n] = grant
        /\ \A t \in 1..Len(grants) : grants'[t] = grants[t]
    BY <1>2, <2>1, <2>2, AppendProperties, LenProperties
  <2>5. \A t \in DOMAIN grants : t \in DOMAIN grants' /\ grants'[t] = grants[t] /\ t # n
    BY <1>1, <2>4
  <2>6. n \in DOMAIN grants' /\ grants'[n].key = k /\ grants'[n].approved = a
    BY <1>1, <2>3, <2>4
  <2> QED
    BY <2>5, <2>6
<1> HIDE DEF grant, m, n
<1>4. m.token = n /\ m.key = k /\ m.approved = a
  BY DEF m
<1>5. /\ ~InQueue(apQueue, n) /\ ~Held(n) /\ ~InQueue(coQueue, n) /\ ~Executing(n)
      /\ ~InQueue(batches, n)
  <2>1. ~Held(n) /\ ~Executing(n)
    BY <1>3 DEF Inv, ApprovalInv, SaysWhatWasGranted, Held, InEntry, Executing, Granted
  <2>2. ~InQueue(apQueue, n) /\ ~InQueue(coQueue, n)
    BY <1>3 DEF Inv, ApprovalInv, SaysWhatWasGranted, InQueue, Granted
  <2>3. ~InQueue(batches, n)
    BY <1>3 DEF Inv, ApprovalInv, ExecutionsAreApproved, InQueue
  <2> QED
    BY <2>1, <2>2, <2>3
<1>6. OnePlace'
  <2>1. \A t : InQueue(apQueue', t) <=> InQueue(apQueue, t) \/ t = n
    BY <1>1, <1>2, <1>4, InAppended
  <2>2. OncePerToken(apQueue')
    BY <1>1, <1>2, <1>4, <1>5, OnceAppended DEF Inv, ApprovalInv, OnePlace
  <2>3. \A t : /\ Held(t)' <=> Held(t)
               /\ Executing(t)' <=> Executing(t)
    BY <1>2 DEF Held, InEntry, Executing
  <2> QED
    BY <1>2, <1>5, <2>1, <2>2, <2>3 DEF Inv, ApprovalInv, OnePlace
<1>7. SaysWhatWasGranted'
  <2>1. ASSUME NEW i \in DOMAIN apQueue'
        PROVE  Granted(apQueue[i].key, apQueue[i].approved, apQueue[i].token)'
    <3>1. /\ DOMAIN apQueue = 1..Len(apQueue) /\ DOMAIN apQueue' = 1..(Len(apQueue) + 1)
          /\ \A j \in 1..Len(apQueue) : apQueue'[j] = apQueue[j]
          /\ apQueue'[Len(apQueue) + 1] = m /\ Len(apQueue) \in Nat
      BY <1>1, <1>2, AppendProperties, LenProperties
    <3>2. CASE i \in DOMAIN apQueue
      BY <1>3, <3>1, <3>2 DEF Inv, ApprovalInv, SaysWhatWasGranted, Granted
    <3>3. CASE i = Len(apQueue) + 1
      BY <1>3, <1>4, <3>1, <3>3 DEF Granted
    <3> QED
      BY <3>1, <3>2, <3>3
  <2> QED
    BY <1>2, <1>3, <2>1 DEF Inv, ApprovalInv, SaysWhatWasGranted, Granted
<1>8. ExecutionsAreApproved'
  BY <1>2, <1>3 DEF Inv, ApprovalInv, ExecutionsAreApproved
<1> QED
  BY <1>6, <1>7, <1>8 DEF VerdictInv

\* Storing an entry puts its token in the registry and, when the entry is
\* complete, in the hands of the coordinator.
LEMMA StoreAndCheckHeld ==
  ASSUME Inv, NEW k \in Keys, NEW e \in Entry, StoreAndCheck(k, e),
         e.approvalRecv => Granted(k, e.approved, e.token)
  PROVE  /\ \A t : Held(t)' => InEntry(t) \/ (e.approvalRecv /\ e.token = t)
         /\ \A j \in Keys : registry'[j] # None /\ registry'[j].approvalRecv
                              => Granted(j, registry'[j].approved, registry'[j].token)
         /\ coordinator'.pc # "idle" =>
               Granted(coordinator'.key, coordinator'.approved, coordinator'.token)
<1>1. registry \in [Keys -> Entry \cup {None}]
  BY DEF Inv, TypeInv, TypeOK, WorkersOK
<1>2. /\ registry'[k] = e
      /\ \A j \in Keys : j # k => registry'[j] = registry[j]
  BY <1>1 DEF StoreAndCheck
<1>3. coordinator'.pc # "idle" =>
        /\ e.approvalRecv /\ coordinator'.key = k
        /\ coordinator'.approved = e.approved /\ coordinator'.token = e.token
  <2>1. CASE e.approvalRecv /\ e.preStorageRecv
    BY <2>1 DEF StoreAndCheck
  <2>2. CASE ~(e.approvalRecv /\ e.preStorageRecv)
    BY <2>2 DEF StoreAndCheck, IdleCoordinator
  <2> QED
    BY <2>1, <2>2
<1>4. \A t : InEntry(t)' => InEntry(t) \/ (e.approvalRecv /\ e.token = t)
  BY <1>2 DEF InEntry
<1>5. \A t : Held(t)' => InEntry(t) \/ (e.approvalRecv /\ e.token = t)
  BY <1>3, <1>4 DEF Held
<1>6. \A j \in Keys : registry'[j] # None /\ registry'[j].approvalRecv
                        => Granted(j, registry'[j].approved, registry'[j].token)
  BY <1>2 DEF Inv, ApprovalInv, SaysWhatWasGranted
<1> QED
  BY <1>3, <1>5, <1>6

LEMMA HandleApprovalInv ==
  ASSUME Inv, HandleApprovalMessage
  PROVE  VerdictInv'
<1> USE DEF Inv, ApprovalInv
<1> DEFINE m == Head(apQueue)
           e == Recorded(Stored(m.key), m)
<1>1. /\ apQueue \in Seq(Verdict) /\ apQueue # << >> /\ apQueue' = Tail(apQueue)
      /\ UNCHANGED <<coQueue, consumer, grants, batches>>
  BY TokenRange DEF HandleApprovalMessage, CoordinatorFrame, history
<1>2. /\ m \in Verdict /\ m.key \in Keys /\ m.token \in 1..MaxApprovals
  <2>1. m \in Verdict
    BY <1>1, HeadTailProperties
  <2> QED
    BY <2>1 DEF Verdict
<1>3. Granted(m.key, m.approved, m.token)
  BY <1>1, LenProperties, EmptySeq, HeadTailProperties DEF SaysWhatWasGranted
<1>4. e \in Entry /\ e.approvalRecv /\ e.approved = m.approved /\ e.token = m.token
  BY <1>2, StoredType, RecordedType DEF Recorded
<1>5. StoreAndCheck(m.key, e)
  BY DEF HandleApprovalMessage
<1>6. /\ InQueue(apQueue, m.token)
      /\ \A t : InQueue(apQueue', t) => InQueue(apQueue, t) /\ t # m.token
      /\ OncePerToken(apQueue')
  BY <1>1, AfterHead DEF OnePlace
<1> HIDE DEF m, e
<1>7. /\ \A t : Held(t)' => InEntry(t) \/ t = m.token
      /\ \A j \in Keys : registry'[j] # None /\ registry'[j].approvalRecv
                           => Granted(j, registry'[j].approved, registry'[j].token)
      /\ coordinator'.pc # "idle" =>
            Granted(coordinator'.key, coordinator'.approved, coordinator'.token)
  BY <1>2, <1>3, <1>4, <1>5, StoreAndCheckHeld
<1>8. OnePlace'
  <2>1. \A t : Executing(t)' <=> Executing(t)
    BY <1>1 DEF Executing
  <2>2. \A t : Held(t)' => Held(t) \/ t = m.token
    BY <1>7 DEF Held
  <2> QED
    BY <1>1, <1>2, <1>6, <2>1, <2>2 DEF OnePlace
<1>9. SaysWhatWasGranted'
  <2>1. ASSUME NEW i \in DOMAIN apQueue'
        PROVE  Granted(apQueue'[i].key, apQueue'[i].approved, apQueue'[i].token)
    BY <1>1, HeadTailProperties, LenProperties DEF SaysWhatWasGranted
  <2> QED
    BY <1>1, <1>7, <2>1 DEF SaysWhatWasGranted, Granted
<1>10. ExecutionsAreApproved'
  BY <1>1 DEF ExecutionsAreApproved
<1> QED
  BY <1>8, <1>9, <1>10 DEF VerdictInv

LEMMA HandlePreStorageInv ==
  ASSUME Inv, HandlePreStorageMessage
  PROVE  VerdictInv'
<1> USE DEF Inv, ApprovalInv
<1> DEFINE k == Head(psQueue)
           e == [Stored(k) EXCEPT !.preStorageRecv = TRUE]
<1>1. UNCHANGED <<apQueue, coQueue, consumer, grants, batches>>
  BY DEF HandlePreStorageMessage, CoordinatorFrame, history
<1>2. k \in Keys
  BY HeadTailProperties DEF HandlePreStorageMessage, TypeInv, TypeOK, QueuesOK
<1>3. Stored(k) \in Entry
  BY <1>2, StoredType
<1>4. /\ e \in Entry /\ e.approvalRecv = Stored(k).approvalRecv
      /\ e.approved = Stored(k).approved /\ e.token = Stored(k).token
  BY <1>3 DEF Entry
<1>5. StoreAndCheck(k, e)
  BY DEF HandlePreStorageMessage
<1> HIDE DEF k, e
<1>6. e.approvalRecv => /\ Granted(k, e.approved, e.token)
                        /\ InEntry(e.token)
  <2>1. CASE registry[k] = None
    BY <1>4, <2>1 DEF Stored, NewEntry
  <2>2. CASE registry[k] # None
    BY <1>2, <1>4, <2>2 DEF Stored, SaysWhatWasGranted, InEntry
  <2> QED
    BY <2>1, <2>2
<1>7. /\ \A t : Held(t)' => InEntry(t) \/ (e.approvalRecv /\ e.token = t)
      /\ \A j \in Keys : registry'[j] # None /\ registry'[j].approvalRecv
                           => Granted(j, registry'[j].approved, registry'[j].token)
      /\ coordinator'.pc # "idle" =>
            Granted(coordinator'.key, coordinator'.approved, coordinator'.token)
  BY <1>2, <1>4, <1>5, <1>6, StoreAndCheckHeld
<1>8. OnePlace'
  <2>1. \A t : Executing(t)' <=> Executing(t)
    BY <1>1 DEF Executing
  <2>2. \A t : Held(t)' => Held(t)
    BY <1>6, <1>7 DEF Held
  <2> QED
    BY <1>1, <2>1, <2>2 DEF OnePlace
<1>9. SaysWhatWasGranted' /\ ExecutionsAreApproved'
  BY <1>1, <1>7 DEF SaysWhatWasGranted, ExecutionsAreApproved, Granted
<1> QED
  BY <1>8, <1>9 DEF VerdictInv

LEMMA CheckAndTransitionInv ==
  ASSUME Inv, CheckAndTransition
  PROVE  VerdictInv'
<1> USE DEF Inv, ApprovalInv
<1>1. UNCHANGED <<apQueue, coQueue, registry, consumer, grants, batches>>
  BY DEF CheckAndTransition, CoordinatorFrame, queues, history
<1>2. coordinator'.pc # "idle" =>
        /\ coordinator.pc # "idle" /\ coordinator'.key = coordinator.key
        /\ coordinator'.approved = coordinator.approved
        /\ coordinator'.token = coordinator.token
  BY DEF CheckAndTransition, IdleCoordinator, TypeInv, TypeOK, WorkersOK
<1>3. \A t : /\ Held(t)' => Held(t)
             /\ Executing(t)' <=> Executing(t)
  BY <1>1, <1>2 DEF Held, InEntry, Executing
<1>4. OnePlace'
  BY <1>1, <1>3 DEF OnePlace
<1>5. SaysWhatWasGranted' /\ ExecutionsAreApproved'
  BY <1>1, <1>2 DEF SaysWhatWasGranted, ExecutionsAreApproved, Granted
<1> QED
  BY <1>4, <1>5 DEF VerdictInv

\* The token moves on to consumer_queue, and no entry keeps it: the one of the
\* pair is deleted, and the entries of other pairs have tokens granted to
\* other pairs.
LEMMA NotifyConsumerInv ==
  ASSUME Inv, NotifyConsumerCoordinator
  PROVE  VerdictInv'
<1> USE DEF Inv, ApprovalInv
<1> DEFINE m == [key |-> coordinator.key, approved |-> coordinator.approved,
                 token |-> coordinator.token]
<1>1. /\ UNCHANGED <<apQueue, consumer, grants, batches>>
      /\ coordinator' = IdleCoordinator /\ coordinator.pc # "idle"
  BY DEF NotifyConsumerCoordinator, CoordinatorFrame, history
<1>2. CASE UNCHANGED <<coQueue, registry>>
  <2>1. \A t : /\ Held(t)' => Held(t)
               /\ Executing(t)' <=> Executing(t)
    BY <1>1, <1>2 DEF Held, InEntry, Executing, IdleCoordinator
  <2>2. OnePlace'
    BY <1>1, <1>2, <2>1 DEF OnePlace
  <2>3. SaysWhatWasGranted' /\ ExecutionsAreApproved'
    BY <1>1, <1>2 DEF SaysWhatWasGranted, ExecutionsAreApproved, Granted, IdleCoordinator
  <2> QED
    BY <2>2, <2>3 DEF VerdictInv
<1>3. CASE coQueue' = Append(coQueue, m) /\ registry' = WithoutEntry(coordinator.key)
  <2>1. /\ coQueue \in Seq(Verdict) /\ m \in Verdict
        /\ m.token \in 1..MaxApprovals /\ Granted(m.key, m.approved, m.token)
        /\ m.key = coordinator.key /\ m.token = coordinator.token
    BY <1>1, TokenRange DEF TypeInv, TypeOK, WorkersOK, HoldersOK, Verdict, SaysWhatWasGranted
  <2> HIDE DEF m
  <2>2. /\ registry'[m.key] = None
        /\ \A j \in Keys : j # m.key => registry'[j] = registry[j]
    BY <1>3, <2>1 DEF WithoutEntry, TypeInv, TypeOK, WorkersOK, Verdict
  <2>3. \A t : Held(t)' => Held(t) /\ t # m.token
    <3>1. ASSUME NEW t, InEntry(t)' PROVE InEntry(t) /\ t # m.token
      <4>1. PICK j \in Keys : registry'[j] # None /\ registry'[j].approvalRecv
                              /\ registry'[j].token = t
        BY <3>1 DEF InEntry
      <4>2. j # m.key /\ registry'[j] = registry[j]
        BY <2>2, <4>1
      <4>3. grants[t].key = j
        BY <4>1, <4>2 DEF SaysWhatWasGranted, Granted
      <4>4. grants[m.token].key = m.key
        BY <2>1 DEF Granted
      <4> QED
        BY <4>1, <4>2, <4>3, <4>4 DEF InEntry
    <3>2. coordinator'.pc = "idle"
      BY <1>1 DEF IdleCoordinator
    <3> QED
      BY <3>1, <3>2 DEF Held
  <2>4. Held(m.token) /\ \A t : Executing(t)' <=> Executing(t)
    BY <1>1, <2>1 DEF Held, Executing
  <2>5. \A t : InQueue(coQueue', t) <=> InQueue(coQueue, t) \/ m.token = t
    BY <1>3, <2>1, InAppended
  <2>6. OncePerToken(coQueue')
    BY <1>3, <2>1, <2>4, OnceAppended DEF OnePlace
  <2>7. OnePlace'
    BY <1>1, <2>1, <2>3, <2>4, <2>5, <2>6 DEF OnePlace
  <2>8. ASSUME NEW i \in DOMAIN coQueue'
        PROVE  Granted(coQueue'[i].key, coQueue'[i].approved, coQueue'[i].token)
    <3>1. /\ DOMAIN coQueue = 1..Len(coQueue) /\ DOMAIN coQueue' = 1..(Len(coQueue) + 1)
          /\ \A j \in 1..Len(coQueue) : coQueue'[j] = coQueue[j]
          /\ coQueue'[Len(coQueue) + 1] = m /\ Len(coQueue) \in Nat
      BY <1>3, <2>1, AppendProperties, LenProperties
    <3>2. CASE i \in DOMAIN coQueue
      BY <3>1, <3>2 DEF SaysWhatWasGranted
    <3>3. CASE i = Len(coQueue) + 1
      BY <2>1, <3>1, <3>3
    <3> QED
      BY <3>1, <3>2, <3>3
  <2>9. SaysWhatWasGranted' /\ ExecutionsAreApproved'
    BY <1>1, <2>2, <2>8
       DEF SaysWhatWasGranted, ExecutionsAreApproved, Granted, IdleCoordinator
  <2> QED
    BY <2>7, <2>9 DEF VerdictInv
<1> QED
  BY <1>2, <1>3 DEF NotifyConsumerCoordinator

\* The token of the message taken is the one that is being executed.
LEMMA TakeResultInv ==
  ASSUME Inv, TakeResult
  PROVE  VerdictInv'
<1> USE DEF Inv, ApprovalInv
<1> DEFINE m == Head(coQueue)
<1>1. /\ coQueue \in Seq(Verdict) /\ coQueue # << >> /\ coQueue' = Tail(coQueue)
      /\ UNCHANGED <<apQueue, registry, coordinator, grants, batches>>
      /\ consumer.pc = "idle"
  BY TokenRange DEF TakeResult, ConsumerFrame
<1>2. m \in Verdict
  BY <1>1, HeadTailProperties
<1>3. Granted(m.key, m.approved, m.token)
  BY <1>1, LenProperties, EmptySeq, HeadTailProperties DEF SaysWhatWasGranted
<1>4. consumer'.pc = "execute" =>
        m.approved = TRUE /\ consumer'.key = m.key /\ consumer'.token = m.token
  BY <1>2 DEF TakeResult, AfterTake, Verdict
<1>5. /\ InQueue(coQueue, m.token)
      /\ \A t : InQueue(coQueue', t) => InQueue(coQueue, t) /\ t # m.token
      /\ OncePerToken(coQueue')
  BY <1>1, AfterHead DEF OnePlace
<1> HIDE DEF m
<1>6. OnePlace'
  <2>1. \A t : Held(t)' <=> Held(t)
    BY <1>1 DEF Held, InEntry
  <2>2. \A t : Executing(t)' => t = m.token
    BY <1>4 DEF Executing
  <2> QED
    BY <1>1, <1>5, <2>1, <2>2 DEF OnePlace
<1>7. SaysWhatWasGranted'
  <2>1. ASSUME NEW i \in DOMAIN coQueue'
        PROVE  Granted(coQueue'[i].key, coQueue'[i].approved, coQueue'[i].token)
    BY <1>1, HeadTailProperties, LenProperties DEF SaysWhatWasGranted
  <2> QED
    BY <1>1, <1>3, <1>4, <2>1 DEF SaysWhatWasGranted, Granted
<1>8. ExecutionsAreApproved'
  BY <1>1 DEF ExecutionsAreApproved
<1> QED
  BY <1>6, <1>7, <1>8 DEF VerdictInv

LEMMA ExecuteApprovedInv ==
  ASSUME Inv, ExecuteApproved
  PROVE  VerdictInv'
<1> USE DEF Inv, ApprovalInv
<1> DEFINE B == [token : 1..MaxApprovals, request : Requests]
           b == [token |-> consumer.token, request |-> consumer.request]
<1>1. /\ UNCHANGED <<apQueue, coQueue, registry, coordinator, grants>>
      /\ consumer.pc = "execute" /\ consumer'.pc \in {"find", "fail"}
      /\ batches' = Append(batches, b)
  BY DEF ExecuteApproved, ConsumerFrame, ConsumerAt, TypeInv, TypeOK, WorkersOK
<1>2. /\ batches \in Seq(B) /\ b \in B /\ b.token = consumer.token
      /\ b.request = consumer.request /\ b.token \in 1..MaxApprovals
  BY <1>1, TokenRange DEF TypeInv, TypeOK, WorkersOK, HoldersOK
<1>3. Granted(Key(b.request), TRUE, b.token)
  BY <1>1, <1>2 DEF SaysWhatWasGranted, OwnRequests
<1> HIDE DEF b, B
<1>4. Executing(b.token) /\ ~\E t : Executing(t)'
  BY <1>1, <1>2 DEF Executing
<1>5. \A t : InQueue(batches', t) <=> InQueue(batches, t) \/ b.token = t
  BY <1>1, <1>2, InAppended
<1>6. OncePerToken(batches')
  BY <1>1, <1>2, <1>4, OnceAppended DEF OnePlace
<1>7. OnePlace'
  <2>1. \A t : Held(t)' <=> Held(t)
    BY <1>1 DEF Held, InEntry
  <2> QED
    BY <1>1, <1>2, <1>4, <1>5, <1>6, <2>1 DEF OnePlace
<1>8. SaysWhatWasGranted'
  BY <1>1 DEF SaysWhatWasGranted, Granted
<1>9. ExecutionsAreApproved'
  <2>1. ASSUME NEW i \in DOMAIN batches' PROVE Granted(Key(batches'[i].request), TRUE, batches'[i].token)
    <3>1. /\ DOMAIN batches = 1..Len(batches) /\ DOMAIN batches' = 1..(Len(batches) + 1)
          /\ \A j \in 1..Len(batches) : batches'[j] = batches[j]
          /\ batches'[Len(batches) + 1] = b /\ Len(batches) \in Nat
      BY <1>1, <1>2, AppendProperties, LenProperties
    <3>2. CASE i \in DOMAIN batches
      <4>1. grants[batches[i].token].approved = TRUE
        <5>1. batches[i].token \in DOMAIN grants /\ grants[batches[i].token].approved
          BY <3>2 DEF ExecutionsAreApproved
        <5>2. grants[batches[i].token].approved \in BOOLEAN
          BY <5>1, LenProperties, ElementOfSeq DEF TypeInv, TypeOK, HistoryOK
        <5> QED
          BY <5>1, <5>2
      <4> QED
        BY <3>1, <3>2, <4>1 DEF ExecutionsAreApproved, Granted
    <3>3. CASE i = Len(batches) + 1
      BY <1>3, <3>1, <3>3
    <3>4. i \in DOMAIN batches \/ i = Len(batches) + 1
      BY <3>1
    <3> QED
      BY <3>2, <3>3, <3>4, Zenon
  <2> QED
    BY <1>1, <2>1 DEF ExecutionsAreApproved, Granted
<1> QED
  BY <1>7, <1>8, <1>9 DEF VerdictInv

\* A restart loses verdicts and invents none.
LEMMA RestartInv ==
  ASSUME Inv, Restart
  PROVE  VerdictInv'
<1> USE DEF Inv, ApprovalInv
<1>1. PICK n \in 0..Len(apQueue) : apQueue' = SubSeq(apQueue, n + 1, Len(apQueue))
  BY DEF Restart
<1>2. PICK m \in 0..Len(coQueue) : coQueue' = SubSeq(coQueue, m + 1, Len(coQueue))
  BY DEF Restart
<1>3. /\ UNCHANGED <<grants, batches>> /\ registry' = [k \in Keys |-> None]
      /\ coordinator'.pc = "idle" /\ consumer'.pc = "idle"
  BY DEF Restart, IdleCoordinator, IdleConsumer
<1>4. apQueue \in Seq(Verdict) /\ coQueue \in Seq(Verdict)
  BY TokenRange
<1>5. /\ \A t : InQueue(apQueue', t) => InQueue(apQueue, t)
      /\ OncePerToken(apQueue')
  <2>1. OncePerToken(apQueue)
    BY DEF OnePlace
  <2> QED
    BY <1>1, <1>4, <2>1, AfterLoss, ZenonT(60)
<1>6. /\ \A t : InQueue(coQueue', t) => InQueue(coQueue, t)
      /\ OncePerToken(coQueue')
  <2>1. OncePerToken(coQueue)
    BY DEF OnePlace
  <2> QED
    BY <1>2, <1>4, <2>1, AfterLoss, ZenonT(60)
<1>7. OnePlace'
  <2>1. ~(\E t : Held(t)') /\ ~(\E t : Executing(t)')
    BY <1>3 DEF Held, InEntry, Executing
  <2> QED
    BY <1>3, <1>5, <1>6, <2>1 DEF OnePlace
<1>8. SaysWhatWasGranted'
  <2>1. \A i \in DOMAIN apQueue' : n + i \in DOMAIN apQueue /\ apQueue'[i] = apQueue[n + i]
    BY <1>1, <1>4, SuffixType
  <2>2. \A i \in DOMAIN coQueue' : m + i \in DOMAIN coQueue /\ coQueue'[i] = coQueue[m + i]
    BY <1>2, <1>4, SuffixType
  <2> QED
    BY <1>3, <2>1, <2>2 DEF SaysWhatWasGranted, Granted
<1>9. ExecutionsAreApproved'
  BY <1>3 DEF ExecutionsAreApproved
<1> QED
  BY <1>7, <1>8, <1>9 DEF VerdictInv

-----------------------------------------------------------------------------
(* OwnRequests: lists, payloads and workers hold requests of their pair.   *)

LEMMA NewestForKey ==
  ASSUME Inv, NEW u \in Users, NEW p \in Projects, NewestFor(u, p) # None
  PROVE  NewestFor(u, p) \in Requests /\ Key(NewestFor(u, p)) = <<u, p>>
<1> DEFINE I == PositionsOf(u, p)
           c == CHOOSE i \in I : \A j \in I : i <= j
<1>1. I # {} /\ NewestFor(u, p) = pending[u][c]
  BY DEF NewestFor
<1>2. pending[u] \in Seq({r \in Requests : OwnerOf[r] = u})
  BY DEF Inv, ApprovalInv, OwnRequests
<1>3. I \in SUBSET Nat /\ I \subseteq 1..Len(pending[u])
  BY <1>2 DEF PositionsOf
<1>4. \E i \in I : \A j \in I : i <= j
  BY <1>1, <1>3, HasLeast, Zenon
<1>5. c \in I
  BY <1>4
<1> HIDE DEF c
<1>6. ProjectOf[pending[u][c]] = p
  BY <1>5 DEF PositionsOf
<1>7. pending[u][c] \in {r \in Requests : OwnerOf[r] = u}
  BY <1>2, <1>3, <1>5, ElementOfSeq
<1> QED
  BY <1>1, <1>6, <1>7 DEF Key

LEMMA QuietRequests ==
  ASSUME Inv, UNCHANGED pending,
         \A k \in Keys : payload'[k] # None => payload'[k] = payload[k],
         preStore'.pc # "idle" => /\ preStore.pc # "idle" /\ preStore'.key = preStore.key
                                  /\ preStore'.request = preStore.request,
         consumer'.pc = "execute" => consumer' = consumer
  PROVE  OwnRequests'
  BY DEF Inv, ApprovalInv, OwnRequests, Key

LEMMA SubmitRequests ==
  ASSUME Inv, NEW r \in Requests, CheckConflict(r) \/ SubmitStep(r)
  PROVE  OwnRequests'
<1> USE DEF Inv, ApprovalInv
<1>1. /\ UNCHANGED <<payload, preStore, consumer>>
      /\ pending' = pending \/ pending' = PushFirst(r)
  BY DEF CheckConflict, SubmitStep, PushRequest, SetWaiting, AddToIndex,
         NotifyPendingUpdate, redis
<1>2. CASE pending' = pending
  BY <1>1, <1>2, QuietRequests
<1>3. CASE pending' = PushFirst(r)
  <2>1. ASSUME NEW u \in Users PROVE pending'[u] \in Seq({q \in Requests : OwnerOf[q] = u})
    <3>1. pending[u] \in Seq({q \in Requests : OwnerOf[q] = u}) /\ pending \in [Users -> Seq(Requests)]
      BY DEF OwnRequests, TypeInv, TypeOK, RedisOK
    <3>2. CASE u = OwnerOf[r]
      <4>1. pending'[u] = <<r>> \o pending[u]
        BY <1>3, <3>1, <3>2 DEF PushFirst
      <4>2. <<r>> \in Seq({q \in Requests : OwnerOf[q] = u})
        BY <3>2
      <4> QED
        BY <3>1, <4>1, <4>2, ConcatProperties
    <3>3. CASE u # OwnerOf[r]
      BY <1>3, <3>1, <3>3 DEF PushFirst
    <3> QED
      BY <3>2, <3>3
  <2> QED
    BY <1>1, <2>1 DEF OwnRequests
<1> QED
  BY <1>1, <1>2, <1>3

LEMMA PreStoreRequests ==
  ASSUME Inv, PreStoreStep
  PROVE  OwnRequests'
<1> USE DEF Inv, ApprovalInv
<1>1. UNCHANGED <<pending, consumer>>
  BY DEF PreStoreStep, FindPendingUpdate, StagePreStoragePayload, MarkPreStoraged,
         NotifyApprovalCoordinator, PreStoreFrame
<1>2. CASE FindPendingUpdate
  <2> DEFINE k == Head(notices)
  <2>1. k \in Keys /\ k[1] \in Users /\ k[2] \in Projects /\ k = <<k[1], k[2]>>
    BY <1>2, HeadTailProperties DEF FindPendingUpdate, TypeInv, TypeOK, QueuesOK, Keys
  <2>2. UNCHANGED payload
    BY <1>2 DEF FindPendingUpdate
  <2>3. preStore'.pc # "idle" =>
          preStore' = [pc |-> "stage", key |-> k, request |-> NewestFor(k[1], k[2])]
          /\ NewestFor(k[1], k[2]) # None
    BY <1>2 DEF FindPendingUpdate, IdlePreStore
  <2> HIDE DEF k
  <2>4. preStore'.pc # "idle" => Key(preStore'.request) = preStore'.key
    BY <2>1, <2>3, NewestForKey
  <2> QED
    BY <1>1, <2>2, <2>4 DEF OwnRequests, Key
<1>3. CASE StagePreStoragePayload
  <2>1. preStore.pc = "stage" /\ preStore.key \in Keys /\ Key(preStore.request) = preStore.key
    BY <1>3 DEF StagePreStoragePayload, TypeInv, HoldersOK, OwnRequests
  <2>2. \A k \in Keys : payload'[k] # None => payload'[k] = payload[k]
                          \/ (k = preStore.key /\ payload'[k] = preStore.request)
    BY <1>3 DEF StagePreStoragePayload, TypeInv, TypeOK, RedisOK
  <2>3. preStore'.pc # "idle" => /\ preStore'.key = preStore.key
                                 /\ preStore'.request = preStore.request
    BY <1>3 DEF StagePreStoragePayload, IdlePreStore, TypeInv, TypeOK, WorkersOK
  <2> QED
    BY <1>1, <2>1, <2>2, <2>3 DEF OwnRequests, Key
<1>4. CASE MarkPreStoraged \/ NotifyApprovalCoordinator
  <2>1. /\ UNCHANGED payload
        /\ preStore'.pc # "idle" => /\ preStore.pc # "idle" /\ preStore'.key = preStore.key
                                    /\ preStore'.request = preStore.request
    BY <1>4 DEF MarkPreStoraged, NotifyApprovalCoordinator, IdlePreStore, TypeInv, TypeOK,
                WorkersOK
  <2> QED
    BY <1>1, <2>1, QuietRequests
<1> QED
  BY <1>2, <1>3, <1>4 DEF PreStoreStep

LEMMA ConsumerRequests ==
  ASSUME Inv, ConsumerStep
  PROVE  OwnRequests'
<1> USE DEF Inv, ApprovalInv
<1>1. UNCHANGED preStore
  BY DEF ConsumerStep, TakeResult, ExecuteApproved, FindPendingChange, RemovePendingChange,
         RemoveFromIndex, FinishResult, ConsumerFrame
<1>2. CASE TakeResult
  <2> DEFINE m == Head(coQueue)
  <2>1. m.key \in Keys
    <3>1. coQueue \in Seq(Verdict) /\ coQueue # << >>
      BY <1>2, TokenRange DEF TakeResult
    <3>2. m \in Verdict
      BY <3>1, HeadTailProperties
    <3> QED
      BY <3>2 DEF Verdict
  <2>2. UNCHANGED pending /\ (payload' = payload \/ payload' = Taken(m.key))
    BY <1>2 DEF TakeResult
  <2>3. consumer'.pc = "execute" =>
          consumer'.key = m.key /\ consumer'.request = payload[m.key] /\ payload[m.key] # None
    BY <1>2 DEF TakeResult, AfterTake
  <2> HIDE DEF m
  <2>4. \A k \in Keys : payload'[k] # None => payload'[k] = payload[k]
    BY <2>1, <2>2 DEF Taken, TypeInv, TypeOK, RedisOK
  <2> QED
    BY <1>1, <2>1, <2>2, <2>3, <2>4 DEF OwnRequests, Key
<1>3. CASE RemovePendingChange
  <2>1. UNCHANGED payload /\ consumer'.pc # "execute"
    BY <1>3 DEF RemovePendingChange, ConsumerAt, FailHere, TypeInv, TypeOK, WorkersOK
  <2>2. ASSUME NEW u \in Users PROVE pending'[u] \in Seq({q \in Requests : OwnerOf[q] = u})
    <3>1. pending[u] \in Seq({q \in Requests : OwnerOf[q] = u})
      BY DEF OwnRequests
    <3>2. pending'[u] = pending[u] \/ pending'[u] = RemoveFirst(pending[u], consumer.item)
      BY <1>3 DEF RemovePendingChange, TypeInv, TypeOK, RedisOK
    <3> QED
      BY <3>1, <3>2, RemoveFirstType
  <2> QED
    BY <1>1, <2>1, <2>2 DEF OwnRequests
<1>4. CASE ExecuteApproved \/ FindPendingChange \/ RemoveFromIndex \/ FinishResult
  <2>1. UNCHANGED <<pending, payload>> /\ consumer'.pc # "execute"
    <3> USE DEF ConsumerAt, FailHere, redis, TypeInv, TypeOK, WorkersOK
    <3>1. CASE ExecuteApproved
      BY <3>1 DEF ExecuteApproved
    <3>2. CASE FindPendingChange
      BY <3>2 DEF FindPendingChange
    <3>3. CASE RemoveFromIndex
      BY <3>3 DEF RemoveFromIndex
    <3>4. CASE FinishResult
      BY <3>4 DEF FinishResult, IdleConsumer
    <3> QED
      BY <1>4, <3>1, <3>2, <3>3, <3>4
  <2> QED
    BY <1>1, <2>1, QuietRequests
<1> QED
  BY <1>2, <1>3, <1>4 DEF ConsumerStep

-----------------------------------------------------------------------------
(* Every step preserves the invariant.                                     *)

\* Submissions, the listener, the pre-storage goroutine and the cleanup touch
\* no verdict; the cleanup may lose one.
LEMMA QuietActions ==
  ASSUME Inv,
         \/ \E r \in Requests : CheckConflict(r) \/ SubmitStep(r)
         \/ ListenerStep
         \/ PreStoreStep
         \/ (\E k \in Keys : FindExpired(k)) \/ DeleteExpired
         \/ \E u \in Users : ExpirePending(u)
         \/ \E k \in Keys : ExpirePayload(k)
  PROVE  VerdictInv'
<1>1. UNCHANGED <<apQueue, coQueue, coordinator, grants, batches, consumer>>
  BY DEF CheckConflict, SubmitStep, PushRequest, SetWaiting, AddToIndex,
         NotifyPendingUpdate, ListenerStep, ReadEvent, OfferIfWaiting, PreStoreStep,
         FindPendingUpdate, StagePreStoragePayload, MarkPreStoraged,
         NotifyApprovalCoordinator, PreStoreFrame, FindExpired, DeleteExpired, CleanupFrame,
         ExpirePending, ExpirePayload, queues, workers, history
<1>2. \A k \in Keys : registry'[k] # None => registry'[k] = registry[k]
  <2>1. registry' = registry \/ registry' = [registry EXCEPT ![cleaning] = None]
    BY DEF CheckConflict, SubmitStep, PushRequest, SetWaiting, AddToIndex,
           NotifyPendingUpdate, ListenerStep, ReadEvent, OfferIfWaiting, PreStoreStep,
           FindPendingUpdate, StagePreStoragePayload, MarkPreStoraged,
           NotifyApprovalCoordinator, PreStoreFrame, FindExpired, DeleteExpired,
           ExpirePending, ExpirePayload, workers
  <2> QED
    BY <2>1 DEF Inv, TypeInv, TypeOK, WorkersOK
<1> QED
  BY <1>1, <1>2, QuietVerdicts

LEMMA NextVerdicts ==
  ASSUME Inv, Next
  PROVE  VerdictInv'
<1>1. ASSUME NEW k \in Keys, ApproveChange(k) \/ RefuseChange(k) PROVE VerdictInv'
  BY <1>1, SendVerdictInv DEF ApproveChange, RefuseChange
<1>2. CASE CoordinatorStep
  BY <1>2, HandleApprovalInv, HandlePreStorageInv, CheckAndTransitionInv, NotifyConsumerInv
     DEF CoordinatorStep
<1>3. CASE ConsumerStep
  <2>1. CASE FindPendingChange \/ RemovePendingChange \/ RemoveFromIndex \/ FinishResult
    <3> USE DEF ConsumerFrame, ConsumerAt, FailHere, Inv, TypeInv, TypeOK, WorkersOK
    <3>1. /\ UNCHANGED <<apQueue, coQueue, coordinator, grants, batches, registry>>
          /\ consumer'.pc # "execute"
      <4>1. CASE FindPendingChange
        BY <4>1 DEF FindPendingChange
      <4>2. CASE RemovePendingChange
        BY <4>2 DEF RemovePendingChange
      <4>3. CASE RemoveFromIndex
        BY <4>3 DEF RemoveFromIndex
      <4>4. CASE FinishResult
        BY <4>4 DEF FinishResult, IdleConsumer
      <4> QED
        BY <2>1, <4>1, <4>2, <4>3, <4>4
    <3> QED
      BY <3>1, QuietVerdicts
  <2> QED
    BY <1>3, <2>1, TakeResultInv, ExecuteApprovedInv DEF ConsumerStep
<1>4. CASE Restart
  BY <1>4, RestartInv
<1> QED
  BY <1>1, <1>2, <1>3, <1>4, QuietActions DEF Next

LEMMA NextRequests ==
  ASSUME Inv, Next
  PROVE  OwnRequests'
<1>1. CASE \E r \in Requests : CheckConflict(r) \/ SubmitStep(r)
  BY <1>1, SubmitRequests
<1>2. CASE PreStoreStep
  BY <1>2, PreStoreRequests
<1>3. CASE ConsumerStep
  BY <1>3, ConsumerRequests
<1>4. CASE \/ ListenerStep
           \/ \E k \in Keys : ApproveChange(k) \/ RefuseChange(k)
           \/ CoordinatorStep
           \/ (\E k \in Keys : FindExpired(k)) \/ DeleteExpired
  <2>1. UNCHANGED <<pending, payload, preStore, consumer>>
    BY <1>4 DEF ListenerStep, ReadEvent, OfferIfWaiting, ApproveChange, RefuseChange,
                SendVerdict, CoordinatorStep, HandleApprovalMessage,
                HandlePreStorageMessage, CheckAndTransition, NotifyConsumerCoordinator,
                CoordinatorFrame, FindExpired, DeleteExpired, CleanupFrame, redis, workers
  <2> QED
    BY <2>1, QuietRequests
<1>5. CASE Restart
  <2>1. UNCHANGED <<pending, payload>> /\ preStore'.pc = "idle" /\ consumer'.pc = "idle"
    BY <1>5 DEF Restart, redis, IdlePreStore, IdleConsumer
  <2> QED
    BY <2>1, QuietRequests
<1>6. CASE \E u \in Users : ExpirePending(u)
  <2>1. UNCHANGED <<payload, preStore, consumer>>
    BY <1>6 DEF ExpirePending, workers
  <2>2. \A v \in Users : pending'[v] = pending[v] \/ pending'[v] = << >>
    BY <1>6 DEF ExpirePending, Inv, TypeInv, TypeOK, RedisOK
  <2> QED
    BY <2>1, <2>2, EmptySeq DEF Inv, ApprovalInv, OwnRequests
<1>7. CASE \E k \in Keys : ExpirePayload(k)
  <2>1. /\ UNCHANGED <<pending, preStore, consumer>>
        /\ \A j \in Keys : payload'[j] # None => payload'[j] = payload[j]
    BY <1>7 DEF ExpirePayload, workers, Inv, TypeInv, TypeOK, RedisOK
  <2> QED
    BY <2>1, QuietRequests
<1> QED
  BY <1>1, <1>2, <1>3, <1>4, <1>5, <1>6, <1>7 DEF Next

LEMMA NextInv == Inv /\ [Next]_vars => Inv'
<1> SUFFICES ASSUME Inv, [Next]_vars PROVE Inv'
  OBVIOUS
<1>1. TypeInv'
  BY NextTypeInv DEF Inv
<1>2. CASE Next
  BY <1>1, <1>2, NextVerdicts, NextRequests DEF Inv, ApprovalInv, VerdictInv
<1>3. CASE UNCHANGED vars
  <2>1. VerdictInv'
    BY <1>3, QuietVerdicts DEF vars, queues, workers, history
  <2>2. OwnRequests'
    BY <1>3, QuietRequests DEF vars, redis, workers
  <2> QED
    BY <1>1, <2>1, <2>2 DEF Inv, ApprovalInv, VerdictInv
<1> QED
  BY <1>2, <1>3

-----------------------------------------------------------------------------
(* The theorems.                                                           *)

\* One verdict message executes at most one batch, however late it is paired
\* (an entry may wait in the registry for the user's next submission) and
\* whatever fails, restarts or expires: checkAndTransition deletes the entry it
\* publishes, and no message is ever redelivered.
THEOREM OneExecution == Spec => []OneExecutionPerApproval
<1>1. Inv => OneExecutionPerApproval
  BY DEF Inv, ApprovalInv, OnePlace, OncePerToken, OneExecutionPerApproval
<1> QED
  BY <1>1, InitInv, NextInv, PTL DEF Spec

\* onApproved executes only what an approval of that user and project allows,
\* never on a refusal and never another pair's batch.
THEOREM ApprovedExecutions == Spec => []ExecutionsAreApproved
<1>1. Inv => ExecutionsAreApproved
  BY DEF Inv, ApprovalInv
<1> QED
  BY <1>1, InitInv, NextInv, PTL DEF Spec

\* The ledger's view of the history.
Verdicts == [i \in DOMAIN grants |->
               [key |-> grants[i].key, approved |-> grants[i].approved]]
Executions == {batches[i] : i \in DOMAIN batches}

LEMMA FunctionIsSeq ==
  ASSUME NEW S, NEW n \in Nat, NEW f \in [1..n -> S]
  PROVE  f \in Seq(S)
<1>1. Seq(S) = UNION {[1..m -> S] : m \in Nat}
  BY SeqDef, Zenon
<1> QED
  BY <1>1, Zenon

LEMMA SendVerdictImplements ==
  ASSUME TypeOK, NEW k \in Keys, NEW approved \in BOOLEAN, SendVerdict(k, approved)
  PROVE  Ledger!GiveVerdict(k, approved)
<1> DEFINE g == [key |-> k, approved |-> approved,
                 listed |-> {r \in ListedRequests(k[2]) : OwnerOf[r] = k[1]}]
           S == [key : Keys, approved : BOOLEAN, listed : SUBSET Requests]
           v == [key |-> k, approved |-> approved]
<1>1. g \in S /\ grants \in Seq(S) /\ grants' = Append(grants, g) /\ batches' = batches
  BY DEF SendVerdict, TypeOK, HistoryOK, ListedRequests, IndexedRequests
<1>2. /\ Len(grants) \in Nat /\ DOMAIN grants = 1..Len(grants)
      /\ DOMAIN grants' = 1..(Len(grants) + 1)
      /\ \A i \in 1..Len(grants) : grants'[i] = grants[i]
      /\ grants'[Len(grants) + 1] = g
  BY <1>1, AppendProperties, LenProperties
<1>3. Verdicts' = Append(Verdicts, v)
  <2> DEFINE V == [key : Keys, approved : BOOLEAN]
  <2>1. v \in V /\ Verdicts \in Seq(V) /\ Len(Verdicts) = Len(grants)
    <3>1. Verdicts \in [1..Len(grants) -> V]
      <4>1. \A i \in 1..Len(grants) : grants[i] \in S
        BY <1>1, ElementOfSeq
      <4>2. \A i \in 1..Len(grants) : grants[i].key \in Keys /\ grants[i].approved \in BOOLEAN
        BY <4>1
      <4> QED
        BY <1>2, <4>2 DEF Verdicts
    <3>2. Verdicts \in Seq(V)
      BY <1>2, <3>1, FunctionIsSeq
    <3> QED
      BY <1>2, <3>1, <3>2, LenProperties DEF Verdicts
  <2>2. Verdicts' \in Seq(V) /\ Len(Verdicts') = Len(grants) + 1
    <3>1. Verdicts' \in [1..(Len(grants) + 1) -> V]
      BY <1>2, <2>1 DEF Verdicts
    <3>2. Len(grants) + 1 \in Nat
      BY <1>2
    <3>3. Verdicts' \in Seq(V)
      BY <3>1, <3>2, FunctionIsSeq
    <3> QED
      BY <3>1, <3>2, <3>3, LenProperties
  <2>3. /\ Append(Verdicts, v) \in Seq(V) /\ Len(Append(Verdicts, v)) = Len(grants) + 1
        /\ \A i \in 1..Len(grants) : Append(Verdicts, v)[i] = Verdicts[i]
        /\ Append(Verdicts, v)[Len(grants) + 1] = v
    BY <2>1, AppendProperties
  <2>4. \A i \in 1..(Len(grants) + 1) : Verdicts'[i] = Append(Verdicts, v)[i]
    <3>1. \A i \in 1..Len(grants) : Verdicts'[i] = Verdicts[i]
      BY <1>2 DEF Verdicts
    <3>2. Verdicts'[Len(grants) + 1] = v
      BY <1>2 DEF Verdicts
    <3> QED
      BY <1>2, <2>3, <3>1, <3>2
  <2> QED
    BY <2>2, <2>3, <2>4, SeqEqual
<1> QED
  BY <1>1, <1>3 DEF Ledger!GiveVerdict, Verdicts

LEMMA ExecuteImplements ==
  ASSUME Inv, ExecuteApproved
  PROVE  Ledger!Next
<1>0. PICK t \in 1..MaxApprovals, r \in Requests :
        /\ t = consumer.token /\ r = consumer.request
        /\ Granted(consumer.key, TRUE, t) /\ Key(r) = consumer.key
  BY DEF Inv, TypeInv, TypeOK, WorkersOK, HoldersOK, ApprovalInv, SaysWhatWasGranted,
         OwnRequests, ExecuteApproved, HistoryOK, Granted
<1> DEFINE e == [token |-> t, request |-> r]
<1>1. Granted(consumer.key, TRUE, t) /\ Key(r) = consumer.key /\ ~InQueue(batches, t)
  BY <1>0 DEF Inv, ApprovalInv, OnePlace, Executing, ExecuteApproved
<1>2. batches' = Append(batches, e) /\ grants' = grants
  BY <1>0 DEF ExecuteApproved, ConsumerFrame
<1>3. Executions' = Executions \cup {e}
  <2> DEFINE B == [token : 1..MaxApprovals, request : Requests]
  <2>1. e \in B /\ batches \in Seq(B)
    BY <1>1 DEF Inv, TypeInv, TypeOK, HistoryOK
  <2>2. /\ Len(batches) \in Nat /\ DOMAIN batches = 1..Len(batches)
        /\ DOMAIN batches' = 1..(Len(batches) + 1)
        /\ \A i \in 1..Len(batches) : batches'[i] = batches[i]
        /\ batches'[Len(batches) + 1] = e
    BY <1>2, <2>1, AppendProperties, LenProperties
  <2> HIDE DEF e
  <2> QED
    BY <2>2 DEF Executions
<1>4. ~\E x \in Executions : x.token = t
  BY <1>1 DEF Executions, InQueue
<1>5. t \in DOMAIN Verdicts /\ Verdicts[t].approved /\ Verdicts[t].key = Key(r)
  BY <1>1 DEF Granted, Verdicts
<1>6. Ledger!Execute(t, r)
  BY <1>1, <1>2, <1>3, <1>4, <1>5
     DEF Ledger!Execute, Ledger!Spent, Verdicts, Executions
<1> QED
  BY <1>5, <1>6 DEF Ledger!Next, Verdicts

LEMMA QuietLedger ==
  ASSUME Inv, [Next]_vars,
         ~ExecuteApproved,
         \A k \in Keys : ~ApproveChange(k) /\ ~RefuseChange(k)
  PROVE  UNCHANGED <<grants, batches>>
<1>1. CASE CoordinatorStep
  BY <1>1 DEF CoordinatorStep, HandleApprovalMessage, HandlePreStorageMessage,
              CheckAndTransition, NotifyConsumerCoordinator, CoordinatorFrame, history
<1>2. CASE ConsumerStep
  BY <1>2 DEF ConsumerStep, TakeResult, FindPendingChange, RemovePendingChange,
              RemoveFromIndex, FinishResult, ConsumerFrame
<1>3. CASE \E r \in Requests : CheckConflict(r) \/ SubmitStep(r)
  BY <1>3 DEF CheckConflict, SubmitStep, PushRequest, SetWaiting, AddToIndex,
              NotifyPendingUpdate, history
<1>4. CASE ListenerStep \/ PreStoreStep
  BY <1>4 DEF ListenerStep, ReadEvent, OfferIfWaiting, PreStoreStep, FindPendingUpdate,
              StagePreStoragePayload, MarkPreStoraged, NotifyApprovalCoordinator,
              PreStoreFrame, history
<1>5. CASE \/ (\E k \in Keys : FindExpired(k)) \/ DeleteExpired
           \/ Restart
           \/ \E u \in Users : ExpirePending(u)
           \/ \E k \in Keys : ExpirePayload(k)
  BY <1>5 DEF FindExpired, DeleteExpired, CleanupFrame, Restart, ExpirePending,
              ExpirePayload, history
<1>6. CASE UNCHANGED vars
  BY <1>6 DEF vars, history
<1> QED
  BY <1>1, <1>2, <1>3, <1>4, <1>5, <1>6 DEF Next

\* The whole pipeline, with its queues, its registry, its payload keys and
\* every failure, implements the ledger: ApproveChange gives a verdict,
\* ExecuteApproved spends it, and every other step is invisible.
THEOREM Refinement == Spec => ImplementsLedger
<1>1. Init => Ledger!Init
  BY DEF Init, Ledger!Init
<1>2. Inv /\ [Next]_vars => [Ledger!Next]_<<Verdicts, Executions>>
  <2> SUFFICES ASSUME Inv, [Next]_vars
               PROVE  Ledger!Next \/ UNCHANGED <<Verdicts, Executions>>
    BY Zenon
  <2>1. ASSUME NEW k \in Keys, ApproveChange(k) \/ RefuseChange(k) PROVE Ledger!Next
    BY <2>1, SendVerdictImplements
       DEF Inv, TypeInv, ApproveChange, RefuseChange, Ledger!Next
  <2>2. CASE ExecuteApproved
    BY <2>2, ExecuteImplements
  <2>3. CASE /\ ~ExecuteApproved
             /\ \A k \in Keys : ~ApproveChange(k) /\ ~RefuseChange(k)
    BY <2>3, QuietLedger DEF Verdicts, Executions
  <2> QED
    BY <2>1, <2>2, <2>3
<1> QED
  BY <1>1, <1>2, InitInv, NextInv, PTL
     DEF Spec, ImplementsLedger, Ledger!Spec, Verdicts, Executions

-----------------------------------------------------------------------------
(* What the pipeline does with a request from its submission to its last   *)
(* status write, for every number of users, projects, requests and         *)
(* verdicts and every capacity of the channel, as long as no user submits  *)
(* while a request of the same user is open, and nothing fails, restarts,  *)
(* expires or is refused.                                                  *)

Calm == /\ "oneOpenRequest" \in Discipline /\ World = {}
        /\ MaxFaults = 0 /\ MaxCrashes = 0

-----------------------------------------------------------------------------
(* The inductive invariant.  Of each user at most one request is on its    *)
(* way, the newest, and it is in one place at a time; the place goes with  *)
(* the status.  "waiting": submitted, noticed or being staged.             *)
(* "pre_storaged": reported to the coordinator, or with its entry.         *)
(* "approved": with the coordinator, in consumer_queue, or consumed.       *)

NoticedKeys  == {notices[i] : i \in DOMAIN notices}
ReportedKeys == {psQueue[i] : i \in DOMAIN psQueue}
KeysIn(q)    == {q[i].key : i \in DOMAIN q}
ResultKeys   == KeysIn(coQueue)

Settled(u) == status[u] = None \/ status[u].state \in Final
Current(k, s) ==
  status[k[1]] # None /\ status[k[1]].project = k[2] /\ status[k[1]].state = s

\* The newest request of k's user is one of k, submitted and not executed.
Newest(u) == pending[u][1]
HasRequest(k) ==
  /\ pending[k[1]] # << >> /\ Key(Newest(k[1])) = k
  /\ submitPc[Newest(k[1])] = "submitted" /\ ~Executed(Newest(k[1]))

Staging(k)    == preStore.pc \in {"stage", "state"} /\ preStore.key = k
Publishing(k) == preStore.pc = "publish" /\ preStore.key = k
Paired(k)     == registry[k] # None /\ registry[k].preStorageRecv
Transiting(k) == coordinator.pc = "transition" /\ coordinator.key = k
Approving(k)  == coordinator.pc = "publish" /\ coordinator.key = k
Consuming(k)  == consumer.pc # "idle" /\ consumer.key = k

\* One submission of a user is in progress, and it writes nothing while
\* another of the user's requests is on its way.
SubmissionOK(r) ==
  /\ \A q \in Requests :
       /\ OwnerOf[q] = OwnerOf[r]
       /\ submitPc[r] \in InProgress /\ submitPc[q] \in InProgress
       => q = r
  /\ submitPc[r] \in {"checked", "pushed"} => Settled(OwnerOf[r])
  /\ submitPc[r] \in {"stated", "indexed"} =>
       Current(Key(r), "waiting") /\ Key(r) \notin NoticedKeys /\ ~Staging(Key(r))
  /\ submitPc[r] \in {"pushed", "stated", "indexed"} =>
       pending[OwnerOf[r]] # << >> /\ Newest(OwnerOf[r]) = r
  /\ Executed(r) => submitPc[r] = "submitted"

\* A status record comes from a submission.  Only the newest pending request
\* is not executed, and then the status is about it.
StatusKnown(u) == status[u] # None =>
  \E q \in Requests : OwnerOf[q] = u /\ submitPc[q] \in {"stated", "indexed", "submitted"}
OldAreExecuted(u) == \A i \in DOMAIN pending[u] : i # 1 => Executed(pending[u][i])
AllAreExecuted(u) == \A i \in DOMAIN pending[u] : Executed(pending[u][i])
NewestKnown(u) ==
  pending[u] # << >> /\ ~Executed(Newest(u)) =>
    \/ submitPc[Newest(u)] = "pushed"
    \/ /\ submitPc[Newest(u)] \in {"stated", "indexed", "submitted"}
       /\ ~Settled(u) /\ status[u].project = ProjectOf[Newest(u)]
       /\ submitPc[Newest(u)] # "stated" => u \in index[ProjectOf[Newest(u)]]
UserOK(u) == StatusKnown(u) /\ OldAreExecuted(u) /\ NewestKnown(u)

NoticeOK(k) ==
  /\ k \in NoticedKeys \/ Staging(k) => Current(k, "waiting") /\ HasRequest(k)
  /\ k \in NoticedKeys => ~Staging(k)
  /\ Staging(k) => preStore.request = Newest(k[1])
  /\ Staging(k) /\ preStore.pc = "state" => payload[k] # None

StagedOK(k) ==
  /\ Publishing(k) \/ k \in ReportedKeys \/ Transiting(k) => Current(k, "pre_storaged")
  /\ Paired(k) => Current(k, "pre_storaged") \/ Approving(k)
  /\ Publishing(k) => k \notin ReportedKeys /\ ~Paired(k) /\ ~Transiting(k)
  /\ k \in ReportedKeys => ~Paired(k) /\ ~Transiting(k)
  /\ Publishing(k) \/ k \in ReportedKeys \/ Paired(k) \/ Transiting(k) => payload[k] # None

ApprovedOK(k) ==
  /\ Approving(k) \/ k \in ResultKeys \/ Consuming(k) => Current(k, "approved")
  /\ Approving(k) => k \notin ResultKeys /\ ~Consuming(k)
  /\ k \in ResultKeys => ~Consuming(k)
  /\ Approving(k) \/ k \in ResultKeys => payload[k] # None
  /\ Consuming(k) => payload[k] = None
  /\ Consuming(k) /\ consumer.pc = "execute" =>
       HasRequest(k) /\ consumer.request = Newest(k[1])
  /\ Consuming(k) /\ consumer.pc # "execute" => AllAreExecuted(k[1])

\* A payload is the newest request, and goes when the consumer takes it.
PayloadOK(k) == payload[k] # None =>
  /\ HasRequest(k) /\ payload[k] = Newest(k[1])
  /\ Current(k, "approved") => Approving(k) \/ k \in ResultKeys

KeyOK(k) == NoticeOK(k) /\ StagedOK(k) /\ ApprovedOK(k) /\ PayloadOK(k)

\* Each pair is at most once in a queue.
Distinct(q) == \A i, j \in DOMAIN q : q[i] = q[j] => i = j
DistinctKeys(q) == \A i, j \in DOMAIN q : q[i].key = q[j].key => i = j
QueuesAreSets == Distinct(notices) /\ Distinct(psQueue) /\ DistinctKeys(coQueue)

NoRefusals == \A i \in DOMAIN grants : grants[i].approved

PipelineInv == /\ \A r \in Requests : SubmissionOK(r)
               /\ \A u \in Users : UserOK(u)
               /\ \A k \in Keys : KeyOK(k)
               /\ QueuesAreSets /\ NoRefusals /\ ExecutedOnce

-----------------------------------------------------------------------------
(* Queues.                                                                 *)

LEMMA Appended ==
  ASSUME NEW S, NEW q \in Seq(S), NEW x \in S
  PROVE  LET r == Append(q, x) IN
         /\ {r[i] : i \in DOMAIN r} = {q[i] : i \in DOMAIN q} \cup {x}
         /\ Distinct(q) /\ x \notin {q[i] : i \in DOMAIN q} => Distinct(r)
<1> DEFINE r == Append(q, x)
<1>1. /\ DOMAIN q = 1..Len(q) /\ DOMAIN r = 1..(Len(q) + 1) /\ Len(q) \in Nat
      /\ \A i \in 1..Len(q) : r[i] = q[i]
      /\ r[Len(q) + 1] = x
  BY AppendProperties, LenProperties
<1> HIDE DEF r
<1>2. {r[i] : i \in DOMAIN r} = {q[i] : i \in DOMAIN q} \cup {x}
  BY <1>1
<1>3. Distinct(q) /\ x \notin {q[i] : i \in DOMAIN q} => Distinct(r)
  BY <1>1 DEF Distinct
<1> QED
  BY <1>2, <1>3 DEF r

LEMMA KeyAppended ==
  ASSUME NEW S, NEW q \in Seq(S), NEW x \in S
  PROVE  /\ KeysIn(Append(q, x)) = KeysIn(q) \cup {x.key}
         /\ DistinctKeys(q) /\ x.key \notin KeysIn(q) => DistinctKeys(Append(q, x))
<1> DEFINE r == Append(q, x)
<1>1. /\ DOMAIN q = 1..Len(q) /\ DOMAIN r = 1..(Len(q) + 1) /\ Len(q) \in Nat
      /\ \A i \in 1..Len(q) : r[i] = q[i]
      /\ r[Len(q) + 1] = x
  BY AppendProperties, LenProperties
<1> HIDE DEF r
<1>2. KeysIn(r) = KeysIn(q) \cup {x.key}
  BY <1>1 DEF KeysIn
<1>3. DistinctKeys(q) /\ x.key \notin KeysIn(q) => DistinctKeys(r)
  BY <1>1 DEF DistinctKeys, KeysIn
<1> QED
  BY <1>2, <1>3 DEF r

LEMMA Shifted ==
  ASSUME NEW S, NEW q \in Seq(S), q # << >>
  PROVE  LET r == Tail(q) IN
         /\ Head(q) \in S /\ Head(q) = q[1] /\ 1 \in DOMAIN q
         /\ DOMAIN q = 1..Len(q) /\ DOMAIN r = 1..(Len(q) - 1) /\ Len(q) \in Nat \ {0}
         /\ \A i \in DOMAIN r : r[i] = q[i + 1]
BY HeadTailProperties, LenProperties, EmptySeq

LEMMA Removed ==
  ASSUME NEW S, NEW q \in Seq(S), q # << >>, Distinct(q)
  PROVE  LET r == Tail(q) IN
         /\ Head(q) \in S /\ Head(q) \in {q[i] : i \in DOMAIN q}
         /\ {r[i] : i \in DOMAIN r} = {q[i] : i \in DOMAIN q} \ {Head(q)}
         /\ Distinct(r)
<1> DEFINE r == Tail(q)
           h == Head(q)
<1>1. /\ h \in S /\ h = q[1] /\ 1 \in DOMAIN q
      /\ DOMAIN q = 1..Len(q) /\ DOMAIN r = 1..(Len(q) - 1) /\ Len(q) \in Nat \ {0}
      /\ \A i \in DOMAIN r : r[i] = q[i + 1]
  BY Shifted
<1> HIDE DEF r, h
<1>2. \A i \in DOMAIN q : q[i] # h => i - 1 \in DOMAIN r /\ q[i] = r[i - 1]
  BY <1>1
<1>3. \A i \in DOMAIN r : r[i] \in {q[j] : j \in DOMAIN q} /\ r[i] # h
  BY <1>1 DEF Distinct
<1>4. {r[i] : i \in DOMAIN r} = {q[i] : i \in DOMAIN q} \ {h}
  BY <1>2, <1>3
<1>5. Distinct(r)
  BY <1>1 DEF Distinct
<1> QED
  BY <1>1, <1>4, <1>5 DEF r, h

LEMMA KeyRemoved ==
  ASSUME NEW S, NEW q \in Seq(S), q # << >>, DistinctKeys(q)
  PROVE  LET r == Tail(q) IN
         /\ Head(q) \in S /\ Head(q) = q[1] /\ 1 \in DOMAIN q
         /\ Head(q).key \in KeysIn(q)
         /\ KeysIn(r) = KeysIn(q) \ {Head(q).key}
         /\ DistinctKeys(r)
<1> DEFINE r == Tail(q)
           h == Head(q)
<1>1. /\ h \in S /\ h = q[1] /\ 1 \in DOMAIN q
      /\ DOMAIN q = 1..Len(q) /\ DOMAIN r = 1..(Len(q) - 1) /\ Len(q) \in Nat \ {0}
      /\ \A i \in DOMAIN r : r[i] = q[i + 1]
  BY Shifted
<1> HIDE DEF r, h
<1>2. \A i \in DOMAIN q : q[i].key # h.key => i - 1 \in DOMAIN r /\ q[i] = r[i - 1]
  BY <1>1
<1>3. \A i \in DOMAIN r : r[i].key \in KeysIn(q) /\ r[i].key # h.key
  BY <1>1 DEF DistinctKeys, KeysIn
<1>4. KeysIn(r) = KeysIn(q) \ {h.key}
  <2>1. KeysIn(r) \subseteq KeysIn(q) /\ h.key \notin KeysIn(r)
    BY <1>3 DEF KeysIn
  <2>2. \A x \in KeysIn(q) : x # h.key => x \in KeysIn(r)
    BY <1>2 DEF KeysIn
  <2> QED
    BY <2>1, <2>2
<1>6. h.key \in KeysIn(q)
  BY <1>1 DEF KeysIn
<1>5. DistinctKeys(r)
  BY <1>1 DEF DistinctKeys
<1> QED
  BY <1>1, <1>4, <1>5, <1>6 DEF r, h

-----------------------------------------------------------------------------
(* What calm means: no call fails.                                         *)

LEMMA NothingFails ==
  ASSUME Calm, TypeInv
  PROVE  ~Fails
BY DEF Calm, TypeInv, TypeOK, HistoryOK, Fails

LEMMA StatusWritten ==
  ASSUME TypeInv, NEW u \in Users, NEW p \in Projects, NEW s \in States,
         SetUserProjectStatus(u, p, s)
  PROVE  /\ \A v \in Users : v # u => status'[v] = status[v]
         /\ status'[u] # None /\ status'[u].project = p /\ status'[u].state = s
<1>1. [project |-> p, state |-> s] \in StatusRecord
  BY DEF StatusRecord
<1> QED
  BY <1>1, NoneAssumption DEF SetUserProjectStatus, TypeInv, TypeOK, RedisOK

LEMMA KeyFacts ==
  /\ \A r \in Requests : /\ OwnerOf[r] \in Users /\ ProjectOf[r] \in Projects
                         /\ Key(r) \in Keys /\ Key(r)[1] = OwnerOf[r] /\ Key(r)[2] = ProjectOf[r]
  /\ \A k \in Keys : k[1] \in Users /\ k[2] \in Projects /\ k = <<k[1], k[2]>>
BY ConstantsAssumption DEF Key, Keys

\* What is pending for a user is the user's own.
LEMMA PendingFacts ==
  ASSUME Inv, NEW u \in Users
  PROVE  /\ \A i \in DOMAIN pending[u] : pending[u][i] \in Requests /\ OwnerOf[pending[u][i]] = u
         /\ pending[u] # << >> =>
              1 \in DOMAIN pending[u] /\ Newest(u) \in Requests /\ OwnerOf[Newest(u)] = u
<1>1. pending[u] \in Seq({r \in Requests : OwnerOf[r] = u})
  BY DEF Inv, ApprovalInv, OwnRequests
<1>2. \A i \in DOMAIN pending[u] : pending[u][i] \in {r \in Requests : OwnerOf[r] = u}
  BY <1>1
<1>3. pending[u] # << >> => 1 \in DOMAIN pending[u]
  BY <1>1, Shifted
<1> QED
  BY <1>2, <1>3 DEF Newest

-----------------------------------------------------------------------------
(* What a step leaves alone.                                               *)

SameUser(u) ==
  /\ pending'[u] = pending[u] /\ status'[u] = status[u]
  /\ \A p \in Projects : u \in index'[p] <=> u \in index[p]
  /\ \A r \in Requests : OwnerOf[r] = u =>
       submitPc'[r] = submitPc[r] /\ (Executed(r)' <=> Executed(r))

SamePlaces(k) ==
  /\ (k \in NoticedKeys)' <=> k \in NoticedKeys
  /\ Staging(k)' <=> Staging(k)
  /\ Publishing(k)' <=> Publishing(k)
  /\ (k \in ReportedKeys)' <=> k \in ReportedKeys
  /\ Paired(k)' <=> Paired(k)
  /\ Transiting(k)' <=> Transiting(k)
  /\ Approving(k)' <=> Approving(k)
  /\ (k \in ResultKeys)' <=> k \in ResultKeys
  /\ Consuming(k)' <=> Consuming(k)
  /\ payload'[k] = payload[k]
  /\ Staging(k) => preStore' = preStore
  /\ Consuming(k) => consumer' = consumer

LEMMA SameUserFacts ==
  ASSUME Inv, NEW u \in Users, SameUser(u)
  PROVE  /\ Newest(u)' = Newest(u) /\ (Settled(u)' <=> Settled(u))
         /\ AllAreExecuted(u)' <=> AllAreExecuted(u)
         /\ OldAreExecuted(u)' <=> OldAreExecuted(u)
<1>1. Newest(u)' = Newest(u) /\ (Settled(u)' <=> Settled(u))
  BY DEF SameUser, Newest, Settled
<1>2. ASSUME NEW i \in DOMAIN pending[u]
      PROVE  (\E j \in DOMAIN batches : batches[j].request = pending[u][i])
               <=> \E j \in DOMAIN batches' : batches'[j].request = pending[u][i]
  BY PendingFacts DEF SameUser, Executed
<1>3. pending'[u] = pending[u]
  BY DEF SameUser
<1>4. (AllAreExecuted(u)' <=> AllAreExecuted(u)) /\ (OldAreExecuted(u)' <=> OldAreExecuted(u))
  BY <1>2, <1>3 DEF AllAreExecuted, OldAreExecuted, Executed
<1> QED
  BY <1>1, <1>4

LEMMA SameUserOK ==
  ASSUME Inv, NEW u \in Users, SameUser(u), UserOK(u)
  PROVE  UserOK(u)'
<1>1. StatusKnown(u)'
  BY DEF UserOK, StatusKnown, SameUser
<1>2. OldAreExecuted(u)'
  BY SameUserFacts DEF UserOK
<1>3. NewestKnown(u)'
  <2> SUFFICES ASSUME pending'[u] # << >>, ~Executed(Newest(u))' PROVE NewestKnown(u)'
    BY DEF NewestKnown
  <2>1. /\ pending[u] # << >> /\ Newest(u)' = Newest(u) /\ Newest(u) \in Requests
        /\ submitPc'[Newest(u)] = submitPc[Newest(u)] /\ ProjectOf[Newest(u)] \in Projects
        /\ (Settled(u)' <=> Settled(u)) /\ status'[u] = status[u]
    BY PendingFacts, SameUserFacts, KeyFacts DEF SameUser
  <2>2. ~Executed(Newest(u))
    <3>1. (\E j \in DOMAIN batches : batches[j].request = Newest(u))
            => \E j \in DOMAIN batches' : batches'[j].request = Newest(u)
      BY <2>1, PendingFacts DEF SameUser, Executed
    <3> QED
      BY <2>1, <3>1 DEF Executed
  <2>3. \/ submitPc[Newest(u)] = "pushed"
        \/ /\ submitPc[Newest(u)] \in {"stated", "indexed", "submitted"}
           /\ ~Settled(u) /\ status[u].project = ProjectOf[Newest(u)]
           /\ submitPc[Newest(u)] # "stated" => u \in index[ProjectOf[Newest(u)]]
    BY <2>1, <2>2 DEF UserOK, NewestKnown
  <2>4. u \in index[ProjectOf[Newest(u)]] => u \in index'[ProjectOf[Newest(u)]]
    BY <2>1 DEF SameUser
  <2> HIDE DEF NewestKnown
  <2>5. \/ submitPc'[Newest(u)'] = "pushed"
        \/ /\ submitPc'[Newest(u)'] \in {"stated", "indexed", "submitted"}
           /\ ~Settled(u)' /\ status'[u].project = ProjectOf[Newest(u)']
           /\ submitPc'[Newest(u)'] # "stated" => u \in index'[ProjectOf[Newest(u)']]
    BY <2>1, <2>3, <2>4
  <2> QED
    BY <2>5 DEF NewestKnown
<1> QED
  BY <1>1, <1>2, <1>3 DEF UserOK

LEMMA SameHasRequest ==
  ASSUME Inv, NEW k \in Keys, SameUser(k[1])
  PROVE  /\ HasRequest(k)' <=> HasRequest(k)
         /\ \A s : Current(k, s)' <=> Current(k, s)
<1>1. pending'[k[1]] = pending[k[1]] /\ Newest(k[1])' = Newest(k[1])
  BY KeyFacts, SameUserFacts DEF SameUser
<1>2. CASE pending[k[1]] = << >>
  BY <1>1, <1>2 DEF HasRequest, SameUser, Current
<1>3. CASE pending[k[1]] # << >>
  <2>1. /\ Newest(k[1]) \in Requests /\ submitPc'[Newest(k[1])] = submitPc[Newest(k[1])]
        /\ (\E j \in DOMAIN batches : batches[j].request = Newest(k[1]))
             <=> \E j \in DOMAIN batches' : batches'[j].request = Newest(k[1])
    BY <1>3, KeyFacts, PendingFacts DEF SameUser, Executed
  <2> QED
    BY <1>1, <2>1 DEF HasRequest, SameUser, Current, Executed
<1> QED
  BY <1>2, <1>3

LEMMA SameKeyOK ==
  ASSUME Inv, NEW k \in Keys, SameUser(k[1]), SamePlaces(k), KeyOK(k)
  PROVE  KeyOK(k)'
<1>1. /\ Newest(k[1])' = Newest(k[1]) /\ (AllAreExecuted(k[1])' <=> AllAreExecuted(k[1]))
      /\ HasRequest(k)' <=> HasRequest(k)
      /\ \A s : Current(k, s)' <=> Current(k, s)
  BY KeyFacts, SameUserFacts, SameHasRequest
<1>2. NoticeOK(k)'
  BY <1>1 DEF KeyOK, NoticeOK, SamePlaces
<1>3. StagedOK(k)'
  BY <1>1 DEF KeyOK, StagedOK, SamePlaces
<1>4. ApprovedOK(k)'
  BY <1>1 DEF KeyOK, ApprovedOK, SamePlaces
<1>5. PayloadOK(k)'
  BY <1>1 DEF KeyOK, PayloadOK, SamePlaces
<1> QED
  BY <1>2, <1>3, <1>4, <1>5 DEF KeyOK

LEMMA SameSubmissionOK ==
  ASSUME Inv, NEW r \in Requests, SameUser(OwnerOf[r]), SamePlaces(Key(r)), SubmissionOK(r)
  PROVE  SubmissionOK(r)'
<1>1. \A q \in Requests : OwnerOf[q] = OwnerOf[r] =>
        submitPc'[q] = submitPc[q] /\ (Executed(q)' <=> Executed(q))
  BY DEF SameUser
<1>2. \A s : Current(Key(r), s)' <=> Current(Key(r), s)
  BY KeyFacts, SameHasRequest
<1>3. /\ Newest(OwnerOf[r])' = Newest(OwnerOf[r]) /\ pending'[OwnerOf[r]] = pending[OwnerOf[r]]
      /\ Settled(OwnerOf[r])' <=> Settled(OwnerOf[r])
  BY KeyFacts, SameUserFacts DEF SameUser
<1> QED
  BY <1>1, <1>2, <1>3 DEF SubmissionOK, SamePlaces

-----------------------------------------------------------------------------
(* A user has something on the way for one project at a time.              *)

OnTheWay(k) == \/ k \in NoticedKeys \/ Staging(k) \/ Publishing(k) \/ k \in ReportedKeys
               \/ Paired(k) \/ Transiting(k) \/ Approving(k) \/ k \in ResultKeys \/ Consuming(k)
               \/ payload[k] # None

LEMMA OnTheWayIsCurrent ==
  ASSUME Inv, PipelineInv, NEW k \in Keys, OnTheWay(k)
  PROVE  ~Settled(k[1]) /\ status[k[1]].project = k[2]
<1>1. \A s : Current(k, s) => status[k[1]] # None /\ status[k[1]].project = k[2] /\ status[k[1]].state = s
  BY DEF Current
<1>2. \A s \in Pending \cup {"approved"} : Current(k, s) => ~Settled(k[1]) /\ status[k[1]].project = k[2]
  BY <1>1 DEF Settled, Final, Pending
<1>3. KeyOK(k) /\ UserOK(k[1])
  BY KeyFacts DEF PipelineInv
<1>4. CASE payload[k] # None
  BY <1>3, <1>4, KeyFacts, PendingFacts DEF KeyOK, PayloadOK, HasRequest, UserOK, NewestKnown
<1>5. CASE payload[k] = None
  <2>1. \E s \in Pending \cup {"approved"} : Current(k, s)
    BY <1>3, <1>5 DEF OnTheWay, KeyOK, NoticeOK, StagedOK, ApprovedOK, Pending
  <2> QED
    BY <1>2, <2>1
<1> QED
  BY <1>4, <1>5

\* While the user's last request is settled, nothing of the user is anywhere.
LEMMA SettledIsIdle ==
  ASSUME Inv, PipelineInv, NEW k \in Keys, Settled(k[1])
  PROVE  ~OnTheWay(k)
BY OnTheWayIsCurrent

LEMMA AbsentIsOK ==
  ASSUME NEW k \in Keys, ~OnTheWay(k)'
  PROVE  KeyOK(k)'
BY DEF OnTheWay, KeyOK, NoticeOK, StagedOK, ApprovedOK, PayloadOK

\* A step about one pair leaves the other users alone, and of the same user
\* there is nothing elsewhere.
LEMMA Elsewhere ==
  ASSUME Inv, PipelineInv, NEW k \in Keys,
         Settled(k[1]) \/ OnTheWay(k) \/ (~Settled(k[1]) /\ status[k[1]].project = k[2]),
         \A v \in Users : v # k[1] => SameUser(v),
         \A j \in Keys : j # k => SamePlaces(j)
  PROVE  /\ \A j \in Keys : j # k => KeyOK(j)'
         /\ \A v \in Users : v # k[1] => UserOK(v)'
         /\ \A r \in Requests : OwnerOf[r] # k[1] => SubmissionOK(r)'
         /\ \A j \in Keys : j # k /\ j[1] = k[1] => ~OnTheWay(j) /\ ~OnTheWay(j)'
<1>1. ASSUME NEW j \in Keys, j # k, j[1] = k[1] PROVE ~OnTheWay(j)
  BY <1>1, KeyFacts, OnTheWayIsCurrent
<1>2. ASSUME NEW j \in Keys, j # k, j[1] = k[1] PROVE ~OnTheWay(j)'
  <2>1. ~OnTheWay(j) /\ SamePlaces(j)
    BY <1>1, <1>2
  <2> QED
    BY <2>1 DEF OnTheWay, SamePlaces
<1>3. ASSUME NEW j \in Keys, j # k PROVE KeyOK(j)'
  <2>1. CASE j[1] = k[1]
    BY <1>2, <1>3, <2>1, AbsentIsOK
  <2>2. CASE j[1] # k[1]
    BY <1>3, <2>2, KeyFacts, SameKeyOK DEF PipelineInv
  <2> QED
    BY <2>1, <2>2
<1>4. \A v \in Users : v # k[1] => UserOK(v)'
  BY SameUserOK DEF PipelineInv
<1>5. ASSUME NEW r \in Requests, OwnerOf[r] # k[1] PROVE SubmissionOK(r)'
  <2>1. Key(r) \in Keys /\ OwnerOf[r] \in Users /\ Key(r) # k
    BY <1>5, KeyFacts
  <2> QED
    BY <1>5, <2>1, SameSubmissionOK DEF PipelineInv
<1> QED
  BY <1>1, <1>2, <1>3, <1>4, <1>5

LEMMA QuietQueues ==
  ASSUME QueuesAreSets, UNCHANGED <<notices, psQueue, coQueue>>
  PROVE  QueuesAreSets'
BY DEF QueuesAreSets, Distinct, DistinctKeys

LEMMA QuietHistory ==
  /\ NoRefusals /\ grants' = grants => NoRefusals'
  /\ ExecutedOnce /\ batches' = batches => ExecutedOnce'
BY DEF NoRefusals, ExecutedOnce

LEMMA InitPipeline == Init => PipelineInv
<1> SUFFICES ASSUME Init PROVE PipelineInv
  OBVIOUS
<1> USE ConstantsAssumption DEF Init, IdlePreStore, IdleCoordinator, IdleConsumer
<1>1. \A r \in Requests : SubmissionOK(r)
  BY DEF SubmissionOK, InProgress, Executed
<1>2. \A u \in Users : UserOK(u)
  BY DEF UserOK, StatusKnown, OldAreExecuted, NewestKnown
<1>3. \A k \in Keys : KeyOK(k)
  BY DEF KeyOK, NoticeOK, StagedOK, ApprovedOK, PayloadOK, NoticedKeys, ReportedKeys, ResultKeys, KeysIn,
         Staging, Publishing, Paired, Transiting, Approving, Consuming
<1>4. QueuesAreSets /\ NoRefusals /\ ExecutedOnce
  BY DEF QueuesAreSets, Distinct, DistinctKeys, NoRefusals, ExecutedOnce
<1> QED
  BY <1>1, <1>2, <1>3, <1>4 DEF PipelineInv

-----------------------------------------------------------------------------
(* Submissions.  While one is in progress nothing of its user is on the    *)
(* way, so its steps are about the user's own lists and record.            *)

LEMMA SubmittingIsIdle ==
  ASSUME Inv, PipelineInv, NEW r \in Requests, submitPc[r] \in InProgress,
         NEW j \in Keys, j[1] = OwnerOf[r]
  PROVE  ~OnTheWay(j)
<1>1. SubmissionOK(r) /\ KeyOK(j)
  BY DEF PipelineInv
<1>2. CASE submitPc[r] \in {"checked", "pushed"}
  BY <1>1, <1>2, SettledIsIdle DEF SubmissionOK
<1>3. CASE submitPc[r] \in {"stated", "indexed"}
  <2>1. /\ Current(Key(r), "waiting") /\ Key(r) \notin NoticedKeys /\ ~Staging(Key(r))
        /\ Newest(OwnerOf[r]) = r
    BY <1>1, <1>3 DEF SubmissionOK
  <2> SUFFICES ASSUME OnTheWay(j) PROVE FALSE
    OBVIOUS
  <2>2. j = Key(r)
    BY <2>1, KeyFacts, OnTheWayIsCurrent DEF Current
  <2>3. payload[j] = None
    BY <1>1, <1>3, <2>1 DEF KeyOK, PayloadOK, HasRequest
  <2>4. ~Approving(j) /\ j \notin ResultKeys /\ ~Consuming(j)
    BY <1>1, <2>1, <2>2 DEF KeyOK, ApprovedOK, Current
  <2> QED
    BY <1>1, <2>1, <2>2, <2>3, <2>4 DEF OnTheWay, KeyOK, StagedOK
<1> QED
  BY <1>2, <1>3 DEF InProgress

\* The user's other requests have not begun, or have been through it.
LEMMA SubmittingAlone ==
  ASSUME Inv, PipelineInv, NEW r \in Requests, submitPc[r] \in InProgress,
         NEW q \in Requests, q # r, OwnerOf[q] = OwnerOf[r]
  PROVE  /\ submitPc[q] \notin InProgress
         /\ submitPc'[q] = submitPc[q] /\ batches' = batches => SubmissionOK(q)'
<1>1. submitPc[q] \notin InProgress
  BY DEF PipelineInv, SubmissionOK
<1>2. ASSUME submitPc'[q] = submitPc[q], batches' = batches PROVE SubmissionOK(q)'
  <2>1. Executed(q)' => submitPc'[q] = "submitted"
    BY <1>2 DEF PipelineInv, SubmissionOK, Executed
  <2> QED
    BY <1>1, <1>2, <2>1 DEF SubmissionOK, InProgress
<1> QED
  BY <1>1, <1>2

LEMMA SubmissionFrame ==
  ASSUME Inv, PipelineInv, NEW r \in Requests,
         \A j \in Keys : j[1] = OwnerOf[r] => ~OnTheWay(j),
         UNCHANGED <<payload, psQueue, coQueue, notices, preStore, registry,
                     coordinator, consumer, grants, batches>>,
         \A v \in Users : v # OwnerOf[r] =>
           /\ pending'[v] = pending[v] /\ status'[v] = status[v]
           /\ \A p \in Projects : v \in index'[p] <=> v \in index[p],
         \A q \in Requests : q # r => submitPc'[q] = submitPc[q],
         UserOK(OwnerOf[r])',
         \A q \in Requests : OwnerOf[q] = OwnerOf[r] => SubmissionOK(q)'
  PROVE  PipelineInv'
<1>1. \A j \in Keys : SamePlaces(j)
  BY DEF SamePlaces, NoticedKeys, ReportedKeys, ResultKeys, Staging, Publishing, Paired, Transiting,
         Approving, Consuming
<1>2. \A v \in Users : v # OwnerOf[r] => SameUser(v)
  BY DEF SameUser, Executed
<1>3. ASSUME NEW j \in Keys PROVE KeyOK(j)'
  <2>1. CASE j[1] = OwnerOf[r]
    <3>1. ~OnTheWay(j)'
      BY <1>1, <2>1 DEF SamePlaces, OnTheWay
    <3> QED
      BY <3>1, AbsentIsOK
  <2>2. CASE j[1] # OwnerOf[r]
    BY <1>1, <1>2, <2>2, KeyFacts, SameKeyOK DEF PipelineInv
  <2> QED
    BY <2>1, <2>2
<1>4. \A v \in Users : UserOK(v)'
  BY <1>2, SameUserOK DEF PipelineInv
<1>5. \A q \in Requests : SubmissionOK(q)'
  BY <1>1, <1>2, KeyFacts, SameSubmissionOK DEF PipelineInv
<1> QED
  BY <1>3, <1>4, <1>5, QuietQueues, QuietHistory DEF PipelineInv

LEMMA CheckConflictInv ==
  ASSUME Calm, Inv, PipelineInv, NEW r \in Requests, CheckConflict(r)
  PROVE  PipelineInv'
<1> DEFINE u == OwnerOf[r]
<1>0. submitPc \in [Requests -> SubmitStates] /\ u \in Users
  BY KeyFacts DEF Inv, TypeInv, TypeOK, WorkersOK
<1>1. /\ submitPc[r] = "new" /\ submitPc'[r] \in {"checked", "conflict"}
      /\ \A q \in Requests : q # r => submitPc'[q] = submitPc[q]
  <2>1. ~Fails
    BY NothingFails DEF Inv
  <2>2. \E pc \in {"checked", "conflict"} : SubmitTo(r, pc)
    BY <2>1, Zenon DEF CheckConflict
  <2> QED
    BY <1>0, <2>2 DEF CheckConflict, SubmitTo
<1>2. \A q \in Requests : OwnerOf[q] = u => ~Open(q)
  BY DEF CheckConflict, MaySubmit, Calm
<1>3. UNCHANGED <<pending, status, index, payload, psQueue, coQueue, notices, preStore,
                  registry, coordinator, consumer, grants, batches>>
  BY DEF CheckConflict, redis, queues, history
<1>4. Settled(u)
  BY <1>0, <1>2 DEF PipelineInv, UserOK, StatusKnown, Settled, Open, InProgress
<1>5. UserOK(u)'
  <2>1. StatusKnown(u)'
    BY <1>0, <1>1, <1>3 DEF PipelineInv, UserOK, StatusKnown
  <2>2. OldAreExecuted(u)'
    BY <1>0, <1>3 DEF PipelineInv, UserOK, OldAreExecuted, Executed
  <2>3. NewestKnown(u)'
    BY <1>0, <1>1, <1>3, PendingFacts DEF PipelineInv, UserOK, NewestKnown, Newest, Settled, Executed
  <2> QED
    BY <2>1, <2>2, <2>3 DEF UserOK
<1>6. ASSUME NEW q \in Requests, OwnerOf[q] = u PROVE SubmissionOK(q)'
  BY <1>1, <1>2, <1>3, <1>4, <1>6 DEF PipelineInv, SubmissionOK, Settled, Current, Newest,
     NoticedKeys, Staging, Executed, InProgress, Open
<1> QED
  BY <1>0, <1>1, <1>3, <1>4, <1>5, <1>6, SettledIsIdle, SubmissionFrame

\* Pushing a request: all that the user has pending is executed.
LEMMA PushRequestInv ==
  ASSUME Calm, Inv, PipelineInv, NEW r \in Requests, PushRequest(r)
  PROVE  PipelineInv'
<1> DEFINE u == OwnerOf[r]
<1>0. submitPc \in [Requests -> SubmitStates] /\ pending \in [Users -> Seq(Requests)] /\ u \in Users
  BY KeyFacts DEF Inv, TypeInv, TypeOK, WorkersOK, RedisOK
<1>1. /\ submitPc[r] = "checked" /\ submitPc'[r] = "pushed"
      /\ \A q \in Requests : q # r => submitPc'[q] = submitPc[q]
      /\ pending' = [pending EXCEPT ![u] = <<r>> \o @]
  BY <1>0, NothingFails DEF Inv, PushRequest, SubmitTo, PushFirst
<1>2. /\ UNCHANGED <<status, index, payload, psQueue, coQueue, notices, preStore,
                     registry, coordinator, consumer, grants, batches>>
  BY DEF PushRequest, queues, history
<1>3. /\ pending'[u] # << >> /\ pending'[u][1] = r
      /\ \A i \in DOMAIN pending'[u] : i # 1 => i - 1 \in DOMAIN pending[u] /\ pending'[u][i] = pending[u][i - 1]
      /\ \A v \in Users : v # u => pending'[v] = pending[v]
  <2>1. pending'[u] = <<r>> \o pending[u] /\ \A v \in Users : v # u => pending'[v] = pending[v]
    BY <1>0, <1>1
  <2>2. <<r>> \in Seq(Requests) /\ Len(<<r>>) = 1 /\ <<r>>[1] = r /\ pending[u] \in Seq(Requests)
    BY <1>0
  <2> DEFINE s == pending[u]
             t == <<r>> \o s
  <2>3. /\ t \in Seq(Requests) /\ Len(t) = 1 + Len(s) /\ Len(s) \in Nat
        /\ DOMAIN s = 1..Len(s) /\ DOMAIN t = 1..Len(t)
        /\ \A i \in 1..Len(t) : t[i] = IF i <= 1 THEN <<r>>[i] ELSE s[i - 1]
    BY <2>2, ConcatProperties, LenProperties
  <2> HIDE DEF s, t
  <2>4. t # << >> /\ t[1] = r /\ \A i \in DOMAIN t : i # 1 => i - 1 \in DOMAIN s /\ t[i] = s[i - 1]
    BY <2>2, <2>3
  <2> QED
    BY <2>1, <2>4 DEF s, t
<1>4. Settled(u) /\ ~Executed(r)
  BY <1>1 DEF PipelineInv, SubmissionOK
<1>5. \A i \in DOMAIN pending[u] : Executed(pending[u][i])
  <2>0. UserOK(u)
    BY <1>0 DEF PipelineInv
  <2>1. ASSUME pending[u] # << >>, ~Executed(Newest(u)) PROVE FALSE
    <3>1. Newest(u) \in Requests /\ OwnerOf[Newest(u)] = u
      BY <1>0, <2>1, PendingFacts
    <3>2. submitPc[Newest(u)] = "pushed"
      BY <1>4, <2>0, <2>1 DEF UserOK, NewestKnown
    <3> QED
      BY <1>1, <3>1, <3>2 DEF PipelineInv, SubmissionOK, InProgress
  <2> QED
    BY <2>0, <2>1 DEF UserOK, OldAreExecuted, Newest
<1>6. UserOK(u)'
  <2>1. StatusKnown(u)'
    BY <1>0, <1>1, <1>2 DEF PipelineInv, UserOK, StatusKnown
  <2>2. OldAreExecuted(u)'
    BY <1>2, <1>3, <1>5 DEF OldAreExecuted, Executed
  <2>3. NewestKnown(u)'
    BY <1>1, <1>3 DEF NewestKnown, Newest
  <2> QED
    BY <2>1, <2>2, <2>3 DEF UserOK
<1>7. ASSUME NEW q \in Requests, OwnerOf[q] = u PROVE SubmissionOK(q)'
  <2>1. CASE q # r
    BY <1>1, <1>2, <1>7, <2>1, SubmittingAlone DEF InProgress
  <2>2. CASE q = r
    <3>1. \A x \in Requests : OwnerOf[x] = u /\ x # r => submitPc'[x] \notin InProgress
      BY <1>1, SubmittingAlone DEF InProgress
    <3>2. Settled(u)' /\ ~Executed(r)'
      BY <1>2, <1>4 DEF Settled, Executed
    <3> QED
      BY <1>1, <1>3, <2>2, <3>1, <3>2 DEF SubmissionOK, Newest, InProgress
  <2> QED
    BY <2>1, <2>2
<1> QED
  BY <1>0, <1>1, <1>2, <1>3, <1>4, <1>6, <1>7, SettledIsIdle, SubmissionFrame

\* The status goes from settled to "waiting".
LEMMA SetWaitingInv ==
  ASSUME Calm, Inv, PipelineInv, NEW r \in Requests, SetWaiting(r)
  PROVE  PipelineInv'
<1> DEFINE u == OwnerOf[r]
<1>0. submitPc \in [Requests -> SubmitStates] /\ u \in Users /\ ProjectOf[r] \in Projects
  BY KeyFacts DEF Inv, TypeInv, TypeOK, WorkersOK
<1>1. /\ submitPc[r] = "pushed" /\ submitPc'[r] = "stated"
      /\ \A q \in Requests : q # r => submitPc'[q] = submitPc[q]
      /\ SetUserProjectStatus(u, ProjectOf[r], "waiting")
  BY <1>0, NothingFails DEF Inv, SetWaiting, SubmitTo
<1>2. /\ UNCHANGED <<pending, index, payload, psQueue, coQueue, notices, preStore,
                     registry, coordinator, consumer, grants, batches>>
  BY DEF SetWaiting, queues, history
<1>3. /\ \A v \in Users : v # u => status'[v] = status[v]
      /\ status'[u] # None /\ status'[u].project = ProjectOf[r] /\ status'[u].state = "waiting"
  BY <1>0, <1>1, StatusWritten DEF Inv, States, Pending
<1>4. /\ Settled(u) /\ ~Executed(r) /\ pending[u] # << >> /\ Newest(u) = r
      /\ \A j \in Keys : j[1] = u => ~OnTheWay(j)
  BY <1>1, SubmittingIsIdle DEF PipelineInv, SubmissionOK, InProgress
<1>5. ~Settled(u)' /\ Newest(u)' = r
  BY <1>2, <1>3, <1>4 DEF Settled, Final, Newest
<1>6. UserOK(u)'
  <2>1. StatusKnown(u)'
    BY <1>0, <1>1 DEF StatusKnown
  <2>2. OldAreExecuted(u)'
    BY <1>0, <1>2 DEF PipelineInv, UserOK, OldAreExecuted, Executed
  <2>3. NewestKnown(u)'
    BY <1>1, <1>3, <1>5 DEF NewestKnown
  <2> QED
    BY <2>1, <2>2, <2>3 DEF UserOK
<1>7. ASSUME NEW q \in Requests, OwnerOf[q] = u PROVE SubmissionOK(q)'
  <2>1. CASE q # r
    BY <1>1, <1>2, <1>7, <2>1, SubmittingAlone DEF InProgress
  <2>2. CASE q = r
    <3>1. \A x \in Requests : OwnerOf[x] = u /\ x # r => submitPc'[x] \notin InProgress
      BY <1>1, SubmittingAlone DEF InProgress
    <3>2. Key(r) \in Keys /\ Key(r)[1] = u /\ Key(r)[2] = ProjectOf[r]
      BY KeyFacts
    <3>3. Current(Key(r), "waiting")'
      BY <1>3, <3>2 DEF Current
    <3>4. (Key(r) \notin NoticedKeys)' /\ ~Staging(Key(r))'
      BY <1>2, <1>4, <3>2 DEF OnTheWay, NoticedKeys, Staging
    <3>5. ~Executed(r)'
      BY <1>2, <1>4 DEF Executed
    <3> QED
      BY <1>1, <1>2, <1>4, <1>5, <2>2, <3>1, <3>3, <3>4, <3>5 DEF SubmissionOK, InProgress
  <2> QED
    BY <2>1, <2>2
<1> QED
  BY <1>0, <1>1, <1>2, <1>3, <1>4, <1>6, <1>7, SubmissionFrame

LEMMA AddToIndexInv ==
  ASSUME Calm, Inv, PipelineInv, NEW r \in Requests, AddToIndex(r)
  PROVE  PipelineInv'
<1> DEFINE u == OwnerOf[r]
<1>0. /\ submitPc \in [Requests -> SubmitStates] /\ u \in Users /\ ProjectOf[r] \in Projects
      /\ index \in [Projects -> SUBSET Users]
  BY KeyFacts DEF Inv, TypeInv, TypeOK, WorkersOK, RedisOK
<1>1. /\ submitPc[r] = "stated" /\ submitPc'[r] = "indexed"
      /\ \A q \in Requests : q # r => submitPc'[q] = submitPc[q]
      /\ index' = [index EXCEPT ![ProjectOf[r]] = @ \cup {u}]
  BY <1>0, NothingFails DEF Inv, AddToIndex, SubmitTo, Indexed
<1>2. /\ UNCHANGED <<pending, status, payload, psQueue, coQueue, notices, preStore,
                     registry, coordinator, consumer, grants, batches>>
  BY DEF AddToIndex, queues, history
<1>3. /\ \A v \in Users, p \in Projects : v # u => (v \in index'[p] <=> v \in index[p])
      /\ u \in index'[ProjectOf[r]]
  BY <1>0, <1>1
<1>4. /\ ~Executed(r) /\ pending[u] # << >> /\ Newest(u) = r
      /\ Current(Key(r), "waiting") /\ Key(r) \notin NoticedKeys /\ ~Staging(Key(r))
      /\ \A j \in Keys : j[1] = u => ~OnTheWay(j)
  BY <1>1, SubmittingIsIdle DEF PipelineInv, SubmissionOK, InProgress
<1>5. UserOK(u)'
  <2>1. StatusKnown(u)'
    BY <1>0, <1>1 DEF StatusKnown
  <2>2. OldAreExecuted(u)'
    BY <1>0, <1>2 DEF PipelineInv, UserOK, OldAreExecuted, Executed
  <2>3. Key(r)[1] = u /\ Key(r)[2] = ProjectOf[r]
    BY KeyFacts
  <2>4. NewestKnown(u)'
    BY <1>1, <1>2, <1>3, <1>4, <2>3 DEF NewestKnown, Newest, Settled, Current, Final
  <2> QED
    BY <2>1, <2>2, <2>4 DEF UserOK
<1>6. ASSUME NEW q \in Requests, OwnerOf[q] = u PROVE SubmissionOK(q)'
  <2>1. CASE q # r
    BY <1>1, <1>2, <1>6, <2>1, SubmittingAlone DEF InProgress
  <2>2. CASE q = r
    <3>1. \A x \in Requests : OwnerOf[x] = u /\ x # r => submitPc'[x] \notin InProgress
      BY <1>1, SubmittingAlone DEF InProgress
    <3>2. /\ Current(Key(r), "waiting")' /\ (Key(r) \notin NoticedKeys)' /\ ~Staging(Key(r))'
          /\ ~Executed(r)' /\ Newest(u)' = r
      BY <1>2, <1>4 DEF Current, NoticedKeys, Staging, Executed, Newest
    <3> QED
      BY <1>1, <1>2, <1>4, <2>2, <3>1, <3>2 DEF SubmissionOK, InProgress
  <2> QED
    BY <2>1, <2>2
<1> QED
  BY <1>0, <1>1, <1>2, <1>3, <1>4, <1>5, <1>6, SubmissionFrame

\* The notice may be dropped; then the request waits for good.
LEMMA NotifyPendingUpdateInv ==
  ASSUME Calm, Inv, PipelineInv, NEW r \in Requests, NotifyPendingUpdate(r)
  PROVE  PipelineInv'
<1> DEFINE u == OwnerOf[r]
           k == Key(r)
<1>0. /\ submitPc \in [Requests -> SubmitStates] /\ u \in Users /\ ProjectOf[r] \in Projects
      /\ k \in Keys /\ k[1] = u /\ notices \in Seq(Keys)
  BY KeyFacts DEF Inv, TypeInv, TypeOK, WorkersOK, QueuesOK
<1>1. /\ submitPc[r] = "indexed" /\ submitPc'[r] = "submitted"
      /\ \A q \in Requests : q # r => submitPc'[q] = submitPc[q]
      /\ notices' = notices \/ notices' = Append(notices, k)
  BY <1>0 DEF NotifyPendingUpdate, SubmitTo, Offer
<1>2. /\ UNCHANGED <<pending, status, index, payload, psQueue, coQueue, preStore,
                     registry, coordinator, consumer, grants, batches>>
  BY DEF NotifyPendingUpdate, redis, queues, history
<1>3. /\ ~Executed(r) /\ pending[u] # << >> /\ Newest(u) = r
      /\ Current(k, "waiting") /\ k \notin NoticedKeys /\ ~Staging(k)
      /\ \A j \in Keys : j[1] = u => ~OnTheWay(j)
  BY <1>1, SubmittingIsIdle DEF PipelineInv, SubmissionOK, InProgress
<1>4. /\ NoticedKeys' = NoticedKeys \/ NoticedKeys' = NoticedKeys \cup {k}
      /\ Distinct(notices)'
  BY <1>0, <1>1, <1>3, Appended DEF NoticedKeys, PipelineInv, QueuesAreSets, Distinct
<1>5. \A j \in Keys : j # k => SamePlaces(j)
  BY <1>2, <1>4 DEF SamePlaces, ReportedKeys, ResultKeys, Staging, Publishing, Paired, Transiting,
         Approving, Consuming
<1>6. \A v \in Users : v # u => SameUser(v)
  BY <1>1, <1>2 DEF SameUser, Executed
<1>7. UserOK(u)'
  <2>1. StatusKnown(u)'
    BY <1>0, <1>1 DEF StatusKnown
  <2>2. OldAreExecuted(u)'
    BY <1>0, <1>2 DEF PipelineInv, UserOK, OldAreExecuted, Executed
  <2>3. NewestKnown(u)'
    BY <1>0, <1>1, <1>2, <1>3 DEF NewestKnown, PipelineInv, UserOK, Newest, Settled, Executed
  <2> QED
    BY <2>1, <2>2, <2>3 DEF UserOK
<1>8. ASSUME NEW q \in Requests, OwnerOf[q] = u PROVE SubmissionOK(q)'
  <2>1. CASE q # r
    BY <1>1, <1>2, <1>8, <2>1, SubmittingAlone DEF InProgress
  <2>2. CASE q = r
    BY <1>1, <2>2 DEF SubmissionOK, InProgress
  <2> QED
    BY <2>1, <2>2
<1>9. HasRequest(k)' /\ Current(k, "waiting")'
  BY <1>0, <1>1, <1>2, <1>3 DEF HasRequest, Newest, Current, Executed
<1>10. KeyOK(k)'
  <2>1. /\ ~Staging(k)' /\ ~Publishing(k)' /\ (k \notin ReportedKeys)' /\ ~Paired(k)' /\ ~Transiting(k)'
        /\ ~Approving(k)' /\ (k \notin ResultKeys)' /\ ~Consuming(k)' /\ payload'[k] = None
    BY <1>0, <1>2, <1>3 DEF OnTheWay, ReportedKeys, ResultKeys, Staging, Publishing, Paired,
       Transiting, Approving, Consuming
  <2> QED
    BY <1>9, <2>1 DEF KeyOK, NoticeOK, StagedOK, ApprovedOK, PayloadOK
<1>11. status[k[1]].project = k[2] /\ ~Settled(k[1])
  BY <1>3 DEF Current, Settled, Final
<1>12. QueuesAreSets' /\ NoRefusals' /\ ExecutedOnce'
  BY <1>2, <1>4, QuietHistory DEF PipelineInv, QueuesAreSets, Distinct, DistinctKeys
<1> QED
  BY <1>0, <1>5, <1>6, <1>7, <1>8, <1>10, <1>11, <1>12, Elsewhere DEF PipelineInv

-----------------------------------------------------------------------------
(* A step about a pair that is on the way.                                 *)

LEMMA PairStep ==
  ASSUME Inv, PipelineInv, NEW k \in Keys, OnTheWay(k), submitPc' = submitPc,
         \A r \in Requests : OwnerOf[r] = k[1] /\ Executed(r)' => submitPc[r] = "submitted",
         \A v \in Users : v # k[1] => SameUser(v),
         \A j \in Keys : j # k => SamePlaces(j),
         KeyOK(k)', UserOK(k[1])', QueuesAreSets', NoRefusals', ExecutedOnce'
  PROVE  PipelineInv'
<1>1. ASSUME NEW r \in Requests, OwnerOf[r] = k[1] PROVE SubmissionOK(r)'
  <2>1. submitPc[r] \notin InProgress
    BY <1>1, SubmittingIsIdle
  <2> QED
    BY <1>1, <2>1 DEF SubmissionOK, InProgress
<1> QED
  BY <1>1, KeyFacts, Elsewhere DEF PipelineInv

LEMMA PairUser ==
  ASSUME Inv, PipelineInv, NEW k \in Keys, OnTheWay(k), UNCHANGED <<submitPc, pending, batches, index>>,
         status'[k[1]] # None, status'[k[1]].project = k[2], ~Settled(k[1])'
  PROVE  UserOK(k[1])'
<1>1. ~Settled(k[1]) /\ status[k[1]].project = k[2] /\ UserOK(k[1])
  BY KeyFacts, OnTheWayIsCurrent DEF PipelineInv
<1>2. StatusKnown(k[1])'
  BY <1>1 DEF UserOK, StatusKnown, Settled
<1>3. OldAreExecuted(k[1])'
  BY <1>1 DEF UserOK, OldAreExecuted, Executed
<1>4. NewestKnown(k[1])'
  BY <1>1 DEF UserOK, NewestKnown, Newest, Executed
<1> QED
  BY <1>2, <1>3, <1>4 DEF UserOK

LEMMA QuietRequest ==
  ASSUME NEW k \in Keys, UNCHANGED <<submitPc, pending, batches>>
  PROVE  /\ HasRequest(k)' <=> HasRequest(k)
         /\ Newest(k[1])' = Newest(k[1])
         /\ AllAreExecuted(k[1])' <=> AllAreExecuted(k[1])
         /\ \A r : Executed(r)' <=> Executed(r)
BY DEF HasRequest, Newest, AllAreExecuted, Executed

LEMMA SubmittedIfExecuted ==
  ASSUME PipelineInv, batches' = batches
  PROVE  \A r \in Requests : Executed(r)' => submitPc[r] = "submitted"
BY DEF PipelineInv, SubmissionOK, Executed

LEMMA QuietUsers ==
  ASSUME NEW u \in Users, UNCHANGED <<submitPc, pending, batches, index>>,
         \A v \in Users : v # u => status'[v] = status[v]
  PROVE  \A v \in Users : v # u => SameUser(v)
BY DEF SameUser, Executed

\* The newest request of the pair is the newest of its user.
LEMMA NewestIsFirst ==
  ASSUME Inv, NEW k \in Keys, HasRequest(k)
  PROVE  NewestFor(k[1], k[2]) = Newest(k[1]) /\ Newest(k[1]) \in Requests
<1> DEFINE S == PositionsOf(k[1], k[2])
<1>1. /\ 1 \in DOMAIN pending[k[1]] /\ Newest(k[1]) \in Requests
      /\ ProjectOf[pending[k[1]][1]] = k[2]
  BY KeyFacts, PendingFacts DEF HasRequest, Newest
<1>2. pending[k[1]] \in Seq(Requests)
  BY KeyFacts DEF Inv, TypeInv, TypeOK, RedisOK
<1>3. 1 \in S /\ \A j \in S : j \in Nat /\ 1 <= j
  BY <1>1, <1>2 DEF PositionsOf
<1>4. (CHOOSE i \in S : \A j \in S : i <= j) = 1
  BY <1>3
<1> QED
  BY <1>1, <1>3, <1>4 DEF NewestFor, Newest

-----------------------------------------------------------------------------
(* The pre-storage goroutine.                                              *)

LEMMA FindPendingUpdateInv ==
  ASSUME Calm, Inv, PipelineInv, FindPendingUpdate
  PROVE  PipelineInv'
<1>0. notices \in Seq(Keys) /\ notices # << >> /\ Distinct(notices) /\ notices' = Tail(notices)
  BY DEF Inv, TypeInv, TypeOK, QueuesOK, PipelineInv, QueuesAreSets, FindPendingUpdate
<1>k. PICK k \in Keys : k = Head(notices)
  BY <1>0, Removed
<1> DEFINE u == k[1]
<1>1. /\ u \in Users /\ k \in NoticedKeys
      /\ NoticedKeys' = NoticedKeys \ {k} /\ Distinct(notices)'
  <2>1. /\ {Tail(notices)[i] : i \in DOMAIN Tail(notices)}
              = {notices[i] : i \in DOMAIN notices} \ {Head(notices)}
        /\ Head(notices) \in {notices[i] : i \in DOMAIN notices} /\ Distinct(Tail(notices))
    BY <1>0, Removed
  <2>2. Distinct(notices)'
    BY <1>0, <2>1, Zenon
  <2>3. u \in Users
    BY KeyFacts
  <2>4. k \in NoticedKeys /\ NoticedKeys' = NoticedKeys \ {k}
    BY <1>0, <1>k, <2>1, Zenon DEF NoticedKeys
  <2> QED
    BY <2>2, <2>3, <2>4
<1>2. OnTheWay(k) /\ KeyOK(k)
  BY <1>1 DEF OnTheWay, PipelineInv
<1>3. HasRequest(k) /\ Current(k, "waiting") /\ NewestFor(k[1], k[2]) = Newest(u) /\ Newest(u) # None
  BY <1>1, <1>2, NewestIsFirst, NoneAssumption DEF KeyOK, NoticeOK
<1>4. /\ preStore.pc = "idle"
      /\ preStore' = [pc |-> "stage", key |-> k, request |-> Newest(u)]
  BY <1>k, <1>3, NothingFails DEF FindPendingUpdate, Inv
<1>5. UNCHANGED <<pending, status, index, payload, psQueue, coQueue, registry,
                  coordinator, consumer, submitPc, grants, batches>>
  BY DEF FindPendingUpdate, PreStoreFrame, KeepStatus, history
<1>6. \A j \in Keys : j # k => SamePlaces(j)
  BY <1>1, <1>4, <1>5 DEF SamePlaces, ReportedKeys, ResultKeys, Staging, Publishing, Paired,
     Transiting, Approving, Consuming
<1>7. HasRequest(k)' /\ Newest(u)' = Newest(u) /\ \A s : Current(k, s)' <=> Current(k, s)
  BY <1>1, <1>3, <1>5, QuietRequest DEF Current
<1>8. KeyOK(k)'
  <2>1. NoticeOK(k)'
    BY <1>1, <1>3, <1>4, <1>7 DEF NoticeOK, Staging
  <2>2. StagedOK(k)'
    BY <1>2, <1>4, <1>5, <1>7
       DEF KeyOK, StagedOK, Publishing, ReportedKeys, Paired, Transiting, Approving
  <2>3. ApprovedOK(k)'
    BY <1>2, <1>3, <1>5, <1>7
       DEF KeyOK, ApprovedOK, Approving, ResultKeys, Consuming, Current
  <2>4. PayloadOK(k)'
    BY <1>2, <1>5, <1>7 DEF KeyOK, PayloadOK, Approving, ResultKeys
  <2> QED
    BY <2>1, <2>2, <2>3, <2>4 DEF KeyOK
<1>9. UserOK(u)'
  BY <1>1, <1>2, <1>5, OnTheWayIsCurrent, PairUser DEF Settled
<1>10. QueuesAreSets' /\ NoRefusals' /\ ExecutedOnce'
  BY <1>1, <1>5, QuietHistory DEF PipelineInv, QueuesAreSets, Distinct, DistinctKeys
<1>11. \A v \in Users : v # u => SameUser(v)
  BY <1>1, <1>5, QuietUsers
<1> QED
  BY <1>1, <1>2, <1>5, <1>6, <1>8, <1>9, <1>10, <1>11, PairStep, SubmittedIfExecuted

LEMMA StagePayloadInv ==
  ASSUME Calm, Inv, PipelineInv, StagePreStoragePayload
  PROVE  PipelineInv'
<1>k. PICK k \in Keys : k = preStore.key
  BY DEF StagePreStoragePayload, Inv, TypeInv, HoldersOK
<1> DEFINE u == k[1]
<1>1. /\ u \in Users /\ preStore.request \in Requests /\ preStore.pc = "stage"
      /\ payload \in [Keys -> Requests \cup {None}]
  BY KeyFacts DEF StagePreStoragePayload, Inv, TypeInv, TypeOK, HoldersOK, RedisOK
<1>2. Staging(k) /\ OnTheWay(k) /\ KeyOK(k)
  BY <1>k, <1>1 DEF OnTheWay, PipelineInv, Staging
<1>3. HasRequest(k) /\ Current(k, "waiting") /\ preStore.request = Newest(u) /\ k \notin NoticedKeys
  BY <1>1, <1>2 DEF KeyOK, NoticeOK
<1>4. /\ payload' = [payload EXCEPT ![k] = preStore.request]
      /\ preStore' = [preStore EXCEPT !.pc = "state"]
  BY <1>k, NothingFails DEF StagePreStoragePayload, Inv
<1>5. /\ payload'[k] = Newest(u) /\ Newest(u) # None
      /\ \A j \in Keys : j # k => payload'[j] = payload[j]
      /\ preStore'.pc = "state" /\ preStore'.key = k /\ preStore'.request = Newest(u)
  <2>1. preStore \in [pc : {"idle", "stage", "state", "publish"},
                      key : Keys \cup {None}, request : Requests \cup {None}]
    BY DEF Inv, TypeInv, TypeOK, WorkersOK
  <2> QED
    BY <1>k, <1>1, <1>3, <1>4, <2>1, NoneAssumption
<1>6. UNCHANGED <<pending, status, index, psQueue, coQueue, notices, registry,
                  coordinator, consumer, submitPc, grants, batches>>
  BY DEF StagePreStoragePayload, PreStoreFrame, KeepStatus, history
<1>7. \A j \in Keys : j # k => SamePlaces(j)
  BY <1>k, <1>1, <1>5, <1>6 DEF SamePlaces, NoticedKeys, ReportedKeys, ResultKeys, Staging, Publishing,
     Paired, Transiting, Approving, Consuming
<1>8. HasRequest(k)' /\ Newest(u)' = Newest(u) /\ \A s : Current(k, s)' <=> Current(k, s)
  BY <1>1, <1>3, <1>6, QuietRequest DEF Current
<1>9. KeyOK(k)'
  <2>1. NoticeOK(k)'
    BY <1>3, <1>5, <1>6, <1>8 DEF NoticeOK, Staging, NoticedKeys
  <2>2. StagedOK(k)'
    BY <1>k, <1>2, <1>5, <1>6, <1>8, <1>1
       DEF KeyOK, StagedOK, Publishing, ReportedKeys, Paired, Transiting, Approving
  <2>3. ApprovedOK(k)'
    BY <1>2, <1>3, <1>6, <1>8
       DEF KeyOK, ApprovedOK, Approving, ResultKeys, Consuming, Current
  <2>4. PayloadOK(k)'
    BY <1>3, <1>5, <1>8 DEF PayloadOK, Current
  <2> QED
    BY <2>1, <2>2, <2>3, <2>4 DEF KeyOK
<1>10. UserOK(u)'
  BY <1>1, <1>2, <1>6, OnTheWayIsCurrent, PairUser DEF Settled
<1>11. QueuesAreSets' /\ NoRefusals' /\ ExecutedOnce'
  BY <1>6, QuietHistory, QuietQueues DEF PipelineInv
<1>12. \A v \in Users : v # u => SameUser(v)
  BY <1>1, <1>6, QuietUsers
<1> QED
  BY <1>1, <1>2, <1>6, <1>7, <1>9, <1>10, <1>11, <1>12, PairStep, SubmittedIfExecuted

LEMMA MarkPreStoragedInv ==
  ASSUME Calm, Inv, PipelineInv, MarkPreStoraged
  PROVE  PipelineInv'
<1>k. PICK k \in Keys : k = preStore.key
  BY DEF MarkPreStoraged, Inv, TypeInv, HoldersOK
<1> DEFINE u == k[1]
<1>1. u \in Users /\ k[2] \in Projects /\ preStore.pc = "state"
  BY KeyFacts DEF MarkPreStoraged
<1>2. Staging(k) /\ OnTheWay(k) /\ KeyOK(k)
  BY <1>k, <1>1 DEF OnTheWay, PipelineInv, Staging
<1>3. HasRequest(k) /\ Current(k, "waiting") /\ k \notin NoticedKeys /\ payload[k] # None
  BY <1>1, <1>2 DEF KeyOK, NoticeOK
<1>4. /\ SetUserProjectStatus(k[1], k[2], "pre_storaged")
      /\ preStore' = [preStore EXCEPT !.pc = "publish"]
  BY <1>k, NothingFails DEF MarkPreStoraged, Inv
<1>5. /\ \A v \in Users : v # u => status'[v] = status[v]
      /\ Current(k, "pre_storaged")' /\ ~Settled(u)'
      /\ status'[u] # None /\ status'[u].project = k[2] /\ status'[u].state = "pre_storaged"
  BY <1>1, <1>4, StatusWritten DEF Inv, States, Pending, Current, Settled, Final
<1>6. preStore'.pc = "publish" /\ preStore'.key = k
  <2>1. preStore \in [pc : {"idle", "stage", "state", "publish"},
                      key : Keys \cup {None}, request : Requests \cup {None}]
    BY DEF Inv, TypeInv, TypeOK, WorkersOK
  <2> QED
    BY <1>k, <1>4, <2>1
<1>7. UNCHANGED <<pending, index, payload, psQueue, coQueue, notices, registry,
                  coordinator, consumer, submitPc, grants, batches>>
  BY DEF MarkPreStoraged, PreStoreFrame, history
<1>8. \A j \in Keys : j # k => SamePlaces(j)
  BY <1>k, <1>1, <1>6, <1>7 DEF SamePlaces, NoticedKeys, ReportedKeys, ResultKeys, Staging, Publishing,
     Paired, Transiting, Approving, Consuming
<1>9. HasRequest(k)' /\ Newest(u)' = Newest(u)
  BY <1>3, <1>7, QuietRequest
<1>10. KeyOK(k)'
  <2>1. NoticeOK(k)'
    BY <1>3, <1>6, <1>7 DEF NoticeOK, Staging, NoticedKeys
  <2>2. k \notin ReportedKeys /\ ~Paired(k) /\ ~Transiting(k) /\ ~Approving(k)
          /\ k \notin ResultKeys /\ ~Consuming(k)
    BY <1>2, <1>3 DEF KeyOK, StagedOK, ApprovedOK, Current
  <2>3. StagedOK(k)'
    BY <1>3, <1>5, <1>7, <2>2 DEF StagedOK, Publishing, ReportedKeys, Paired, Transiting, Approving
  <2>4. ApprovedOK(k)'
    BY <1>7, <2>2 DEF ApprovedOK, Approving, ResultKeys, Consuming
  <2>5. PayloadOK(k)'
    BY <1>2, <1>5, <1>7, <1>9 DEF KeyOK, PayloadOK, Current
  <2> QED
    BY <2>1, <2>3, <2>4, <2>5 DEF KeyOK
<1>11. UserOK(u)'
  BY <1>2, <1>5, <1>7, PairUser
<1>12. QueuesAreSets' /\ NoRefusals' /\ ExecutedOnce'
  BY <1>7, QuietHistory, QuietQueues DEF PipelineInv
<1>13. \A v \in Users : v # u => SameUser(v)
  BY <1>1, <1>5, <1>7, QuietUsers
<1> QED
  BY <1>2, <1>7, <1>8, <1>10, <1>11, <1>12, <1>13, PairStep, SubmittedIfExecuted

LEMMA NotifyCoordinatorInv ==
  ASSUME Calm, Inv, PipelineInv, NotifyApprovalCoordinator
  PROVE  PipelineInv'
<1>k. PICK k \in Keys : k = preStore.key
  BY DEF NotifyApprovalCoordinator, Inv, TypeInv, HoldersOK
<1> DEFINE u == k[1]
<1>1. u \in Users /\ preStore.pc = "publish" /\ psQueue \in Seq(Keys) /\ Distinct(psQueue)
  BY KeyFacts DEF NotifyApprovalCoordinator, Inv, TypeInv, TypeOK, QueuesOK, PipelineInv, QueuesAreSets
<1>2. Publishing(k) /\ OnTheWay(k) /\ KeyOK(k)
  BY <1>k, <1>1 DEF OnTheWay, PipelineInv, Publishing
<1>3. /\ Current(k, "pre_storaged") /\ k \notin ReportedKeys /\ ~Paired(k) /\ ~Transiting(k)
      /\ payload[k] # None
  BY <1>1, <1>2 DEF KeyOK, StagedOK
<1>4. psQueue' = Append(psQueue, k) /\ preStore'.pc = "idle"
  BY <1>k, NothingFails DEF NotifyApprovalCoordinator, Inv, IdlePreStore
<1>5. ReportedKeys' = ReportedKeys \cup {k} /\ Distinct(psQueue)'
  <2>1. /\ {Append(psQueue, k)[i] : i \in DOMAIN Append(psQueue, k)}
              = {psQueue[i] : i \in DOMAIN psQueue} \cup {k}
        /\ Distinct(Append(psQueue, k))
    BY <1>1, <1>3, Appended DEF ReportedKeys
  <2>2. Distinct(psQueue)'
    BY <1>4, <2>1, Zenon
  <2> QED
    BY <1>4, <2>1, <2>2 DEF ReportedKeys
<1>6. UNCHANGED <<pending, status, index, payload, coQueue, notices, registry,
                  coordinator, consumer, submitPc, grants, batches>>
  BY DEF NotifyApprovalCoordinator, PreStoreFrame, KeepStatus, history
<1>7. \A j \in Keys : j # k => SamePlaces(j)
  BY <1>k, <1>1, <1>4, <1>5, <1>6 DEF SamePlaces, NoticedKeys, ResultKeys, Staging, Publishing,
     Paired, Transiting, Approving, Consuming
<1>8. /\ HasRequest(k)' <=> HasRequest(k)
      /\ Newest(u)' = Newest(u) /\ \A s : Current(k, s)' <=> Current(k, s)
      /\ AllAreExecuted(u)' <=> AllAreExecuted(u)
  BY <1>6, QuietRequest DEF Current
<1>9. KeyOK(k)'
  <2>1. NoticeOK(k)'
    BY <1>2, <1>4, <1>6, <1>8 DEF KeyOK, NoticeOK, Staging, NoticedKeys
  <2>2. StagedOK(k)'
    BY <1>3, <1>4, <1>6, <1>8 DEF StagedOK, Publishing, Paired, Transiting
  <2>3. ApprovedOK(k)'
    BY <1>2, <1>6, <1>8 DEF KeyOK, ApprovedOK, Approving, ResultKeys, Consuming
  <2>4. PayloadOK(k)'
    BY <1>2, <1>6, <1>8 DEF KeyOK, PayloadOK, Approving, ResultKeys
  <2> QED
    BY <2>1, <2>2, <2>3, <2>4 DEF KeyOK
<1>10. UserOK(u)'
  BY <1>1, <1>2, <1>6, OnTheWayIsCurrent, PairUser DEF Settled
<1>11. QueuesAreSets' /\ NoRefusals' /\ ExecutedOnce'
  BY <1>5, <1>6, QuietHistory DEF PipelineInv, QueuesAreSets, Distinct, DistinctKeys
<1>12. \A v \in Users : v # u => SameUser(v)
  BY <1>1, <1>6, QuietUsers
<1> QED
  BY <1>2, <1>6, <1>7, <1>9, <1>10, <1>11, <1>12, PairStep, SubmittedIfExecuted

-----------------------------------------------------------------------------
(* Verdicts and the coordinator.                                           *)

LEMMA QuietStep ==
  ASSUME Inv, PipelineInv, \A v \in Users : SameUser(v), \A j \in Keys : SamePlaces(j),
         QueuesAreSets', NoRefusals', ExecutedOnce'
  PROVE  PipelineInv'
<1>1. \A r \in Requests : SubmissionOK(r)'
  BY KeyFacts, SameSubmissionOK DEF PipelineInv
<1>2. \A v \in Users : UserOK(v)'
  BY SameUserOK DEF PipelineInv
<1>3. \A j \in Keys : KeyOK(j)'
  BY KeyFacts, SameKeyOK DEF PipelineInv
<1> QED
  BY <1>1, <1>2, <1>3 DEF PipelineInv

LEMMA SendVerdictPipeline ==
  ASSUME Calm, Inv, PipelineInv, NEW k \in Keys, ApproveChange(k) \/ RefuseChange(k)
  PROVE  PipelineInv'
<1>1. SendVerdict(k, TRUE)
  BY DEF ApproveChange, RefuseChange, Calm
<1>2. UNCHANGED <<pending, status, index, payload, psQueue, coQueue, notices, preStore, registry,
                  coordinator, consumer, submitPc, batches>>
  BY <1>1 DEF SendVerdict, redis, workers
<1>3. NoRefusals'
  <2> DEFINE S == [key : Keys, approved : BOOLEAN, listed : SUBSET Requests]
  <2>1. PICK g \in S : g.approved /\ grants' = Append(grants, g)
    BY <1>1 DEF SendVerdict, ListedRequests, IndexedRequests
  <2>2. grants \in Seq(S)
    BY DEF Inv, TypeInv, TypeOK, HistoryOK
  <2>3. /\ DOMAIN grants = 1..Len(grants) /\ DOMAIN grants' = 1..(Len(grants) + 1) /\ Len(grants) \in Nat
        /\ \A i \in 1..Len(grants) : grants'[i] = grants[i]
        /\ grants'[Len(grants) + 1] = g
    BY <2>1, <2>2, AppendProperties, LenProperties
  <2> QED
    BY <2>1, <2>3 DEF NoRefusals, PipelineInv
<1>4. /\ \A v \in Users : SameUser(v)
      /\ \A j \in Keys : SamePlaces(j)
  BY <1>2 DEF SameUser, Executed, SamePlaces, NoticedKeys, ReportedKeys, ResultKeys, Staging,
     Publishing, Paired, Transiting, Approving, Consuming
<1> QED
  BY <1>2, <1>3, <1>4, QuietStep, QuietQueues, QuietHistory DEF PipelineInv

\* A step of the coordinator that is not about the lists leaves the users alone.
LEMMA CoordinatorUsers ==
  ASSUME CoordinatorFrame
  PROVE  /\ UNCHANGED <<pending, index, payload, notices, preStore, consumer, submitPc, grants, batches>>
         /\ status' = status => \A v \in Users : SameUser(v)
BY DEF CoordinatorFrame, history, SameUser, Executed

LEMMA HandleApprovalPipeline ==
  ASSUME Calm, Inv, PipelineInv, HandleApprovalMessage
  PROVE  PipelineInv'
<1>0. /\ apQueue \in Seq(Verdict) /\ apQueue # << >> /\ registry \in [Keys -> Entry \cup {None}]
      /\ coordinator \in [pc : {"idle", "transition", "publish"}, key : Keys \cup {None},
                          approved : BOOLEAN, token : 0..MaxApprovals]
      /\ coordinator.pc = "idle"
  BY DEF Inv, TypeInv, TypeOK, QueuesOK, WorkersOK, HandleApprovalMessage
<1>m. PICK m \in Verdict : m = Head(apQueue)
  BY <1>0, Shifted
<1>k. PICK k \in Keys : k = m.key
  BY DEF Verdict
<1> DEFINE e == Recorded(Stored(k), m)
<1>1. StoreAndCheck(k, e) /\ CoordinatorFrame /\ UNCHANGED <<psQueue, coQueue, status>>
  BY <1>m, <1>k DEF HandleApprovalMessage, KeepStatus
<1>2. e \in Entry /\ e # None /\ e.approvalRecv /\ (e.preStorageRecv <=> Paired(k))
  <2>1. Stored(k) \in Entry
    BY <1>0, ConstantsAssumption DEF Stored, NewEntry, Entry
  <2>2. e \in Entry /\ e.approvalRecv /\ e.preStorageRecv = Stored(k).preStorageRecv
    BY <2>1 DEF Recorded, Entry, Verdict
  <2>3. Stored(k).preStorageRecv <=> Paired(k)
    BY DEF Stored, NewEntry, Paired
  <2> QED
    BY <2>2, <2>3, NoneAssumption
<1> HIDE DEF e
<1>3. /\ registry'[k] = e /\ \A j \in Keys : j # k => registry'[j] = registry[j]
      /\ Paired(k) => coordinator'.pc = "transition" /\ coordinator'.key = k
      /\ ~Paired(k) => coordinator'.pc = "idle"
  BY <1>0, <1>1, <1>2 DEF StoreAndCheck, IdleCoordinator
<1>4. /\ UNCHANGED <<pending, index, payload, notices, preStore, consumer, submitPc, grants, batches,
                     psQueue, coQueue, status>>
      /\ \A v \in Users : SameUser(v)
  BY <1>1, CoordinatorUsers
<1>5. \A j \in Keys : Paired(j)' <=> Paired(j)
  BY <1>2, <1>3 DEF Paired
<1>6. \A j \in Keys : j # k \/ ~Paired(k) => SamePlaces(j)
  BY <1>0, <1>3, <1>4, <1>5 DEF SamePlaces, NoticedKeys, ReportedKeys, ResultKeys, Staging, Publishing,
     Transiting, Approving, Consuming
<1>7. QueuesAreSets' /\ NoRefusals' /\ ExecutedOnce'
  BY <1>4, QuietQueues, QuietHistory DEF PipelineInv
<1>8. CASE ~Paired(k)
  BY <1>4, <1>6, <1>7, <1>8, QuietStep
<1>9. CASE Paired(k)
  <2>1. OnTheWay(k) /\ KeyOK(k) /\ ~Approving(k)
    BY <1>0, <1>9 DEF OnTheWay, PipelineInv, Approving
  <2>2. Current(k, "pre_storaged") /\ ~Publishing(k) /\ k \notin ReportedKeys /\ payload[k] # None
    BY <1>9, <2>1 DEF KeyOK, StagedOK
  <2>3. /\ HasRequest(k)' <=> HasRequest(k)
        /\ Newest(k[1])' = Newest(k[1]) /\ \A s : Current(k, s)' <=> Current(k, s)
        /\ AllAreExecuted(k[1])' <=> AllAreExecuted(k[1])
    BY <1>4, QuietRequest DEF Current
  <2>4. KeyOK(k)'
    <3>1. NoticeOK(k)'
      BY <1>4, <2>1, <2>3 DEF KeyOK, NoticeOK, Staging, NoticedKeys
    <3>2. StagedOK(k)'
      BY <1>4, <2>2, <2>3 DEF StagedOK, Publishing, ReportedKeys
    <3>3. ApprovedOK(k)'
      BY <1>3, <1>4, <1>9, <2>1, <2>2, <2>3 DEF KeyOK, ApprovedOK, Approving, ResultKeys, Consuming, Current
    <3>4. PayloadOK(k)'
      BY <1>4, <2>1, <2>2, <2>3 DEF KeyOK, PayloadOK, Current
    <3> QED
      BY <3>1, <3>2, <3>3, <3>4 DEF KeyOK
  <2>5. UserOK(k[1])'
    BY <1>4, KeyFacts, SameUserOK DEF PipelineInv
  <2> QED
    BY <1>4, <1>6, <1>7, <2>1, <2>4, <2>5, PairStep, SubmittedIfExecuted
<1> QED
  BY <1>8, <1>9

LEMMA HandlePreStoragePipeline ==
  ASSUME Calm, Inv, PipelineInv, HandlePreStorageMessage
  PROVE  PipelineInv'
<1>0. /\ psQueue \in Seq(Keys) /\ psQueue # << >> /\ Distinct(psQueue) /\ psQueue' = Tail(psQueue)
      /\ registry \in [Keys -> Entry \cup {None}]
      /\ coordinator.pc = "idle"
  BY DEF Inv, TypeInv, TypeOK, QueuesOK, WorkersOK, HandlePreStorageMessage, PipelineInv, QueuesAreSets
<1>k. PICK k \in Keys : k = Head(psQueue)
  BY <1>0, Removed
<1> DEFINE u == k[1]
           e == [Stored(k) EXCEPT !.preStorageRecv = TRUE]
<1>1. /\ StoreAndCheck(k, e) /\ CoordinatorFrame /\ UNCHANGED coQueue
      /\ SetUserProjectStatus(k[1], k[2], "pre_storaged")
  BY <1>k, NothingFails DEF HandlePreStorageMessage, Inv
<1>2. k \in ReportedKeys /\ ReportedKeys' = ReportedKeys \ {k} /\ Distinct(psQueue)'
  <2>1. /\ {Tail(psQueue)[i] : i \in DOMAIN Tail(psQueue)}
              = {psQueue[i] : i \in DOMAIN psQueue} \ {Head(psQueue)}
        /\ Head(psQueue) \in {psQueue[i] : i \in DOMAIN psQueue} /\ Distinct(Tail(psQueue))
    BY <1>0, Removed
  <2>2. Distinct(psQueue)'
    BY <1>0, <2>1, Zenon
  <2>3. k \in ReportedKeys /\ ReportedKeys' = ReportedKeys \ {k}
    BY <1>0, <1>k, <2>1, Zenon DEF ReportedKeys
  <2> QED
    BY <2>2, <2>3
<1>3. OnTheWay(k) /\ KeyOK(k)
  BY <1>2 DEF OnTheWay, PipelineInv
<1>4. /\ Current(k, "pre_storaged") /\ ~Publishing(k) /\ ~Paired(k) /\ payload[k] # None
  BY <1>2, <1>3 DEF KeyOK, StagedOK
<1>5. e \in Entry /\ e # None /\ e.preStorageRecv
  <2>1. Stored(k) \in Entry
    BY <1>0, ConstantsAssumption DEF Stored, NewEntry, Entry
  <2>2. e \in Entry /\ e.preStorageRecv
    BY <2>1 DEF Entry
  <2> QED
    BY <2>2, NoneAssumption
<1> HIDE DEF e
<1>6. /\ registry'[k] = e /\ \A j \in Keys : j # k => registry'[j] = registry[j]
      /\ coordinator'.pc = "idle" \/ (coordinator'.pc = "transition" /\ coordinator'.key = k)
  BY <1>0, <1>1 DEF StoreAndCheck, IdleCoordinator
<1>7. /\ u \in Users /\ k[2] \in Projects
      /\ UNCHANGED <<pending, index, payload, notices, preStore, consumer, submitPc, grants, batches, coQueue>>
  BY <1>1, KeyFacts, CoordinatorUsers
<1>8. /\ \A v \in Users : v # u => status'[v] = status[v]
      /\ Current(k, "pre_storaged")' /\ ~Settled(u)'
      /\ status'[u] # None /\ status'[u].project = k[2] /\ status'[u].state = "pre_storaged"
  BY <1>1, <1>7, StatusWritten DEF Inv, States, Pending, Current, Settled, Final
<1>9. Paired(k)' /\ \A j \in Keys : j # k => (Paired(j)' <=> Paired(j))
  BY <1>5, <1>6 DEF Paired
<1>10. \A j \in Keys : j # k => SamePlaces(j)
  BY <1>0, <1>2, <1>6, <1>7, <1>9 DEF SamePlaces, NoticedKeys, ResultKeys, Staging, Publishing,
     Transiting, Approving, Consuming
<1>11. HasRequest(k)' <=> HasRequest(k) /\ Newest(u)' = Newest(u)
  BY <1>7, QuietRequest
<1>12. KeyOK(k)'
  <2>1. k \notin NoticedKeys /\ ~Staging(k) /\ k \notin ResultKeys /\ ~Consuming(k)
    BY <1>3, <1>4 DEF KeyOK, NoticeOK, ApprovedOK, Current
  <2>2. NoticeOK(k)'
    BY <1>7, <2>1 DEF NoticeOK, Staging, NoticedKeys
  <2>3. StagedOK(k)'
    BY <1>2, <1>4, <1>7, <1>8 DEF StagedOK, Publishing
  <2>4. ApprovedOK(k)'
    BY <1>6, <1>7, <2>1 DEF ApprovedOK, Approving, ResultKeys, Consuming
  <2>5. PayloadOK(k)'
    BY <1>3, <1>7, <1>8, QuietRequest DEF KeyOK, PayloadOK, Current
  <2> QED
    BY <2>2, <2>3, <2>4, <2>5 DEF KeyOK
<1>13. UserOK(u)'
  BY <1>3, <1>7, <1>8, PairUser
<1>14. QueuesAreSets' /\ NoRefusals' /\ ExecutedOnce'
  BY <1>2, <1>7, QuietHistory DEF PipelineInv, QueuesAreSets, Distinct, DistinctKeys
<1>15. \A v \in Users : v # u => SameUser(v)
  BY <1>7, <1>8, QuietUsers
<1> QED
  BY <1>3, <1>7, <1>10, <1>12, <1>13, <1>14, <1>15, PairStep, SubmittedIfExecuted

LEMMA CheckAndTransitionPipeline ==
  ASSUME Calm, Inv, PipelineInv, CheckAndTransition
  PROVE  PipelineInv'
<1>k. PICK k \in Keys : k = coordinator.key
  BY DEF CheckAndTransition, Inv, TypeInv, HoldersOK
<1> DEFINE u == k[1]
<1>1. /\ coordinator \in [pc : {"idle", "transition", "publish"}, key : Keys \cup {None},
                          approved : BOOLEAN, token : 0..MaxApprovals]
      /\ coordinator.pc = "transition" /\ coordinator.approved
  <2>1. Granted(coordinator.key, coordinator.approved, coordinator.token)
    BY DEF Inv, ApprovalInv, SaysWhatWasGranted, CheckAndTransition
  <2> QED
    BY <2>1 DEF Inv, TypeInv, TypeOK, WorkersOK, CheckAndTransition, PipelineInv, NoRefusals, Granted
<1>2. /\ SetUserProjectStatus(k[1], k[2], "approved") /\ coordinator' = [coordinator EXCEPT !.pc = "publish"]
  BY <1>k, <1>1, NothingFails DEF CheckAndTransition, Inv
<1>3. coordinator'.pc = "publish" /\ coordinator'.key = k
  BY <1>k, <1>1, <1>2
<1>4. OnTheWay(k) /\ KeyOK(k) /\ Transiting(k)
  BY <1>k, <1>1 DEF OnTheWay, PipelineInv, Transiting
<1>5. /\ Current(k, "pre_storaged") /\ ~Publishing(k) /\ k \notin ReportedKeys /\ payload[k] # None
  BY <1>4 DEF KeyOK, StagedOK
<1>6. /\ u \in Users /\ k[2] \in Projects
      /\ UNCHANGED <<pending, index, payload, notices, preStore, consumer, submitPc, grants, batches,
                     psQueue, coQueue, registry>>
  BY KeyFacts, CoordinatorUsers DEF CheckAndTransition, queues
<1>7. /\ \A v \in Users : v # u => status'[v] = status[v]
      /\ Current(k, "approved")' /\ ~Settled(u)'
      /\ status'[u] # None /\ status'[u].project = k[2] /\ status'[u].state = "approved"
  BY <1>2, <1>6, StatusWritten DEF Inv, States, Pending, Current, Settled, Final
<1>8. \A j \in Keys : j # k => SamePlaces(j)
  BY <1>k, <1>1, <1>3, <1>6 DEF SamePlaces, NoticedKeys, ReportedKeys, ResultKeys, Staging, Publishing,
     Paired, Transiting, Approving, Consuming
<1>9. KeyOK(k)'
  <2>1. k \notin NoticedKeys /\ ~Staging(k) /\ k \notin ResultKeys /\ ~Consuming(k)
    BY <1>4, <1>5 DEF KeyOK, NoticeOK, ApprovedOK, Current
  <2>2. Approving(k)' /\ ~Transiting(k)'
    BY <1>3 DEF Approving, Transiting
  <2>3. NoticeOK(k)'
    BY <1>6, <2>1 DEF NoticeOK, Staging, NoticedKeys
  <2>4. StagedOK(k)'
    BY <1>5, <1>6, <2>2 DEF StagedOK, Publishing, ReportedKeys
  <2>5. ApprovedOK(k)'
    BY <1>5, <1>6, <1>7, <2>1 DEF ApprovedOK, ResultKeys, Consuming
  <2>6. PayloadOK(k)'
    BY <1>4, <1>6, <2>2, QuietRequest DEF KeyOK, PayloadOK
  <2> QED
    BY <2>3, <2>4, <2>5, <2>6 DEF KeyOK
<1>10. UserOK(u)'
  BY <1>4, <1>6, <1>7, PairUser
<1>11. QueuesAreSets' /\ NoRefusals' /\ ExecutedOnce'
  BY <1>6, QuietHistory, QuietQueues DEF PipelineInv
<1>12. \A v \in Users : v # u => SameUser(v)
  BY <1>6, <1>7, QuietUsers
<1> QED
  BY <1>4, <1>6, <1>8, <1>9, <1>10, <1>11, <1>12, PairStep, SubmittedIfExecuted

LEMMA NotifyConsumerPipeline ==
  ASSUME Calm, Inv, PipelineInv, NotifyConsumerCoordinator
  PROVE  PipelineInv'
<1>k. PICK k \in Keys : k = coordinator.key
  BY DEF NotifyConsumerCoordinator, Inv, TypeInv, HoldersOK
<1> DEFINE u == k[1]
<1>1. /\ coordinator.pc = "publish" /\ coordinator.approved \in BOOLEAN
      /\ coordinator.token \in 1..MaxApprovals
      /\ coQueue \in Seq(Verdict) /\ DistinctKeys(coQueue) /\ registry \in [Keys -> Entry \cup {None}]
  BY DEF Inv, TypeInv, TypeOK, HoldersOK, WorkersOK, QueuesOK, PipelineInv, QueuesAreSets,
         NotifyConsumerCoordinator
<1>m. PICK m \in Verdict : m = [key |-> k, approved |-> coordinator.approved, token |-> coordinator.token]
  BY <1>1 DEF Verdict
<1>2. /\ coQueue' = Append(coQueue, m) /\ registry' = [registry EXCEPT ![k] = None]
      /\ coordinator'.pc = "idle"
  BY <1>k, <1>m, NothingFails DEF NotifyConsumerCoordinator, Inv, WithoutEntry, IdleCoordinator
<1>3. OnTheWay(k) /\ KeyOK(k) /\ Approving(k)
  BY <1>k, <1>1 DEF OnTheWay, PipelineInv, Approving
<1>4. /\ Current(k, "approved") /\ k \notin ResultKeys /\ ~Consuming(k) /\ payload[k] # None
  BY <1>3 DEF KeyOK, ApprovedOK
<1>5. ResultKeys' = ResultKeys \cup {k} /\ DistinctKeys(coQueue)'
  <2>1. m.key = k
    BY <1>m
  <2>2. /\ KeysIn(Append(coQueue, m)) = KeysIn(coQueue) \cup {k}
        /\ DistinctKeys(Append(coQueue, m))
    BY <1>1, <1>4, <2>1, KeyAppended DEF ResultKeys
  <2>3. DistinctKeys(coQueue)'
    BY <1>2, <2>2, Zenon
  <2>4. ResultKeys' = ResultKeys \cup {k}
    BY <1>2, <2>2, Zenon DEF ResultKeys
  <2> QED
    BY <2>3, <2>4
<1>6. /\ u \in Users
      /\ UNCHANGED <<pending, index, payload, notices, preStore, consumer, submitPc, grants, batches,
                     psQueue, status>>
      /\ \A v \in Users : SameUser(v)
  BY KeyFacts, CoordinatorUsers DEF NotifyConsumerCoordinator, KeepStatus
<1>7. ~Paired(k)' /\ \A j \in Keys : j # k => (Paired(j)' <=> Paired(j))
  BY <1>1, <1>2 DEF Paired
<1>8. \A j \in Keys : j # k => SamePlaces(j)
  BY <1>k, <1>1, <1>2, <1>5, <1>6, <1>7 DEF SamePlaces, NoticedKeys, ReportedKeys, Staging, Publishing,
     Transiting, Approving, Consuming
<1>9. KeyOK(k)'
  <2>1. k \notin NoticedKeys /\ ~Staging(k) /\ k \notin ReportedKeys /\ ~Publishing(k)
    BY <1>3, <1>4 DEF KeyOK, NoticeOK, StagedOK, Current
  <2>2. ~Approving(k)' /\ ~Transiting(k)' /\ Current(k, "approved")'
    BY <1>2, <1>4, <1>6 DEF Approving, Transiting, Current
  <2>3. NoticeOK(k)'
    BY <1>6, <2>1 DEF NoticeOK, Staging, NoticedKeys
  <2>4. StagedOK(k)'
    BY <1>6, <1>7, <2>1, <2>2 DEF StagedOK, Publishing, ReportedKeys
  <2>5. ApprovedOK(k)'
    BY <1>4, <1>6, <2>2 DEF ApprovedOK, Consuming
  <2>6. PayloadOK(k)'
    BY <1>3, <1>5, <1>6, QuietRequest DEF KeyOK, PayloadOK
  <2> QED
    BY <2>3, <2>4, <2>5, <2>6 DEF KeyOK
<1>10. UserOK(u)'
  BY <1>6, SameUserOK DEF PipelineInv
<1>11. QueuesAreSets' /\ NoRefusals' /\ ExecutedOnce'
  BY <1>5, <1>6, QuietHistory DEF PipelineInv, QueuesAreSets, Distinct, DistinctKeys
<1> QED
  BY <1>3, <1>6, <1>8, <1>9, <1>10, <1>11, PairStep, SubmittedIfExecuted

\* The cleanup may delete the entry of a pair that is about to be approved.
LEMMA CleanupPipeline ==
  ASSUME Inv, PipelineInv, (\E k \in Keys : FindExpired(k)) \/ DeleteExpired
  PROVE  PipelineInv'
<1>1. /\ UNCHANGED <<pending, status, index, payload, notices, preStore, psQueue, coQueue, coordinator,
                     consumer, submitPc, grants, batches>>
      /\ \A v \in Users : SameUser(v)
  BY DEF FindExpired, DeleteExpired, CleanupFrame, redis, queues, history, SameUser, Executed
<1>2. QueuesAreSets' /\ NoRefusals' /\ ExecutedOnce'
  BY <1>1, QuietHistory, QuietQueues DEF PipelineInv
<1>3. \A j \in Keys : (Paired(j)' <=> Paired(j)) => SamePlaces(j)
  BY <1>1 DEF SamePlaces, NoticedKeys, ReportedKeys, ResultKeys, Staging, Publishing, Transiting,
     Approving, Consuming
<1>4. CASE \E k \in Keys : FindExpired(k)
  <2>1. \A j \in Keys : Paired(j)' <=> Paired(j)
    BY <1>4 DEF FindExpired, Paired
  <2> QED
    BY <1>1, <1>2, <1>3, <2>1, QuietStep
<1>5. CASE DeleteExpired
  <2>1. PICK k \in Keys : k = cleaning
    BY <1>5 DEF DeleteExpired, Inv, TypeInv, TypeOK, WorkersOK
  <2>2. ~Paired(k)' /\ \A j \in Keys : j # k => (Paired(j)' <=> Paired(j))
    BY <1>5, <2>1 DEF DeleteExpired, Paired, Inv, TypeInv, TypeOK, WorkersOK
  <2>3. CASE ~Paired(k)
    BY <1>1, <1>2, <1>3, <2>2, <2>3, QuietStep
  <2>4. CASE Paired(k)
    <3>1. OnTheWay(k) /\ KeyOK(k)
      BY <2>4 DEF OnTheWay, PipelineInv
    <3>2. /\ HasRequest(k)' <=> HasRequest(k)
          /\ Newest(k[1])' = Newest(k[1]) /\ \A s : Current(k, s)' <=> Current(k, s)
          /\ AllAreExecuted(k[1])' <=> AllAreExecuted(k[1])
      BY <1>1, QuietRequest DEF Current
    <3>3. NoticeOK(k)'
      BY <1>1, <3>1, <3>2 DEF KeyOK, NoticeOK, Staging, NoticedKeys
    <3>4. StagedOK(k)'
      BY <1>1, <2>2, <3>1, <3>2 DEF KeyOK, StagedOK, Publishing, ReportedKeys, Transiting, Approving
    <3>5. ApprovedOK(k)'
      BY <1>1, <3>1, <3>2 DEF KeyOK, ApprovedOK, Approving, ResultKeys, Consuming
    <3>6. PayloadOK(k)'
      BY <1>1, <3>1, <3>2 DEF KeyOK, PayloadOK, Approving, ResultKeys
    <3>7. KeyOK(k)' /\ UserOK(k[1])'
      BY <1>1, <3>3, <3>4, <3>5, <3>6, KeyFacts, SameUserOK DEF KeyOK, PipelineInv
    <3> QED
      BY <1>1, <1>2, <1>3, <2>2, <3>1, <3>7, PairStep, SubmittedIfExecuted
  <2> QED
    BY <2>3, <2>4
<1> QED
  BY <1>4, <1>5

-----------------------------------------------------------------------------
(* The consumer.                                                           *)

LEMMA TakeResultPipeline ==
  ASSUME Calm, Inv, PipelineInv, TakeResult
  PROVE  PipelineInv'
<1>0. /\ coQueue \in Seq(Verdict) /\ coQueue # << >> /\ DistinctKeys(coQueue)
      /\ coQueue' = Tail(coQueue) /\ consumer.pc = "idle"
      /\ payload \in [Keys -> Requests \cup {None}]
  BY DEF Inv, TypeInv, TypeOK, QueuesOK, RedisOK, TakeResult, PipelineInv, QueuesAreSets
<1>m. PICK m \in Verdict : m = Head(coQueue) /\ m = coQueue[1] /\ 1 \in DOMAIN coQueue
  BY <1>0, Shifted
<1>k. PICK k \in Keys : k = m.key
  BY DEF Verdict
<1> DEFINE u == k[1]
<1>1. /\ u \in Users /\ k \in ResultKeys
      /\ ResultKeys' = ResultKeys \ {k} /\ DistinctKeys(coQueue)'
  <2>1. /\ KeysIn(Tail(coQueue)) = KeysIn(coQueue) \ {k} /\ k \in KeysIn(coQueue)
        /\ DistinctKeys(Tail(coQueue))
    BY <1>0, <1>m, <1>k, KeyRemoved
  <2>2. DistinctKeys(coQueue)'
    BY <1>0, <2>1, Zenon
  <2>3. k \in ResultKeys /\ ResultKeys' = ResultKeys \ {k}
    BY <1>0, <2>1, Zenon DEF ResultKeys
  <2> QED
    BY <2>2, <2>3, KeyFacts
<1>2. m.approved = TRUE
  <2>1. Granted(m.key, m.approved, m.token)
    BY <1>m DEF Inv, ApprovalInv, SaysWhatWasGranted
  <2>2. m.approved \in BOOLEAN
    BY DEF Verdict
  <2> QED
    BY <2>1, <2>2 DEF Granted, PipelineInv, NoRefusals
<1>3. OnTheWay(k) /\ KeyOK(k)
  BY <1>1 DEF OnTheWay, PipelineInv
<1>4. /\ Current(k, "approved") /\ ~Approving(k) /\ ~Consuming(k)
      /\ HasRequest(k) /\ payload[k] = Newest(u) /\ payload[k] # None
  BY <1>1, <1>3 DEF KeyOK, ApprovedOK, PayloadOK
<1>5. /\ consumer'.pc = "execute" /\ consumer'.key = k /\ consumer'.request = Newest(u)
      /\ payload'[k] = None /\ \A j \in Keys : j # k => payload'[j] = payload[j]
  BY <1>0, <1>m, <1>k, <1>2, <1>4, NothingFails DEF TakeResult, AfterTake, Taken, Inv
<1>6. UNCHANGED <<pending, status, index, psQueue, notices, preStore, registry, coordinator,
                  submitPc, grants, batches>>
  BY DEF TakeResult, ConsumerFrame, KeepStatus
<1>7. \A j \in Keys : j # k => SamePlaces(j)
  BY <1>0, <1>1, <1>5, <1>6 DEF SamePlaces, NoticedKeys, ReportedKeys, Staging, Publishing, Paired,
     Transiting, Approving, Consuming
<1>8. HasRequest(k)' /\ Newest(u)' = Newest(u) /\ \A s : Current(k, s)' <=> Current(k, s)
  BY <1>4, <1>6, QuietRequest DEF Current
<1>9. KeyOK(k)'
  <2>1. /\ k \notin NoticedKeys /\ ~Staging(k) /\ ~Publishing(k) /\ k \notin ReportedKeys
        /\ ~Paired(k) /\ ~Transiting(k)
    BY <1>3, <1>4 DEF KeyOK, NoticeOK, StagedOK, Current
  <2>2. NoticeOK(k)'
    BY <1>6, <2>1 DEF NoticeOK, Staging, NoticedKeys
  <2>3. StagedOK(k)'
    BY <1>6, <2>1 DEF StagedOK, Publishing, ReportedKeys, Paired, Transiting
  <2>4. (k \notin ResultKeys)' /\ ~Approving(k)'
    BY <1>1, <1>4, <1>6 DEF Approving
  <2>5. ApprovedOK(k)'
    BY <1>4, <1>5, <1>8, <2>4 DEF ApprovedOK
  <2>6. PayloadOK(k)'
    BY <1>5 DEF PayloadOK
  <2> QED
    BY <2>2, <2>3, <2>5, <2>6 DEF KeyOK
<1>10. UserOK(u)'
  BY <1>1, <1>3, <1>6, OnTheWayIsCurrent, PairUser DEF Settled
<1>11. QueuesAreSets' /\ NoRefusals' /\ ExecutedOnce'
  BY <1>1, <1>6, QuietHistory DEF PipelineInv, QueuesAreSets, Distinct
<1>12. \A v \in Users : v # u => SameUser(v)
  BY <1>1, <1>6, QuietUsers
<1> QED
  BY <1>3, <1>6, <1>7, <1>9, <1>10, <1>11, <1>12, PairStep, SubmittedIfExecuted

\* What the consumer works on is nowhere else, and stays so.
LEMMA ConsumingAlone ==
  ASSUME Inv, PipelineInv, NEW k \in Keys, Consuming(k)
  PROVE  /\ k[1] \in Users /\ k[2] \in Projects /\ OnTheWay(k) /\ KeyOK(k)
         /\ Current(k, "approved") /\ payload[k] = None
         /\ k \notin NoticedKeys /\ ~Staging(k) /\ ~Publishing(k) /\ k \notin ReportedKeys
         /\ ~Paired(k) /\ ~Transiting(k) /\ ~Approving(k) /\ k \notin ResultKeys
<1>1. OnTheWay(k) /\ KeyOK(k)
  BY DEF OnTheWay, PipelineInv
<1>2. /\ Current(k, "approved") /\ payload[k] = None
      /\ ~Approving(k) /\ k \notin ResultKeys
  BY <1>1 DEF KeyOK, ApprovedOK
<1>3. /\ k \notin NoticedKeys /\ ~Staging(k) /\ ~Publishing(k) /\ k \notin ReportedKeys
      /\ ~Paired(k) /\ ~Transiting(k)
  BY <1>1, <1>2 DEF KeyOK, NoticeOK, StagedOK, Current
<1> QED
  BY <1>1, <1>2, <1>3, KeyFacts

LEMMA ConsumerMoves ==
  ASSUME Inv, PipelineInv, NEW k \in Keys, Consuming(k), ConsumerFrame,
         UNCHANGED <<payload, coQueue>>, consumer'.pc = "idle" \/ consumer'.key = k
  PROVE  /\ \A j \in Keys : j # k => SamePlaces(j)
         /\ submitPc' = submitPc /\ QueuesAreSets' /\ NoRefusals'
         /\ ~(k \in NoticedKeys)' /\ ~Staging(k)' /\ ~Publishing(k)' /\ ~(k \in ReportedKeys)'
         /\ ~Paired(k)' /\ ~Transiting(k)' /\ ~Approving(k)' /\ ~(k \in ResultKeys)'
         /\ payload'[k] = None
<1>1. UNCHANGED <<psQueue, coQueue, payload, notices, preStore, registry, coordinator, submitPc, grants>>
  BY DEF ConsumerFrame
<1>2. \A j \in Keys : j # k => SamePlaces(j)
  BY <1>1 DEF SamePlaces, NoticedKeys, ReportedKeys, ResultKeys, Staging, Publishing, Paired,
     Transiting, Approving, Consuming
<1>3. QueuesAreSets' /\ NoRefusals'
  BY <1>1, QuietQueues, QuietHistory DEF PipelineInv
<1>4. /\ ~(k \in NoticedKeys)' /\ ~Staging(k)' /\ ~Publishing(k)' /\ ~(k \in ReportedKeys)'
      /\ ~Paired(k)' /\ ~Transiting(k)' /\ ~Approving(k)' /\ ~(k \in ResultKeys)'
      /\ payload'[k] = None
  BY <1>1, ConsumingAlone DEF NoticedKeys, ReportedKeys, ResultKeys, Staging, Publishing, Paired,
     Transiting, Approving
<1> QED
  BY <1>1, <1>2, <1>3, <1>4

\* Once all that the user has pending is executed, every step of the
\* consumer on the pair keeps the invariant.
LEMMA AfterExecution ==
  ASSUME Inv, PipelineInv, NEW k \in Keys, Consuming(k), ConsumerFrame,
         UNCHANGED <<payload, coQueue>>,
         \/ consumer'.pc = "idle"
         \/ consumer'.pc \notin {"idle", "execute"} /\ consumer'.key = k /\ Current(k, "approved")',
         AllAreExecuted(k[1])', pending'[k[1]] # << >> => 1 \in DOMAIN pending'[k[1]],
         \A v \in Users : v # k[1] => SameUser(v),
         \A r \in Requests : OwnerOf[r] = k[1] /\ Executed(r)' => submitPc[r] = "submitted",
         ExecutedOnce'
  PROVE  PipelineInv'
<1>1. KeyOK(k)'
  <2>1. NoticeOK(k)' /\ StagedOK(k)' /\ PayloadOK(k)'
    BY ConsumerMoves DEF NoticeOK, StagedOK, PayloadOK
  <2>2. Consuming(k)' => consumer'.pc # "execute" /\ Current(k, "approved")'
    BY DEF Consuming
  <2>3. ApprovedOK(k)'
    BY <2>2, ConsumerMoves DEF ApprovedOK
  <2> QED
    BY <2>1, <2>3 DEF KeyOK
<1>2. UserOK(k[1])'
  <2>1. StatusKnown(k[1])'
    BY ConsumingAlone, ConsumerMoves DEF PipelineInv, UserOK, StatusKnown, Current
  <2>2. OldAreExecuted(k[1])'
    BY DEF OldAreExecuted, AllAreExecuted
  <2>3. NewestKnown(k[1])'
    BY DEF NewestKnown, Newest, AllAreExecuted
  <2> QED
    BY <2>1, <2>2, <2>3 DEF UserOK
<1> QED
  BY <1>1, <1>2, ConsumingAlone, ConsumerMoves, PairStep

LEMMA ExecuteApprovedPipeline ==
  ASSUME Inv, PipelineInv, ExecuteApproved
  PROVE  PipelineInv'
<1>k. PICK k \in Keys : k = consumer.key
  BY DEF ExecuteApproved, Inv, TypeInv, HoldersOK
<1> DEFINE u == k[1]
           B == [token : 1..MaxApprovals, request : Requests]
<1>1. /\ consumer.pc = "execute" /\ consumer.request \in Requests
      /\ consumer.token \in 1..MaxApprovals /\ batches \in Seq(B)
  <2>1. consumer.pc = "execute"
    BY DEF ExecuteApproved
  <2>2. consumer.request \in Requests /\ batches \in Seq(B)
    BY <2>1 DEF Inv, TypeInv, TypeOK, HoldersOK, HistoryOK
  <2>3. consumer.token \in 1..MaxApprovals
    BY <2>1, TokenRange DEF Inv, ApprovalInv, SaysWhatWasGranted
  <2> QED
    BY <2>1, <2>2, <2>3
<1>b. PICK b \in B : b = [token |-> consumer.token, request |-> consumer.request]
  BY <1>1
<1>2. Consuming(k) /\ KeyOK(k) /\ Current(k, "approved") /\ u \in Users
  BY <1>k, <1>1, ConsumingAlone DEF Consuming
<1>r. PICK r \in Requests : r = Newest(u) /\ b.request = r
  BY <1>b, <1>1, <1>2 DEF KeyOK, ApprovedOK
<1>3. HasRequest(k) /\ submitPc[r] = "submitted" /\ ~Executed(r) /\ OwnerOf[r] = u /\ pending[u] # << >>
  BY <1>1, <1>2, <1>r, PendingFacts DEF KeyOK, ApprovedOK, HasRequest
<1>4. /\ batches' = Append(batches, b)
      /\ consumer'.pc \in {"find", "fail"} /\ consumer'.key = k
  BY <1>k, <1>b DEF ExecuteApproved, ConsumerAt, Inv, TypeInv, TypeOK, WorkersOK
<1>5. UNCHANGED <<pending, status, index, payload, coQueue>> /\ ConsumerFrame
  BY DEF ExecuteApproved, redis
<1>6. /\ \A q : Executed(q)' <=> Executed(q) \/ q = r
      /\ ExecutedOnce'
  <2>1. /\ DOMAIN batches = 1..Len(batches) /\ DOMAIN batches' = 1..(Len(batches) + 1)
        /\ \A i \in 1..Len(batches) : batches'[i] = batches[i]
        /\ batches'[Len(batches) + 1] = b /\ Len(batches) \in Nat
    BY <1>1, <1>4, AppendProperties, LenProperties
  <2>2. \A q : Executed(q)' <=> Executed(q) \/ q = r
    BY <1>r, <2>1 DEF Executed
  <2>3. ExecutedOnce'
    BY <1>3, <1>r, <2>1 DEF Executed, ExecutedOnce, PipelineInv
  <2> QED
    BY <2>2, <2>3
<1>7. AllAreExecuted(u)'
  <2>1. OldAreExecuted(u)
    BY <1>2 DEF PipelineInv, UserOK
  <2>2. ASSUME NEW i \in DOMAIN pending[u]
        PROVE  \E j \in DOMAIN batches' : batches'[j].request = pending[u][i]
    <3>1. Executed(pending[u][i])'
      BY <1>5, <1>6, <1>r, <2>1 DEF OldAreExecuted, Newest
    <3> QED
      BY <1>5, <3>1 DEF Executed
  <2> QED
    BY <1>5, <2>2 DEF AllAreExecuted, Executed
<1>8. \A v \in Users : v # u => SameUser(v)
  BY <1>3, <1>5, <1>6 DEF SameUser, ConsumerFrame
<1>9. \A q \in Requests : OwnerOf[q] = u /\ Executed(q)' => submitPc[q] = "submitted"
  BY <1>3, <1>6 DEF PipelineInv, SubmissionOK
<1>10. pending'[u] # << >> => 1 \in DOMAIN pending'[u]
  BY <1>2, <1>5, PendingFacts
<1>11. Current(k, "approved")'
  BY <1>2, <1>5 DEF Current
<1> QED
  BY <1>2, <1>4, <1>5, <1>6, <1>7, <1>8, <1>9, <1>10, <1>11, AfterExecution

\* Between the execution and the last status write.
LEMMA ConsumerQuiet ==
  ASSUME Inv, PipelineInv, NEW k \in Keys, Consuming(k), consumer.pc # "execute",
         batches' = batches, submitPc' = submitPc
  PROVE  /\ AllAreExecuted(k[1]) /\ ExecutedOnce'
         /\ pending' = pending =>
              AllAreExecuted(k[1])' /\ (pending'[k[1]] # << >> => 1 \in DOMAIN pending'[k[1]])
         /\ status' = status => Current(k, "approved")'
         /\ \A r \in Requests : OwnerOf[r] = k[1] /\ Executed(r)' => submitPc[r] = "submitted"
         /\ \A v \in Users :
              /\ pending'[v] = pending[v] /\ status'[v] = status[v]
              /\ \A p \in Projects : v \in index'[p] <=> v \in index[p]
              => SameUser(v)
<1>1. AllAreExecuted(k[1]) /\ Current(k, "approved") /\ k[1] \in Users
  BY ConsumingAlone DEF KeyOK, ApprovedOK
<1>2. pending' = pending =>
        AllAreExecuted(k[1])' /\ (pending'[k[1]] # << >> => 1 \in DOMAIN pending'[k[1]])
  BY <1>1, PendingFacts DEF AllAreExecuted, Executed
<1>3. status' = status => Current(k, "approved")'
  BY <1>1 DEF Current
<1>4. \A r \in Requests : OwnerOf[r] = k[1] /\ Executed(r)' => submitPc[r] = "submitted"
  BY SubmittedIfExecuted
<1>5. ExecutedOnce'
  BY QuietHistory DEF PipelineInv
<1>6. \A v \in Users :
        /\ pending'[v] = pending[v] /\ status'[v] = status[v]
        /\ \A p \in Projects : v \in index'[p] <=> v \in index[p]
        => SameUser(v)
  BY DEF SameUser, Executed
<1> QED
  BY <1>1, <1>2, <1>3, <1>4, <1>5, <1>6

LEMMA FindPendingChangePipeline ==
  ASSUME Inv, PipelineInv, FindPendingChange
  PROVE  PipelineInv'
<1>k. PICK k \in Keys : k = consumer.key
  BY DEF FindPendingChange, Inv, TypeInv, HoldersOK
<1>1. /\ consumer.pc = "find" /\ Consuming(k) /\ ConsumerFrame
      /\ UNCHANGED <<pending, status, index, payload, coQueue, batches, submitPc>>
  BY <1>k DEF FindPendingChange, Consuming, redis, ConsumerFrame
<1>2. consumer'.pc \in {"remove", "fail"} /\ consumer'.key = k
  BY <1>k DEF FindPendingChange, FailHere, ConsumerAt, Inv, TypeInv, TypeOK, WorkersOK
<1> QED
  BY <1>1, <1>2, ConsumerQuiet, AfterExecution

LEMMA RemovePendingChangePipeline ==
  ASSUME Calm, Inv, PipelineInv, RemovePendingChange
  PROVE  PipelineInv'
<1>k. PICK k \in Keys : k = consumer.key
  BY DEF RemovePendingChange, Inv, TypeInv, HoldersOK
<1> DEFINE u == k[1]
<1>1. /\ consumer.pc = "remove" /\ Consuming(k) /\ ConsumerFrame
      /\ UNCHANGED <<status, index, payload, coQueue, batches, submitPc>>
  BY <1>k DEF RemovePendingChange, Consuming, ConsumerFrame, KeepStatus
<1>2. consumer'.pc = "unindex" /\ consumer'.key = k
  BY <1>k, NothingFails DEF RemovePendingChange, FailHere, ConsumerAt, Inv, TypeInv, TypeOK, WorkersOK
<1>3. /\ u \in Users /\ pending \in [Users -> Seq(Requests)] /\ AllAreExecuted(u)
      /\ pending' = [pending EXCEPT ![u] = RemoveFirst(@, consumer.item)]
  BY <1>k, <1>1, ConsumerQuiet, KeyFacts, NothingFails
     DEF RemovePendingChange, FailHere, Inv, TypeInv, TypeOK, RedisOK
<1>4. /\ \A i \in DOMAIN pending'[u] : Executed(pending'[u][i])
      /\ pending'[u] # << >> => 1 \in DOMAIN pending'[u]
  <2>1. PICK E : E = {q \in Requests : Executed(q)}
    OBVIOUS
  <2>2. pending[u] \in Seq(E)
    <3>1. /\ pending[u] \in Seq(Requests) /\ Len(pending[u]) \in Nat
          /\ DOMAIN pending[u] = 1..Len(pending[u])
          /\ \A i \in DOMAIN pending[u] : pending[u][i] \in E
      BY <1>3, <2>1, LenProperties DEF AllAreExecuted
    <3>2. pending[u] \in [1..Len(pending[u]) -> E]
      BY <3>1
    <3> QED
      BY <3>1, <3>2, FunctionIsSeq
  <2>3. pending'[u] \in Seq(E)
    BY <1>3, <2>2, RemoveFirstType
  <2>4. \A i \in DOMAIN pending'[u] : pending'[u][i] \in E
    BY <2>3
  <2>5. pending'[u] # << >> => 1 \in DOMAIN pending'[u]
    BY <2>3, Shifted
  <2> QED
    BY <2>1, <2>4, <2>5
<1>5. AllAreExecuted(u)'
  BY <1>1, <1>4 DEF AllAreExecuted, Executed
<1>6. \A v \in Users : v # u => SameUser(v)
  BY <1>1, <1>3, ConsumerQuiet
<1> QED
  BY <1>1, <1>2, <1>4, <1>5, <1>6, ConsumerQuiet, AfterExecution

LEMMA RemoveFromIndexPipeline ==
  ASSUME Calm, Inv, PipelineInv, RemoveFromIndex
  PROVE  PipelineInv'
<1>k. PICK k \in Keys : k = consumer.key
  BY DEF RemoveFromIndex, Inv, TypeInv, HoldersOK
<1>1. /\ consumer.pc = "unindex" /\ Consuming(k) /\ ConsumerFrame
      /\ UNCHANGED <<pending, status, payload, coQueue, batches, submitPc>>
  BY <1>k DEF RemoveFromIndex, Consuming, ConsumerFrame, KeepStatus
<1>2. consumer'.pc = "finish" /\ consumer'.key = k
  BY <1>k, NothingFails DEF RemoveFromIndex, FailHere, ConsumerAt, Inv, TypeInv, TypeOK, WorkersOK
<1>3. \A v \in Users : v # k[1] => SameUser(v)
  <2>1. /\ index \in [Projects -> SUBSET Users]
        /\ index' = [index EXCEPT ![k[2]] = @ \ {k[1]}]
    BY <1>k, NothingFails DEF RemoveFromIndex, FailHere, Inv, TypeInv, TypeOK, RedisOK
  <2>2. \A v \in Users, p \in Projects : v # k[1] => (v \in index'[p] <=> v \in index[p])
    BY <2>1
  <2> QED
    BY <1>1, <2>2, ConsumerQuiet
<1> QED
  BY <1>1, <1>2, <1>3, ConsumerQuiet, AfterExecution

LEMMA FinishResultPipeline ==
  ASSUME Calm, Inv, PipelineInv, FinishResult
  PROVE  PipelineInv'
<1>k. PICK k \in Keys : k = consumer.key
  BY DEF FinishResult, Inv, TypeInv, HoldersOK
<1>1. /\ consumer.pc \in {"finish", "fail"} /\ Consuming(k) /\ ConsumerFrame
      /\ UNCHANGED <<pending, index, payload, coQueue, batches, submitPc>>
      /\ consumer'.pc = "idle"
  BY <1>k DEF FinishResult, Consuming, ConsumerFrame, IdleConsumer
<1>2. \A v \in Users : v # k[1] => status'[v] = status[v]
  <2>1. PICK s \in States : SetUserProjectStatus(k[1], k[2], s)
    BY <1>k, NothingFails DEF FinishResult, Inv, States, Final
  <2> QED
    BY <2>1, KeyFacts, StatusWritten DEF Inv
<1> QED
  BY <1>1, <1>2, ConsumerQuiet, AfterExecution

-----------------------------------------------------------------------------
(* Without keyspace events the listener has nothing to do.                 *)

NoEvents == hsetEvents = << >> /\ listener.pc = "idle"

LEMMA NextNoEvents ==
  ASSUME "keyspaceEvents" \notin World, NoEvents, [Next]_vars
  PROVE  NoEvents'
<1> USE DEF NoEvents
<1>1. ASSUME NEW u, NEW p, NEW s, SetUserProjectStatus(u, p, s) PROVE hsetEvents' = hsetEvents
  BY <1>1 DEF SetUserProjectStatus
<1>2. CASE \E r \in Requests : CheckConflict(r)
  BY <1>2 DEF CheckConflict
<1>3. CASE \E r \in Requests : SubmitStep(r)
  BY <1>1, <1>3 DEF SubmitStep, PushRequest, SetWaiting, AddToIndex, NotifyPendingUpdate, KeepStatus
<1>4. CASE ListenerStep
  BY <1>4 DEF ListenerStep, ReadEvent, OfferIfWaiting
<1>5. CASE PreStoreStep
  BY <1>1, <1>5 DEF PreStoreStep, FindPendingUpdate, StagePreStoragePayload, MarkPreStoraged,
     NotifyApprovalCoordinator, PreStoreFrame, KeepStatus
<1>6. CASE \E k \in Keys : ApproveChange(k) \/ RefuseChange(k)
  BY <1>6 DEF ApproveChange, RefuseChange, SendVerdict, workers
<1>7. CASE CoordinatorStep
  BY <1>1, <1>7 DEF CoordinatorStep, HandleApprovalMessage, HandlePreStorageMessage, CheckAndTransition,
     NotifyConsumerCoordinator, CoordinatorFrame, KeepStatus
<1>8. CASE (\E k \in Keys : FindExpired(k)) \/ DeleteExpired
  BY <1>8 DEF FindExpired, DeleteExpired, CleanupFrame
<1>9. CASE ConsumerStep
  BY <1>1, <1>9 DEF ConsumerStep, TakeResult, ExecuteApproved, FindPendingChange, RemovePendingChange,
     RemoveFromIndex, FinishResult, ConsumerFrame, KeepStatus
<1>10. CASE Restart
  BY <1>10 DEF Restart, IdleListener
<1>11. CASE (\E u \in Users : ExpirePending(u)) \/ (\E k \in Keys : ExpirePayload(k))
  BY <1>11 DEF ExpirePending, ExpirePayload, workers
<1>12. CASE UNCHANGED vars
  BY <1>12 DEF vars, workers
<1> QED
  BY <1>2, <1>3, <1>4, <1>5, <1>6, <1>7, <1>8, <1>9, <1>10, <1>11, <1>12 DEF Next

-----------------------------------------------------------------------------
(* The invariant, and what follows from it.                                *)

CalmInv == Inv /\ NoEvents /\ PipelineInv

LEMMA NextPipeline ==
  ASSUME Calm, Inv, NoEvents, PipelineInv, [Next]_vars
  PROVE  PipelineInv'
<1>1. CASE \E r \in Requests : CheckConflict(r)
  BY <1>1, CheckConflictInv
<1>2. CASE \E r \in Requests : SubmitStep(r)
  BY <1>2, PushRequestInv, SetWaitingInv, AddToIndexInv, NotifyPendingUpdateInv DEF SubmitStep
<1>3. CASE ListenerStep
  BY <1>3 DEF ListenerStep, ReadEvent, OfferIfWaiting, NoEvents
<1>4. CASE PreStoreStep
  BY <1>4, FindPendingUpdateInv, StagePayloadInv, MarkPreStoragedInv, NotifyCoordinatorInv
     DEF PreStoreStep
<1>5. CASE \E k \in Keys : ApproveChange(k) \/ RefuseChange(k)
  BY <1>5, SendVerdictPipeline
<1>6. CASE CoordinatorStep
  BY <1>6, HandleApprovalPipeline, HandlePreStoragePipeline, CheckAndTransitionPipeline,
     NotifyConsumerPipeline DEF CoordinatorStep
<1>7. CASE (\E k \in Keys : FindExpired(k)) \/ DeleteExpired
  BY <1>7, CleanupPipeline
<1>8. CASE ConsumerStep
  BY <1>8, TakeResultPipeline, ExecuteApprovedPipeline, FindPendingChangePipeline,
     RemovePendingChangePipeline, RemoveFromIndexPipeline, FinishResultPipeline DEF ConsumerStep
<1>9. CASE Restart
  BY <1>9 DEF Restart, Calm, Inv, TypeInv, TypeOK, HistoryOK
<1>10. CASE (\E u \in Users : ExpirePending(u)) \/ (\E k \in Keys : ExpirePayload(k))
  BY <1>10 DEF ExpirePending, ExpirePayload, Calm
<1>11. CASE UNCHANGED vars
  <2>1. /\ UNCHANGED <<pending, status, index, payload, psQueue, coQueue, notices, preStore, registry,
                       coordinator, consumer, submitPc, grants, batches>>
    BY <1>11 DEF vars, redis, queues, workers, history
  <2>2. /\ \A v \in Users : SameUser(v)
        /\ \A j \in Keys : SamePlaces(j)
    BY <2>1 DEF SameUser, Executed, SamePlaces, NoticedKeys, ReportedKeys, ResultKeys, Staging,
       Publishing, Paired, Transiting, Approving, Consuming
  <2> QED
    BY <2>1, <2>2, QuietStep, QuietQueues, QuietHistory DEF PipelineInv
<1> QED
  BY <1>1, <1>2, <1>3, <1>4, <1>5, <1>6, <1>7, <1>8, <1>9, <1>10, <1>11 DEF Next

LEMMA InitCalm == Init => CalmInv
BY InitInv, InitPipeline DEF Init, NoEvents, IdleListener, CalmInv

LEMMA NextCalm == Calm /\ CalmInv /\ [Next]_vars => CalmInv'
BY NextInv, NextNoEvents, NextPipeline DEF CalmInv, Calm

\* The invariant of every calm behaviour.
THEOREM CalmPipeline == Calm => (Spec => []CalmInv)
<1> SUFFICES ASSUME Calm PROVE Spec => []CalmInv
  OBVIOUS
<1>1. Init => CalmInv
  BY InitCalm
<1>2. CalmInv /\ [Next]_vars => CalmInv'
  BY NextCalm
<1> QED
  BY <1>1, <1>2, PTL DEF Spec

\* A staged request that nobody is deciding is on the admin's page.
THEOREM CalmStagedAreListed == Calm => (Spec => []StagedRequestsAreListed)
<1> SUFFICES ASSUME Calm PROVE Spec => []StagedRequestsAreListed
  OBVIOUS
<1>1. Spec => []CalmInv
  BY CalmPipeline
<1>2. ASSUME CalmInv PROVE StagedRequestsAreListed
  <2> SUFFICES ASSUME NEW k \in Keys, payload[k] # None, ~Deciding(k)
               PROVE  payload[k] \in ListedRequests(k[2])
    BY DEF StagedRequestsAreListed
  <2>0. Inv /\ KeyOK(k) /\ UserOK(k[1]) /\ k[1] \in Users
    BY <1>2, KeyFacts DEF CalmInv, PipelineInv
  <2>r. PICK r \in Requests : r = payload[k] /\ r = Newest(k[1]) /\ OwnerOf[r] = k[1]
    BY <2>0, PendingFacts DEF KeyOK, PayloadOK, HasRequest
  <2>1. HasRequest(k) /\ Key(r) = k /\ submitPc[r] = "submitted" /\ ~Executed(r)
    BY <2>0, <2>r DEF KeyOK, PayloadOK, HasRequest
  <2>2. ~Settled(k[1]) /\ status[k[1]].project = ProjectOf[r] /\ k[1] \in index[ProjectOf[r]]
    BY <2>0, <2>1, <2>r DEF UserOK, NewestKnown, HasRequest
  <2>3. ProjectOf[r] = k[2]
    BY <2>1, KeyFacts
  <2>4. status[k[1]].state \in Pending
    <3>1. status[k[1]].state \in States
      BY <2>0, <2>2 DEF Settled, Inv, TypeInv, TypeOK, RedisOK, StatusRecord
    <3>2. ~Current(k, "approved")
      BY <2>0 DEF KeyOK, PayloadOK, Approving, ResultKeys, KeysIn, Deciding
    <3> QED
      BY <2>2, <2>3, <3>1, <3>2 DEF Settled, Current, States
  <2>5. r \in ToSet(pending[k[1]])
    BY <2>0, <2>1, <2>r, PendingFacts DEF HasRequest, Newest, ToSet
  <2> QED
    BY <2>2, <2>3, <2>4, <2>5, <2>r DEF ListedRequests, IndexedRequests, Settled
<1> QED
  BY <1>1, <1>2, PTL

-----------------------------------------------------------------------------
\* Apart from a submission no step makes a request wait.
LEMMA OtherSteps ==
  ASSUME Inv, NoEvents, "ttl" \notin World, [Next]_vars,
         ~\E r \in Requests : CheckConflict(r) \/ SubmitStep(r)
  PROVE  /\ submitPc' = submitPc \/ Restart
         /\ \A r : Executed(r) => Executed(r)'
         /\ \A u \in Users : \A r : r \in ToSet(pending'[u]) => r \in ToSet(pending[u])
<1>1. CASE ListenerStep
  BY <1>1 DEF ListenerStep, ReadEvent, OfferIfWaiting, NoEvents
<1>2. CASE PreStoreStep
  BY <1>2 DEF PreStoreStep, FindPendingUpdate, StagePreStoragePayload, MarkPreStoraged,
     NotifyApprovalCoordinator, PreStoreFrame, history, Executed
<1>3. CASE \E k \in Keys : ApproveChange(k) \/ RefuseChange(k)
  BY <1>3 DEF ApproveChange, RefuseChange, SendVerdict, redis, workers, Executed
<1>4. CASE CoordinatorStep
  BY <1>4, CoordinatorUsers DEF CoordinatorStep, HandleApprovalMessage, HandlePreStorageMessage,
     CheckAndTransition, NotifyConsumerCoordinator, Executed
<1>5. CASE (\E k \in Keys : FindExpired(k)) \/ DeleteExpired
  BY <1>5 DEF FindExpired, DeleteExpired, CleanupFrame, redis, history, Executed
<1>6. CASE ConsumerStep
  <2>1. submitPc' = submitPc
    BY <1>6 DEF ConsumerStep, TakeResult, ExecuteApproved, FindPendingChange, RemovePendingChange,
       RemoveFromIndex, FinishResult, ConsumerFrame
  <2>2. CASE ExecuteApproved
    <3>1. PICK b : batches' = Append(batches, b)
      BY <2>2 DEF ExecuteApproved
    <3>2. \A i \in DOMAIN batches : i \in DOMAIN batches' /\ batches'[i] = batches[i]
      <4>1. batches \in Seq([token : 1..MaxApprovals, request : Requests])
        BY DEF Inv, TypeInv, TypeOK, HistoryOK
      <4> QED
        BY <3>1, <4>1
    <3> QED
      BY <2>1, <2>2, <3>2 DEF ExecuteApproved, redis, Executed
  <2>3. CASE RemovePendingChange
    <3>1. PICK v \in Users : \E e :
            /\ v = consumer.key[1] /\ batches' = batches
            /\ pending' = [pending EXCEPT ![v] = RemoveFirst(@, e)] \/ pending' = pending
      BY <2>3, KeyFacts DEF RemovePendingChange, Inv, TypeInv, HoldersOK
    <3>e. PICK e : pending' = [pending EXCEPT ![v] = RemoveFirst(@, e)] \/ pending' = pending
      BY <3>1
    <3>2. pending \in [Users -> Seq(Requests)]
      BY DEF Inv, TypeInv, TypeOK, RedisOK
    <3>3. \A r : r \in ToSet(RemoveFirst(pending[v], e)) => r \in ToSet(pending[v])
      <4>1. PICK E : E = {pending[v][i] : i \in DOMAIN pending[v]}
        OBVIOUS
      <4>2. pending[v] \in Seq(E)
        <5>1. Len(pending[v]) \in Nat /\ pending[v] \in [1..Len(pending[v]) -> E]
          BY <3>2, <4>1, LenProperties
        <5> QED
          BY <5>1, FunctionIsSeq
      <4>3. RemoveFirst(pending[v], e) \in Seq(E)
        BY <4>2, RemoveFirstType
      <4>4. \A i \in DOMAIN RemoveFirst(pending[v], e) : RemoveFirst(pending[v], e)[i] \in E
        BY <4>3
      <4> QED
        BY <4>1, <4>4 DEF ToSet
    <3> QED
      BY <2>1, <3>1, <3>e, <3>2, <3>3 DEF Executed
  <2>4. CASE TakeResult \/ FindPendingChange \/ RemoveFromIndex \/ FinishResult
    BY <2>1, <2>4 DEF TakeResult, FindPendingChange, RemoveFromIndex, FinishResult, redis, Executed
  <2> QED
    BY <1>6, <2>2, <2>3, <2>4 DEF ConsumerStep
<1>7. CASE Restart
  BY <1>7 DEF Restart, redis, Executed
<1>8. CASE (\E u \in Users : ExpirePending(u)) \/ (\E k \in Keys : ExpirePayload(k))
  BY <1>8 DEF ExpirePending, ExpirePayload
<1>9. CASE UNCHANGED vars
  BY <1>9 DEF vars, redis, workers, history, Executed
<1> QED
  BY <1>1, <1>2, <1>3, <1>4, <1>5, <1>6, <1>7, <1>8, <1>9 DEF Next

-----------------------------------------------------------------------------
(* When no admin gives a second verdict before a page shows something new, *)
(* what an approval executes is what it was given for.  The invariant      *)
(* follows the verdict through the queues: while it is on its way, the     *)
(* newest request of its user is one the page showed, and it is the only   *)
(* verdict on that user on its way.                                        *)

Reviewing == "oneVerdict" \in Discipline

Outstanding(t) == \/ InQueue(apQueue, t) \/ Held(t)
                  \/ InQueue(coQueue, t) \/ Executing(t)
Grantee(t) == grants[t].key[1]
AsShown(t) ==
  /\ pending[Grantee(t)] # << >> /\ Newest(Grantee(t)) \in grants[t].listed
  /\ ~Executed(Newest(Grantee(t)))
  /\ submitPc[Newest(Grantee(t))] \in {"stated", "indexed", "submitted"}
ReviewInv ==
  /\ \A t \in DOMAIN grants : Outstanding(t) => AsShown(t)
  /\ \A s, t \in DOMAIN grants :
       Outstanding(s) /\ Outstanding(t) /\ Grantee(s) = Grantee(t) => s = t
  /\ ExecutesWhatWasReviewed

LEMMA OutstandingIsGranted ==
  ASSUME Inv, NEW t, Outstanding(t)
  PROVE  t \in DOMAIN grants
<1>1. SaysWhatWasGranted
  BY DEF Inv, ApprovalInv
<1>2. Held(t) => t \in DOMAIN grants
  BY <1>1 DEF SaysWhatWasGranted, Granted, Held, InEntry
<1>3. InQueue(apQueue, t) \/ InQueue(coQueue, t) \/ Executing(t) => t \in DOMAIN grants
  BY <1>1 DEF SaysWhatWasGranted, Granted, InQueue, Executing
<1> QED
  BY <1>2, <1>3 DEF Outstanding

LEMMA GrantFacts ==
  ASSUME Inv, NEW t \in DOMAIN grants
  PROVE  grants[t].key \in Keys /\ Grantee(t) \in Users
<1>1. grants \in Seq([key : Keys, approved : BOOLEAN, listed : SUBSET Requests])
  BY DEF Inv, TypeInv, TypeOK, HistoryOK
<1>2. grants[t] \in [key : Keys, approved : BOOLEAN, listed : SUBSET Requests]
  BY <1>1, LenProperties, ElementOfSeq
<1> QED
  BY <1>2, KeyFacts DEF Grantee

\* A verdict on its way was on its way before, unless it was just given.
LEMMA QuietOutstanding ==
  ASSUME UNCHANGED <<apQueue, coQueue, coordinator>>,
         \A k \in Keys : registry'[k] # None => registry'[k] = registry[k],
         consumer'.pc = "execute" => consumer' = consumer,
         NEW t, Outstanding(t)'
  PROVE  Outstanding(t)
BY DEF Outstanding, InQueue, Held, InEntry, Executing

LEMMA CoordinatorOutstanding ==
  ASSUME Calm, Inv, CoordinatorStep, NEW t, Outstanding(t)'
  PROVE  Outstanding(t)
<1> USE DEF Outstanding
<1>0. consumer' = consumer /\ (Executing(t)' => Executing(t))
  BY DEF CoordinatorStep, HandleApprovalMessage, HandlePreStorageMessage, CheckAndTransition,
     NotifyConsumerCoordinator, CoordinatorFrame, Executing
<1>1. CASE HandleApprovalMessage
  <2>1. /\ apQueue \in Seq(Verdict) /\ apQueue # << >> /\ apQueue' = Tail(apQueue) /\ coQueue' = coQueue
    BY <1>1, TokenRange DEF HandleApprovalMessage
  <2>2. PICK m \in Verdict : m = Head(apQueue)
    BY <2>1, Shifted
  <2>3. Granted(m.key, m.approved, m.token)
    BY <2>1, <2>2, Shifted DEF Inv, ApprovalInv, SaysWhatWasGranted
  <2>4. PICK e \in Entry : /\ StoreAndCheck(m.key, e) /\ e.approvalRecv
                           /\ e.approved = m.approved /\ e.token = m.token
    <3>1. Recorded(Stored(m.key), m) \in Entry
      BY StoredType, RecordedType, TokenRange, <2>3 DEF Verdict, Inv
    <3> QED
      BY <1>1, <2>2, <3>1 DEF HandleApprovalMessage, Recorded
  <2>5. Held(t)' => InEntry(t) \/ t = m.token
    BY <2>3, <2>4, StoreAndCheckHeld DEF Verdict
  <2>6. InQueue(apQueue, m.token) /\ (InQueue(apQueue, t)' => InQueue(apQueue, t))
    <3>1. InQueue(apQueue, m.token) /\ (InQueue(Tail(apQueue), t) => InQueue(apQueue, t))
      BY <2>1, <2>2, AfterHead
    <3> QED
      BY <2>1, <3>1, Zenon DEF InQueue
  <2> QED
    BY <1>0, <2>1, <2>5, <2>6 DEF Held, InQueue
<1>2. CASE HandlePreStorageMessage
  <2>1. UNCHANGED <<apQueue, coQueue>> /\ psQueue \in Seq(Keys) /\ psQueue # << >>
    BY <1>2 DEF HandlePreStorageMessage, Inv, TypeInv, TypeOK, QueuesOK
  <2>2. PICK k \in Keys : k = Head(psQueue)
    BY <2>1, Shifted
  <2>3. Stored(k) \in Entry
    BY StoredType DEF Inv
  <2>4. PICK e \in Entry : /\ StoreAndCheck(k, e) /\ e.approvalRecv = Stored(k).approvalRecv
                           /\ e.approved = Stored(k).approved /\ e.token = Stored(k).token
    <3>1. PICK e : e = [Stored(k) EXCEPT !.preStorageRecv = TRUE]
      OBVIOUS
    <3>2. /\ e \in Entry /\ e.approvalRecv = Stored(k).approvalRecv
          /\ e.approved = Stored(k).approved /\ e.token = Stored(k).token
      BY <2>3, <3>1 DEF Entry
    <3> QED
      BY <1>2, <2>2, <3>1, <3>2 DEF HandlePreStorageMessage
  <2>5. e.approvalRecv => Granted(k, e.approved, e.token) /\ InEntry(e.token)
    <3>1. CASE registry[k] = None
      BY <2>4, <3>1 DEF Stored, NewEntry
    <3>2. CASE registry[k] # None
      BY <2>4, <3>2 DEF Stored, Inv, ApprovalInv, SaysWhatWasGranted, InEntry
    <3> QED
      BY <3>1, <3>2
  <2>6. Held(t)' => InEntry(t)
    BY <2>4, <2>5, StoreAndCheckHeld
  <2> QED
    BY <1>0, <2>1, <2>6 DEF Held, InQueue
<1>3. CASE CheckAndTransition
  <2>1. UNCHANGED <<apQueue, coQueue, registry>> /\ coordinator'.token = coordinator.token
        /\ coordinator.pc # "idle"
    BY <1>3, NothingFails DEF CheckAndTransition, queues, Inv, TypeInv, TypeOK, WorkersOK
  <2> QED
    BY <1>0, <2>1 DEF InQueue, Held, InEntry
<1>4. CASE NotifyConsumerCoordinator
  <2>1. /\ coordinator.pc # "idle" /\ coordinator'.pc = "idle" /\ apQueue' = apQueue
        /\ registry' = [registry EXCEPT ![coordinator.key] = None]
        /\ coQueue' = Append(coQueue, [key |-> coordinator.key, approved |-> coordinator.approved,
                                       token |-> coordinator.token])
    BY <1>4, NothingFails DEF NotifyConsumerCoordinator, WithoutEntry, IdleCoordinator, Inv
  <2>2. PICK m \in Verdict : m = [key |-> coordinator.key, approved |-> coordinator.approved,
                                  token |-> coordinator.token]
    <3>1. /\ coordinator.key \in Keys /\ coordinator.approved \in BOOLEAN
          /\ coordinator.token \in 1..MaxApprovals
      BY <2>1 DEF Inv, TypeInv, TypeOK, WorkersOK, HoldersOK
    <3> QED
      BY <3>1 DEF Verdict
  <2>3. InQueue(coQueue, t)' => InQueue(coQueue, t) \/ coordinator.token = t
    <3>1. coQueue \in Seq(Verdict)
      BY DEF Inv, TypeInv, TypeOK, QueuesOK
    <3>2. InQueue(Append(coQueue, m), t) <=> InQueue(coQueue, t) \/ m.token = t
      BY <3>1, InAppended
    <3>3. m.token = coordinator.token /\ coQueue' = Append(coQueue, m)
      BY <2>1, <2>2
    <3> QED
      BY <3>2, <3>3, Zenon DEF InQueue
  <2>4. InEntry(t)' => InEntry(t)
    BY <2>1 DEF InEntry, Inv, TypeInv, TypeOK, WorkersOK
  <2> QED
    BY <1>0, <2>1, <2>3, <2>4 DEF InQueue, Held
<1> QED
  BY <1>1, <1>2, <1>3, <1>4 DEF CoordinatorStep

LEMMA ConsumerOutstanding ==
  ASSUME Inv, ConsumerStep, NEW t, Outstanding(t)'
  PROVE  Outstanding(t)
<1>0. UNCHANGED <<apQueue, registry, coordinator>>
  BY DEF ConsumerStep, TakeResult, ExecuteApproved, FindPendingChange, RemovePendingChange,
     RemoveFromIndex, FinishResult, ConsumerFrame
<1>1. CASE TakeResult
  <2>1. coQueue \in Seq(Verdict) /\ coQueue # << >> /\ coQueue' = Tail(coQueue)
        /\ consumer'.token = Head(coQueue).token
    BY <1>1 DEF TakeResult, Inv, TypeInv, TypeOK, QueuesOK
  <2>2. /\ InQueue(coQueue, consumer'.token)
        /\ InQueue(coQueue, t)' => InQueue(coQueue, t)
    <3>1. InQueue(coQueue, Head(coQueue).token) /\ (InQueue(Tail(coQueue), t) => InQueue(coQueue, t))
      BY <2>1, AfterHead
    <3> QED
      BY <2>1, <3>1, Zenon DEF InQueue
  <2> QED
    BY <1>0, <2>2 DEF Outstanding, Executing, Held, InEntry, InQueue
<1>2. CASE ~TakeResult
  <2>1. coQueue' = coQueue
    BY <1>2 DEF ConsumerStep, ExecuteApproved, FindPendingChange, RemovePendingChange, RemoveFromIndex,
       FinishResult
  <2>2. consumer'.pc # "execute"
    <3> USE DEF ConsumerAt, FailHere, Inv, TypeInv, TypeOK, WorkersOK
    <3>1. CASE ExecuteApproved
      BY <3>1 DEF ExecuteApproved
    <3>2. CASE FindPendingChange
      BY <3>2 DEF FindPendingChange
    <3>3. CASE RemovePendingChange
      BY <3>3 DEF RemovePendingChange
    <3>4. CASE RemoveFromIndex
      BY <3>4 DEF RemoveFromIndex
    <3>5. CASE FinishResult
      BY <3>5 DEF FinishResult, IdleConsumer
    <3> QED
      BY <1>2, <3>1, <3>2, <3>3, <3>4, <3>5 DEF ConsumerStep
  <2> QED
    BY <1>0, <2>1, <2>2, QuietOutstanding
<1> QED
  BY <1>1, <1>2

LEMMA OutstandingWas ==
  ASSUME Calm, Inv, [Next]_vars, \A k \in Keys : ~ApproveChange(k) /\ ~RefuseChange(k),
         NEW t, Outstanding(t)'
  PROVE  Outstanding(t)
<1>1. CASE \/ \E r \in Requests : CheckConflict(r) \/ SubmitStep(r)
           \/ ListenerStep
           \/ PreStoreStep
           \/ (\E k \in Keys : FindExpired(k)) \/ DeleteExpired
  <2>1. UNCHANGED <<apQueue, coQueue, coordinator, consumer>>
    BY <1>1 DEF CheckConflict, SubmitStep, PushRequest, SetWaiting, AddToIndex, NotifyPendingUpdate,
       ListenerStep, ReadEvent, OfferIfWaiting, PreStoreStep, FindPendingUpdate, StagePreStoragePayload,
       MarkPreStoraged, NotifyApprovalCoordinator, PreStoreFrame, FindExpired, DeleteExpired,
       CleanupFrame, queues
  <2>2. registry' = registry \/ registry' = [registry EXCEPT ![cleaning] = None]
    BY <1>1 DEF CheckConflict, SubmitStep, PushRequest, SetWaiting, AddToIndex, NotifyPendingUpdate,
       ListenerStep, ReadEvent, OfferIfWaiting, PreStoreStep, FindPendingUpdate, StagePreStoragePayload,
       MarkPreStoraged, NotifyApprovalCoordinator, PreStoreFrame, FindExpired, DeleteExpired
  <2>3. \A k \in Keys : registry'[k] # None => registry'[k] = registry[k]
    BY <2>2 DEF Inv, TypeInv, TypeOK, WorkersOK
  <2> QED
    BY <2>1, <2>3, QuietOutstanding
<1>2. CASE CoordinatorStep
  BY <1>2, CoordinatorOutstanding
<1>3. CASE ConsumerStep
  BY <1>3, ConsumerOutstanding
<1>4. CASE \/ Restart \/ (\E u \in Users : ExpirePending(u)) \/ (\E k \in Keys : ExpirePayload(k))
  BY <1>4 DEF Restart, Calm, Inv, TypeInv, TypeOK, HistoryOK, ExpirePending, ExpirePayload
<1>5. CASE UNCHANGED vars
  BY <1>5, QuietOutstanding DEF vars, queues, workers
<1> QED
  BY <1>1, <1>2, <1>3, <1>4, <1>5 DEF Next

\* Outside the submissions and the consumer's removal the lists stay.
LEMMA ListWriters ==
  ASSUME Calm, [Next]_vars, ~\E r \in Requests : CheckConflict(r) \/ SubmitStep(r),
         ~RemovePendingChange
  PROVE  pending' = pending
<1>1. CASE ListenerStep \/ PreStoreStep
  BY <1>1 DEF ListenerStep, ReadEvent, OfferIfWaiting, PreStoreStep, FindPendingUpdate,
     StagePreStoragePayload, MarkPreStoraged, NotifyApprovalCoordinator, PreStoreFrame, redis
<1>2. CASE \E k \in Keys : ApproveChange(k) \/ RefuseChange(k)
  BY <1>2 DEF ApproveChange, RefuseChange, SendVerdict, redis
<1>3. CASE CoordinatorStep
  BY <1>3, CoordinatorUsers DEF CoordinatorStep, HandleApprovalMessage, HandlePreStorageMessage,
     CheckAndTransition, NotifyConsumerCoordinator
<1>4. CASE (\E k \in Keys : FindExpired(k)) \/ DeleteExpired \/ Restart
  BY <1>4 DEF FindExpired, DeleteExpired, CleanupFrame, Restart, redis
<1>5. CASE ConsumerStep
  BY <1>5 DEF ConsumerStep, TakeResult, ExecuteApproved, FindPendingChange, RemoveFromIndex,
     FinishResult, redis
<1>6. CASE (\E u \in Users : ExpirePending(u)) \/ (\E k \in Keys : ExpirePayload(k))
  BY <1>6 DEF ExpirePending, ExpirePayload, Calm
<1>7. CASE UNCHANGED vars
  BY <1>7 DEF vars, redis
<1> QED
  BY <1>1, <1>2, <1>3, <1>4, <1>5, <1>6, <1>7 DEF Next

\* What a verdict on its way was given for stays the newest request of its
\* user until it is executed.
LEMMA ShownStays ==
  ASSUME Calm, CalmInv, [Next]_vars, NEW t \in DOMAIN grants, grants'[t] = grants[t],
         AsShown(t), \A i \in DOMAIN batches' : batches'[i].request # Newest(Grantee(t))
  PROVE  AsShown(t)'
<1>0. Inv /\ PipelineInv
  BY DEF CalmInv
<1>u. PICK u \in Users : u = Grantee(t) /\ u = Grantee(t)'
  BY <1>0, GrantFacts DEF Grantee
<1>n. PICK n \in Requests : n = Newest(u) /\ OwnerOf[n] = u /\ pending[u] # << >>
  BY <1>0, <1>u, PendingFacts DEF AsShown
<1>1. /\ n \in grants[t].listed /\ ~Executed(n)
      /\ submitPc[n] \in {"stated", "indexed", "submitted"}
  BY <1>u, <1>n DEF AsShown
<1>2. ~Settled(u)
  BY <1>0, <1>n, <1>1 DEF PipelineInv, UserOK, NewestKnown
<1>3. SUFFICES /\ pending'[u] = pending[u]
               /\ submitPc'[n] \in {"stated", "indexed", "submitted"}
  BY <1>u, <1>n, <1>1 DEF AsShown, Newest, Executed
<1>4. CASE \E r \in Requests : CheckConflict(r)
  <2>1. PICK r \in Requests : CheckConflict(r)
    BY <1>4
  <2>2. submitPc[r] = "new" /\ pending' = pending /\ \A q \in Requests : q # r => submitPc'[q] = submitPc[q]
    BY <1>0, <2>1 DEF CheckConflict, SubmitTo, redis, Inv, TypeInv, TypeOK, WorkersOK
  <2> QED
    BY <1>1, <2>2
<1>5. CASE \E r \in Requests : SubmitStep(r)
  <2>1. PICK r \in Requests : SubmitStep(r)
    BY <1>5
  <2>2. submitPc \in [Requests -> SubmitStates] /\ pending \in [Users -> Seq(Requests)] /\ ~Fails
    BY <1>0, NothingFails DEF Inv, TypeInv, TypeOK, WorkersOK, RedisOK
  <2>3. CASE PushRequest(r)
    <3>1. Settled(OwnerOf[r]) /\ submitPc[r] = "checked"
      BY <1>0, <2>3 DEF PushRequest, PipelineInv, SubmissionOK
    <3> QED
      BY <1>1, <1>2, <2>2, <2>3, <3>1 DEF PushRequest, PushFirst, SubmitTo
  <2>4. CASE SetWaiting(r) \/ AddToIndex(r) \/ NotifyPendingUpdate(r)
    BY <1>1, <2>2, <2>4 DEF SetWaiting, AddToIndex, NotifyPendingUpdate, SubmitTo, redis
  <2> QED
    BY <2>1, <2>3, <2>4 DEF SubmitStep
<1>6. CASE ~\E r \in Requests : CheckConflict(r) \/ SubmitStep(r)
  <2>1. submitPc' = submitPc
    <3>1. ~Restart /\ "ttl" \notin World
      BY <1>0 DEF Restart, Calm, Inv, TypeInv, TypeOK, HistoryOK
    <3> QED
      BY <1>0, <1>6, <3>1, OtherSteps DEF CalmInv
  <2>2. CASE RemovePendingChange
    <3>1. PICK k \in Keys : k = consumer.key /\ Consuming(k) /\ consumer.pc = "remove"
      BY <1>0, <2>2 DEF RemovePendingChange, Inv, TypeInv, HoldersOK, Consuming
    <3>2. AllAreExecuted(k[1])
      BY <1>0, <3>1, ConsumingAlone DEF KeyOK, ApprovedOK
    <3>3. k[1] # u
      BY <1>0, <1>n, <1>1, <3>2, PendingFacts DEF AllAreExecuted, Newest
    <3>4. pending \in [Users -> Seq(Requests)]
      BY <1>0 DEF Inv, TypeInv, TypeOK, RedisOK
    <3> QED
      BY <1>1, <2>1, <2>2, <3>1, <3>3, <3>4 DEF RemovePendingChange
  <2>3. CASE ~RemovePendingChange
    BY <1>1, <1>6, <2>1, <2>3, ListWriters
  <2> QED
    BY <2>2, <2>3
<1> QED
  BY <1>4, <1>5, <1>6

LEMMA ReviewedVerdict ==
  ASSUME Calm, Reviewing, CalmInv, ReviewInv, [Next]_vars, NEW k \in Keys, SendVerdict(k, TRUE)
  PROVE  ReviewInv'
<1>0. Inv /\ PipelineInv
  BY DEF CalmInv
<1> DEFINE u == k[1]
           S == [key : Keys, approved : BOOLEAN, listed : SUBSET Requests]
<1>L. PICK L \in SUBSET Requests : L = {r \in ListedRequests(k[2]) : OwnerOf[r] = k[1]}
  BY DEF ListedRequests, IndexedRequests
<1>g. PICK g \in S : g = [key |-> k, approved |-> TRUE, listed |-> L]
  OBVIOUS
<1>f. g.key = k /\ g.listed = {r \in ListedRequests(k[2]) : OwnerOf[r] = k[1]}
  BY <1>L, <1>g
<1>n. PICK n \in Nat : n = Len(grants) + 1
  BY <1>0 DEF Inv, TypeInv, TypeOK, HistoryOK
<1>1. /\ UNCHANGED <<pending, submitPc, batches, coQueue, registry, coordinator, consumer>>
      /\ u \in Users
  BY KeyFacts DEF SendVerdict, redis, workers
<1>2. /\ n \in DOMAIN grants' /\ grants'[n] = g /\ n \notin DOMAIN grants
      /\ \A t \in DOMAIN grants : grants'[t] = grants[t]
      /\ \A t \in DOMAIN grants' : t # n => t \in DOMAIN grants
  <2>1. grants \in Seq(S) /\ grants' = Append(grants, g)
    BY <1>0, <1>L, <1>g DEF SendVerdict, Inv, TypeInv, TypeOK, HistoryOK
  <2>2. /\ DOMAIN grants = 1..Len(grants) /\ DOMAIN grants' = 1..(Len(grants) + 1) /\ Len(grants) \in Nat
        /\ \A t \in 1..Len(grants) : grants'[t] = grants[t]
        /\ grants'[Len(grants) + 1] = g
    BY <2>1, AppendProperties, LenProperties
  <2> QED
    BY <1>n, <2>2
<1>3. \A t : Outstanding(t)' => Outstanding(t) \/ t = n
  <2>1. PICK m \in Verdict : m.token = n /\ apQueue' = Append(apQueue, m)
    <3>1. apQueue \in Seq(Verdict) /\ Len(grants) + 1 \in 1..MaxApprovals
      BY <1>0, TokenRange, ConstantsAssumption DEF SendVerdict
    <3> QED
      BY <1>n, <3>1 DEF SendVerdict, Verdict
  <2>2. \A t : InQueue(apQueue, t)' => InQueue(apQueue, t) \/ t = n
    <3>1. \A t : InQueue(Append(apQueue, m), t) => InQueue(apQueue, t) \/ m.token = t
      BY <1>0, TokenRange, InAppended
    <3> QED
      BY <2>1, <3>1, Zenon DEF InQueue
  <2> QED
    BY <1>1, <2>2 DEF Outstanding, InQueue, Held, InEntry, Executing
<1>4. PICK r \in Requests : /\ r \in g.listed
                            /\ \A t \in DOMAIN grants : r \notin grants[t].listed
  BY <1>f DEF SendVerdict, MaySend, Reviewing, ListedRequests, IndexedRequests
<1>5. /\ OwnerOf[r] = u /\ r \in ToSet(pending[u]) /\ status[u] # None /\ status[u].state \in Pending
  BY <1>f, <1>4 DEF ListedRequests, IndexedRequests
<1>6. ~Executed(r)
  BY <1>0, <1>4 DEF Executed, ReviewInv, ExecutesWhatWasReviewed, Inv, ApprovalInv, ExecutionsAreApproved
<1>7. pending[u] # << >> /\ Newest(u) = r
  <2>1. PICK i \in DOMAIN pending[u] : pending[u][i] = r
    BY <1>5 DEF ToSet
  <2> QED
    BY <1>0, <1>1, <1>6, <2>1 DEF PipelineInv, UserOK, OldAreExecuted, Newest
<1>8. submitPc[r] \in {"stated", "indexed", "submitted"}
  <2>1. ~Settled(u)
    BY <1>5 DEF Settled, Pending, Final
  <2>2. submitPc[r] # "pushed"
    BY <1>0, <1>5, <2>1 DEF PipelineInv, SubmissionOK
  <2> QED
    BY <1>0, <1>1, <1>6, <1>7, <2>2 DEF PipelineInv, UserOK, NewestKnown
<1>9. AsShown(n)' /\ Grantee(n)' = u
  BY <1>1, <1>2, <1>f, <1>4, <1>6, <1>7, <1>8 DEF AsShown, Grantee, Newest, Executed
<1>10. ASSUME NEW t \in DOMAIN grants, Outstanding(t) PROVE AsShown(t)' /\ Grantee(t)' = Grantee(t)
  <2>1. AsShown(t) /\ grants'[t] = grants[t]
    BY <1>2, <1>10 DEF ReviewInv
  <2> QED
    BY <1>1, <2>1 DEF AsShown, Grantee, Newest, Executed
<1>11. ASSUME NEW t \in DOMAIN grants, Outstanding(t) PROVE Grantee(t) # u
  BY <1>4, <1>7, <1>11 DEF ReviewInv, AsShown
<1>12. ExecutesWhatWasReviewed'
  <2>1. \A i \in DOMAIN batches : batches[i].token \in DOMAIN grants
    BY <1>0 DEF Inv, ApprovalInv, ExecutionsAreApproved
  <2> QED
    BY <1>1, <1>2, <2>1 DEF ReviewInv, ExecutesWhatWasReviewed
<1>13. \A t : Outstanding(t) => t \in DOMAIN grants
  BY <1>0, OutstandingIsGranted
<1> QED
  BY <1>3, <1>9, <1>10, <1>11, <1>12, <1>13 DEF ReviewInv

LEMMA ReviewedExecution ==
  ASSUME Calm, CalmInv, CalmInv', ReviewInv, [Next]_vars, ExecuteApproved
  PROVE  ReviewInv'
<1>0. Inv /\ PipelineInv /\ Inv'
  BY DEF CalmInv
<1> DEFINE B == [token : 1..MaxApprovals, request : Requests]
<1>1. /\ consumer.pc = "execute" /\ consumer.request \in Requests
      /\ consumer.token \in 1..MaxApprovals /\ batches \in Seq(B)
  <2>1. consumer.pc = "execute"
    BY DEF ExecuteApproved
  <2>2. consumer.request \in Requests /\ batches \in Seq(B)
    BY <1>0, <2>1 DEF Inv, TypeInv, TypeOK, HoldersOK, HistoryOK
  <2>3. consumer.token \in 1..MaxApprovals
    BY <1>0, <2>1, TokenRange DEF Inv, ApprovalInv, SaysWhatWasGranted
  <2> QED
    BY <2>1, <2>2, <2>3
<1>d. PICK b \in B : b = [token |-> consumer.token, request |-> consumer.request]
  BY <1>1
<1>b. b.token = consumer.token /\ b.request = consumer.request
  BY <1>d
<1>2. /\ DOMAIN batches = 1..Len(batches) /\ DOMAIN batches' = 1..(Len(batches) + 1)
      /\ \A i \in 1..Len(batches) : batches'[i] = batches[i]
      /\ batches'[Len(batches) + 1] = b /\ Len(batches) \in Nat
  <2>1. batches' = Append(batches, b)
    BY <1>d DEF ExecuteApproved
  <2> QED
    BY <1>1, <2>1, AppendProperties, LenProperties
<1>3. grants' = grants /\ UNCHANGED <<pending, submitPc>>
  BY DEF ExecuteApproved, ConsumerFrame, redis
<1>k. PICK k \in Keys : k = consumer.key /\ Consuming(k)
  BY <1>0, <1>1 DEF Inv, TypeInv, HoldersOK, Consuming
<1>4. /\ b.token \in DOMAIN grants /\ grants[b.token].key = k /\ Outstanding(b.token)
      /\ b.request = Newest(k[1])
  <2>1. Granted(k, TRUE, b.token)
    BY <1>0, <1>1, <1>b, <1>k DEF Inv, ApprovalInv, SaysWhatWasGranted
  <2>2. b.request = Newest(k[1])
    BY <1>0, <1>1, <1>b, <1>k DEF PipelineInv, KeyOK, ApprovedOK
  <2> QED
    BY <1>1, <1>b, <2>1, <2>2 DEF Granted, Outstanding, Executing
<1>5. b.request \in grants[b.token].listed
  BY <1>4 DEF ReviewInv, AsShown, Grantee
<1>6. ExecutesWhatWasReviewed'
  BY <1>2, <1>3, <1>5 DEF ReviewInv, ExecutesWhatWasReviewed
<1>7. \A t : Outstanding(t)' => Outstanding(t) /\ t # b.token
  <2>1. ASSUME NEW t, Outstanding(t)' PROVE Outstanding(t)
    BY <1>0, <2>1, ConsumerOutstanding DEF ConsumerStep
  <2>2. InQueue(batches, b.token)'
    BY <1>2 DEF InQueue
  <2>3. ~Outstanding(b.token)'
    BY <1>0, <2>2 DEF Inv, ApprovalInv, OnePlace, Outstanding
  <2> QED
    BY <2>1, <2>3
<1>8. ASSUME NEW t \in DOMAIN grants, Outstanding(t)' PROVE AsShown(t)'
  <2>1. Outstanding(t) /\ AsShown(t) /\ t # b.token
    BY <1>7, <1>8 DEF ReviewInv
  <2>2. Grantee(t) # k[1] /\ Grantee(t) \in Users
    BY <1>0, <1>4, <2>1, GrantFacts DEF ReviewInv, Grantee
  <2>3. Newest(Grantee(t)) # b.request
    BY <1>0, <1>4, <1>k, <2>1, <2>2, KeyFacts, PendingFacts
       DEF AsShown, PipelineInv, KeyOK, ApprovedOK, HasRequest, ReviewInv, Grantee
  <2>4. \A i \in DOMAIN batches' : batches'[i].request # Newest(Grantee(t))
    BY <1>2, <2>1, <2>3 DEF AsShown, Executed
  <2> QED
    BY <1>3, <2>1, <2>4, ShownStays
<1> QED
  BY <1>3, <1>6, <1>7, <1>8 DEF ReviewInv, Grantee

LEMMA NextReviewed ==
  ASSUME Calm, Reviewing, CalmInv, CalmInv', ReviewInv, [Next]_vars
  PROVE  ReviewInv'
<1>1. ASSUME NEW k \in Keys, ApproveChange(k) \/ RefuseChange(k) PROVE ReviewInv'
  BY <1>1, ReviewedVerdict DEF ApproveChange, RefuseChange, Calm
<1>2. CASE ExecuteApproved
  BY <1>2, ReviewedExecution
<1>3. CASE /\ ~ExecuteApproved
           /\ \A k \in Keys : ~ApproveChange(k) /\ ~RefuseChange(k)
  <2>1. Inv /\ UNCHANGED <<grants, batches>>
    BY <1>3, QuietLedger DEF CalmInv
  <2>2. ASSUME NEW t \in DOMAIN grants, Outstanding(t)' PROVE Outstanding(t) /\ AsShown(t)'
    <3>1. Outstanding(t) /\ AsShown(t)
      BY <1>3, <2>1, <2>2, OutstandingWas DEF ReviewInv
    <3>2. \A i \in DOMAIN batches' : batches'[i].request # Newest(Grantee(t))
      BY <2>1, <3>1 DEF AsShown, Executed
    <3> QED
      BY <2>1, <3>1, <3>2, ShownStays
  <2> QED
    BY <2>1, <2>2 DEF ReviewInv, ExecutesWhatWasReviewed, Grantee
<1> QED
  BY <1>1, <1>2, <1>3

\* What an approval executes was on the page when it was given.
THEOREM CalmExecutesReviewed == Calm /\ Reviewing => (Spec => []ExecutesWhatWasReviewed)
<1> SUFFICES ASSUME Calm, Reviewing PROVE Spec => []ExecutesWhatWasReviewed
  OBVIOUS
<1>1. Spec => []CalmInv
  BY CalmPipeline
<1>2. Init => ReviewInv
  BY DEF Init, ReviewInv, ExecutesWhatWasReviewed
<1>3. CalmInv /\ CalmInv' /\ ReviewInv /\ [Next]_vars => ReviewInv'
  BY NextReviewed
<1>4. ReviewInv => ExecutesWhatWasReviewed
  BY DEF ReviewInv
<1> QED
  BY <1>1, <1>2, <1>3, <1>4, PTL DEF Spec

-----------------------------------------------------------------------------
(* What holds whatever fails, restarts and expires, for every number of    *)
(* failures and restarts: as long as no user submits while a request of    *)
(* the same user is open, each user has at most one request on its way.    *)

Orderly == "oneOpenRequest" \in Discipline /\ World \subseteq {"ttl"}

PreStoring(k) == preStore.pc # "idle" /\ preStore.key = k
Unstaged(k)   == k \in NoticedKeys \/ PreStoring(k)
Pairing(k)    == Paired(k) \/ (coordinator.pc # "idle" /\ coordinator.key = k)
UnderWay(k)   == \/ Unstaged(k) \/ k \in ReportedKeys \/ Pairing(k)
                 \/ k \in ResultKeys \/ Consuming(k)

Ready(r) == submitPc[r] = "submitted" /\ ~Executed(r)
Undecided(k) == status[k[1]] # None /\ status[k[1]].project = k[2] /\ status[k[1]].state \notin Final

\* What is under way keeps its user from submitting.
HeldOK(k) == UnderWay(k) =>
  /\ Undecided(k)
  /\ \A r \in Requests : OwnerOf[r] = k[1] => submitPc[r] \notin InProgress
  /\ \E r \in Requests : OwnerOf[r] = k[1] /\ submitPc[r] = "submitted"

\* It is in one place at a time.
OnceOK(k) ==
  /\ k \in NoticedKeys => ~PreStoring(k)
  /\ Unstaged(k) => k \notin ReportedKeys
  /\ Unstaged(k) \/ k \in ReportedKeys => ~Pairing(k)
  /\ Unstaged(k) \/ k \in ReportedKeys \/ Pairing(k) => k \notin ResultKeys
  /\ Unstaged(k) \/ k \in ReportedKeys \/ Pairing(k) \/ k \in ResultKeys => ~Consuming(k)

\* What will be staged, is staged, or is about to be executed has not been executed.
ReadyOK(k) ==
  /\ k \in NoticedKeys /\ pending[k[1]] # << >> => HasRequest(k)
  /\ Staging(k) => Ready(preStore.request)
  /\ payload[k] # None => Ready(payload[k])
  /\ Consuming(k) /\ consumer.pc = "execute" =>
       Ready(consumer.request) /\ payload[k] # consumer.request

SubmittingOK(r) ==
  /\ \A q \in Requests :
       /\ OwnerOf[q] = OwnerOf[r]
       /\ submitPc[r] \in InProgress /\ submitPc[q] \in InProgress
       => q = r
  /\ submitPc[r] \in {"pushed", "stated", "indexed"} /\ pending[OwnerOf[r]] # << >> =>
       Newest(OwnerOf[r]) = r
  /\ submitPc[r] \in {"stated", "indexed"} => Undecided(Key(r))
  /\ Executed(r) => submitPc[r] = "submitted"

OrderlyInv ==
  /\ \A r \in Requests : SubmittingOK(r)
  /\ \A k \in Keys : HeldOK(k) /\ OnceOK(k) /\ ReadyOK(k)
  /\ QueuesAreSets /\ NoRefusals /\ ExecutedOnce

-----------------------------------------------------------------------------
(* Steps that put nothing anywhere: what fails, is lost or is forgotten.   *)

Fewer(k) ==
  /\ (k \in NoticedKeys)' => k \in NoticedKeys
  /\ PreStoring(k)' => PreStoring(k)
  /\ (k \in ReportedKeys)' => k \in ReportedKeys
  /\ Pairing(k)' => Pairing(k)
  /\ (k \in ResultKeys)' => k \in ResultKeys
  /\ Consuming(k)' => Consuming(k)

\* Requests are only dropped.
Drops(k) ==
  /\ payload'[k] # None => payload'[k] = payload[k]
  /\ Staging(k)' => Staging(k) /\ preStore'.request = preStore.request
  /\ Consuming(k)' /\ consumer'.pc = "execute" =>
       Consuming(k) /\ consumer.pc = "execute" /\ consumer'.request = consumer.request

LEMMA FewerOnce ==
  ASSUME NEW k \in Keys, OnceOK(k), Fewer(k)
  PROVE  OnceOK(k)' /\ (UnderWay(k)' => UnderWay(k))
BY DEF OnceOK, Fewer, Unstaged, UnderWay

\* A pair that is under way keeps its user from submitting.
LEMMA SubmitterIsIdle ==
  ASSUME Orderly, OrderlyInv, NEW r \in Requests,
         submitPc[r] \in InProgress \/ CheckConflict(r),
         NEW k \in Keys, k[1] = OwnerOf[r]
  PROVE  ~UnderWay(k)
<1> SUFFICES ASSUME UnderWay(k) PROVE FALSE
  OBVIOUS
<1>1. HeldOK(k)
  BY DEF OrderlyInv
<1>2. PICK q \in Requests : OwnerOf[q] = k[1] /\ submitPc[q] = "submitted"
  BY <1>1 DEF HeldOK
<1>3. Open(q)
  BY <1>1, <1>2 DEF HeldOK, Undecided, Open
<1>4. CASE submitPc[r] \in InProgress
  BY <1>1, <1>4 DEF HeldOK
<1>5. CASE CheckConflict(r)
  BY <1>2, <1>3, <1>5 DEF CheckConflict, MaySubmit, Orderly
<1> QED
  BY <1>4, <1>5

\* Of one user one pair is under way at a time.
LEMMA OnePair ==
  ASSUME OrderlyInv, NEW k \in Keys, NEW j \in Keys, UnderWay(k), UnderWay(j), j[1] = k[1]
  PROVE  j = k
<1>1. Undecided(k) /\ Undecided(j)
  BY DEF OrderlyInv, HeldOK
<1> QED
  BY <1>1, KeyFacts DEF Undecided

\* A request that is ready stays so until it is executed.
LEMMA StaysReady ==
  ASSUME batches' = batches, NEW r \in Requests,
         submitPc[r] = "submitted" => submitPc'[r] = "submitted"
  PROVE  (Executed(r)' <=> Executed(r)) /\ (Ready(r) => Ready(r)')
BY DEF Ready, Executed

LEMMA HoldersAreRequests ==
  ASSUME TypeInv, NEW k \in Keys
  PROVE  /\ payload[k] # None => payload[k] \in Requests
         /\ Staging(k) => preStore.request \in Requests
         /\ consumer.pc = "execute" => consumer.request \in Requests
BY DEF TypeInv, TypeOK, RedisOK, HoldersOK, Staging

\* The parts about a pair that gets nowhere.
LEMMA DwindlingPair ==
  ASSUME Inv, NEW k \in Keys, HeldOK(k), OnceOK(k), ReadyOK(k), Fewer(k), Drops(k),
         batches' = batches, status' = status,
         \A r \in Requests : /\ submitPc[r] = "submitted" => submitPc'[r] = "submitted"
                             /\ submitPc'[r] \in InProgress => submitPc[r] \in InProgress,
         pending'[k[1]] = pending[k[1]] \/ pending'[k[1]] = << >>
  PROVE  HeldOK(k)' /\ OnceOK(k)' /\ ReadyOK(k)'
<1>1. OnceOK(k)' /\ (UnderWay(k)' => UnderWay(k))
  BY FewerOnce
<1>2. HeldOK(k)'
  BY <1>1 DEF HeldOK, Undecided
<1>3. \A r \in Requests : Ready(r) => Ready(r)'
  BY StaysReady
<1>4. ReadyOK(k)'
  <2>1. (k \in NoticedKeys)' /\ pending'[k[1]] # << >> => HasRequest(k)'
    <3> SUFFICES ASSUME (k \in NoticedKeys)', pending'[k[1]] # << >> PROVE HasRequest(k)'
      OBVIOUS
    <3>1. HasRequest(k) /\ pending'[k[1]] = pending[k[1]] /\ Newest(k[1])' = Newest(k[1])
      BY DEF ReadyOK, Fewer, Newest
    <3>2. Ready(Newest(k[1])) /\ Newest(k[1]) \in Requests
      BY <3>1, KeyFacts, PendingFacts DEF HasRequest, Ready
    <3>3. Ready(Newest(k[1]))'
      BY <1>3, <3>1, <3>2 DEF Ready, Executed
    <3> QED
      BY <3>1, <3>3 DEF HasRequest, Ready
  <2>2. Staging(k)' => Ready(preStore.request)'
    BY <1>3, HoldersAreRequests DEF ReadyOK, Drops, Ready, Inv, Executed
  <2>3. payload'[k] # None => Ready(payload[k])' /\ payload'[k] = payload[k]
    BY <1>3, HoldersAreRequests DEF ReadyOK, Drops, Ready, Inv, Executed
  <2>4. ASSUME Consuming(k)', consumer'.pc = "execute"
        PROVE  Ready(consumer.request)' /\ payload'[k] # consumer'.request
               /\ consumer'.request = consumer.request
    <3>1. /\ consumer.request \in Requests /\ Ready(consumer.request)
          /\ payload[k] # consumer.request /\ consumer'.request = consumer.request
      BY <2>4, HoldersAreRequests DEF ReadyOK, Drops, Inv
    <3>2. consumer.request # None
      BY <3>1, NoneAssumption
    <3>3. Ready(consumer.request)'
      BY <1>3, <3>1 DEF Ready, Executed
    <3> QED
      BY <3>1, <3>2, <3>3, <2>3
  <2> QED
    BY <2>1, <2>2, <2>3, <2>4 DEF ReadyOK, Ready, Executed
<1> QED
  BY <1>1, <1>2, <1>4

\* What a submission has written, if the step is not its own.
LEMMA OthersSubmitting ==
  ASSUME OrderlyInv, NEW r \in Requests, batches' = batches,
         \A q \in Requests : \/ submitPc'[q] = submitPc[q]
                             \/ submitPc[q] \in InProgress /\ submitPc'[q] = "failed",
         \/ submitPc[r] \notin InProgress
         \/ pending'[OwnerOf[r]] = pending[OwnerOf[r]] /\ status'[OwnerOf[r]] = status[OwnerOf[r]]
         \/ pending'[OwnerOf[r]] = << >> /\ status'[OwnerOf[r]] = status[OwnerOf[r]]
  PROVE  SubmittingOK(r)'
<1>1. /\ SubmittingOK(r) /\ (Executed(r)' <=> Executed(r))
      /\ Key(r)[1] = OwnerOf[r]
  BY KeyFacts DEF OrderlyInv, Executed
<1>2. /\ \A q \in Requests : submitPc'[q] \in InProgress => submitPc[q] \in InProgress
      /\ submitPc'[r] \in InProgress => submitPc'[r] = submitPc[r]
  BY DEF InProgress
<1>3. /\ {"pushed", "stated", "indexed"} \subseteq InProgress /\ "submitted" \notin InProgress
      /\ {"stated", "indexed"} \subseteq InProgress
  BY DEF InProgress
<1>4. Executed(r)' => submitPc'[r] = "submitted"
  BY <1>1, <1>3 DEF SubmittingOK
<1>5. ASSUME submitPc'[r] \in InProgress
      PROVE  /\ submitPc'[r] = submitPc[r] /\ status'[OwnerOf[r]] = status[OwnerOf[r]]
             /\ pending'[OwnerOf[r]] # << >> => pending'[OwnerOf[r]] = pending[OwnerOf[r]]
  BY <1>2, <1>5
<1> QED
  BY <1>1, <1>2, <1>3, <1>4, <1>5 DEF SubmittingOK, Undecided, Newest

LEMMA Dwindling ==
  ASSUME Inv, OrderlyInv, UNCHANGED <<status, batches>>,
         \A q \in Requests : \/ submitPc'[q] = submitPc[q]
                             \/ submitPc[q] \in InProgress /\ submitPc'[q] = "failed",
         \A u \in Users : pending'[u] = pending[u] \/ pending'[u] = << >>,
         \A k \in Keys : Fewer(k) /\ Drops(k),
         QueuesAreSets', NoRefusals'
  PROVE  OrderlyInv'
<1>1. \A r \in Requests : SubmittingOK(r)'
  BY KeyFacts, OthersSubmitting
<1>2. ASSUME NEW k \in Keys PROVE HeldOK(k)' /\ OnceOK(k)' /\ ReadyOK(k)'
  <2>1. /\ \A r \in Requests : /\ submitPc[r] = "submitted" => submitPc'[r] = "submitted"
                               /\ submitPc'[r] \in InProgress => submitPc[r] \in InProgress
    BY DEF InProgress
  <2>2. HeldOK(k) /\ OnceOK(k) /\ ReadyOK(k)
    BY DEF OrderlyInv
  <2> QED
    BY <2>1, <2>2, KeyFacts, DwindlingPair
<1>3. ExecutedOnce'
  BY DEF OrderlyInv, ExecutedOnce
<1> QED
  BY <1>1, <1>2, <1>3 DEF OrderlyInv

-----------------------------------------------------------------------------
(* A step that moves a pair from one place to the next.                    *)

LEMMA PairMove ==
  ASSUME Inv, OrderlyInv, NEW k \in Keys, UnderWay(k), UNCHANGED <<submitPc, batches>>,
         \A v \in Users : v # k[1] => pending'[v] = pending[v] /\ status'[v] = status[v],
         UnderWay(k)' => Undecided(k)',
         \A j \in Keys : j # k => Fewer(j) /\ Drops(j),
         OnceOK(k)', ReadyOK(k)', QueuesAreSets', NoRefusals'
  PROVE  OrderlyInv'
<1>1. ASSUME NEW r \in Requests PROVE SubmittingOK(r)'
  <2>1. OwnerOf[r] = k[1] => submitPc[r] \notin InProgress
    BY DEF OrderlyInv, HeldOK
  <2> QED
    BY <2>1, KeyFacts, OthersSubmitting
<1>2. HeldOK(k)'
  BY DEF OrderlyInv, HeldOK
<1>3. ASSUME NEW j \in Keys, j # k PROVE HeldOK(j)' /\ OnceOK(j)' /\ ReadyOK(j)'
  <2>0. HeldOK(j) /\ OnceOK(j) /\ ReadyOK(j) /\ Fewer(j) /\ Drops(j) /\ j[1] \in Users
    BY <1>3, KeyFacts DEF OrderlyInv
  <2>1. OnceOK(j)' /\ (UnderWay(j)' => UnderWay(j))
    BY <2>0, FewerOnce
  <2>2. CASE j[1] = k[1]
    <3>1. ~UnderWay(j)'
      BY <1>3, <2>1, <2>2, OnePair
    <3>2. ~(k \in NoticedKeys)' \/ k # j
      BY <1>3
    <3>3. ReadyOK(j)'
      <4>1. payload'[j] # None => Ready(payload[j])' /\ payload'[j] = payload[j]
        BY <2>0, StaysReady, HoldersAreRequests DEF ReadyOK, Drops, Ready, Inv, Executed
      <4>2. ~(j \in NoticedKeys)' /\ ~Staging(j)' /\ ~Consuming(j)'
        BY <3>1 DEF UnderWay, Unstaged, PreStoring, Staging
      <4> QED
        BY <4>1, <4>2 DEF ReadyOK, Ready, Executed
    <3> QED
      BY <2>1, <3>1, <3>3 DEF HeldOK
  <2>3. CASE j[1] # k[1]
    <3>1. status'[j[1]] = status[j[1]] /\ pending'[j[1]] = pending[j[1]]
      BY <2>0, <2>3
    <3>2. HeldOK(j)'
      BY <2>0, <2>1, <3>1 DEF HeldOK, Undecided
    <3>3. ReadyOK(j)'
      <4>1. payload'[j] # None => Ready(payload[j])' /\ payload'[j] = payload[j]
        BY <2>0, StaysReady, HoldersAreRequests DEF ReadyOK, Drops, Ready, Inv, Executed
      <4>2. (j \in NoticedKeys)' /\ pending'[j[1]] # << >> => HasRequest(j)'
        BY <2>0, <3>1, QuietRequest, KeyFacts DEF ReadyOK, Fewer, HasRequest, Newest, Executed
      <4>3. Staging(j)' => Ready(preStore.request)'
        BY <2>0, StaysReady, HoldersAreRequests DEF ReadyOK, Drops, Ready, Inv, Executed
      <4>4. ASSUME Consuming(j)', consumer'.pc = "execute"
            PROVE  Ready(consumer.request)' /\ payload'[j] # consumer'.request
        <5>1. /\ consumer.request \in Requests /\ Ready(consumer.request)
              /\ payload[j] # consumer.request /\ consumer'.request = consumer.request
          BY <2>0, <4>4, HoldersAreRequests DEF ReadyOK, Drops, Inv
        <5>2. consumer.request # None
          BY <5>1, NoneAssumption
        <5>3. Ready(consumer.request)'
          BY <5>1, StaysReady DEF Ready, Executed
        <5> QED
          BY <5>1, <5>2, <5>3, <4>1
      <4> QED
        BY <4>1, <4>2, <4>3, <4>4 DEF ReadyOK, Ready, Executed
    <3> QED
      BY <2>1, <3>2, <3>3
  <2> QED
    BY <2>2, <2>3
<1>4. ExecutedOnce'
  BY DEF OrderlyInv, ExecutedOnce
<1> QED
  BY <1>1, <1>2, <1>3, <1>4 DEF OrderlyInv

-----------------------------------------------------------------------------
(* Submissions.                                                            *)

\* Nothing moves.
LEMMA SamePlace ==
  ASSUME UNCHANGED <<payload, psQueue, coQueue, preStore, registry, coordinator, consumer>>,
         NEW k \in Keys, (k \in NoticedKeys)' => k \in NoticedKeys
  PROVE  Fewer(k) /\ Drops(k) /\ (UnderWay(k)' => UnderWay(k))
BY DEF Fewer, Drops, UnderWay, Unstaged, ReportedKeys, ResultKeys, KeysIn, PreStoring, Pairing,
   Paired, Consuming, Staging

LEMMA SubmitterAlone ==
  ASSUME Orderly, OrderlyInv, NEW r \in Requests, submitPc[r] \in InProgress \/ CheckConflict(r),
         NEW q \in Requests, q # r, OwnerOf[q] = OwnerOf[r]
  PROVE  submitPc[q] \notin InProgress
<1>1. CASE submitPc[r] \in InProgress
  BY <1>1 DEF OrderlyInv, SubmittingOK
<1>2. CASE CheckConflict(r)
  BY <1>2 DEF CheckConflict, MaySubmit, Orderly, Open
<1> QED
  BY <1>1, <1>2

LEMMA SubmitterStep ==
  ASSUME Orderly, Inv, OrderlyInv, NEW r \in Requests,
         submitPc[r] \in InProgress \/ CheckConflict(r),
         UNCHANGED <<payload, psQueue, coQueue, preStore, registry, coordinator, consumer, batches, grants>>,
         \A k \in Keys : \/ (k \in NoticedKeys)' => k \in NoticedKeys
                         \/ HeldOK(k)' /\ OnceOK(k)' /\ ReadyOK(k)',
         Distinct(notices)',
         \A q \in Requests : q # r => submitPc'[q] = submitPc[q],
         \A v \in Users : v # OwnerOf[r] => pending'[v] = pending[v] /\ status'[v] = status[v],
         SubmittingOK(r)'
  PROVE  OrderlyInv'
<1>1. submitPc[r] # "submitted"
  BY DEF InProgress, CheckConflict
<1>2. ASSUME NEW q \in Requests, q # r PROVE SubmittingOK(q)'
  <2>1. CASE OwnerOf[q] = OwnerOf[r]
    <3>1. submitPc'[q] \notin InProgress /\ SubmittingOK(q) /\ submitPc'[q] = submitPc[q]
          /\ (Executed(q)' <=> Executed(q))
      BY <1>2, <2>1, SubmitterAlone DEF OrderlyInv, Executed
    <3> QED
      BY <3>1 DEF SubmittingOK, InProgress
  <2>2. CASE OwnerOf[q] # OwnerOf[r]
    <3>1. /\ SubmittingOK(q) /\ (Executed(q)' <=> Executed(q)) /\ submitPc'[q] = submitPc[q]
          /\ pending'[OwnerOf[q]] = pending[OwnerOf[q]] /\ status'[OwnerOf[q]] = status[OwnerOf[q]]
          /\ \A x \in Requests : OwnerOf[x] = OwnerOf[q] => submitPc'[x] = submitPc[x]
          /\ Key(q)[1] = OwnerOf[q]
      BY <1>2, <2>2, KeyFacts DEF OrderlyInv, Executed
    <3> QED
      BY <3>1 DEF SubmittingOK, Undecided, Newest
  <2> QED
    BY <2>1, <2>2
<1>3. ASSUME NEW k \in Keys, (k \in NoticedKeys)' => k \in NoticedKeys
      PROVE  HeldOK(k)' /\ OnceOK(k)' /\ ReadyOK(k)'
  <2>0. HeldOK(k) /\ OnceOK(k) /\ ReadyOK(k) /\ k[1] \in Users
    BY KeyFacts DEF OrderlyInv
  <2>1. Fewer(k) /\ Drops(k) /\ (UnderWay(k)' => UnderWay(k))
    BY <1>3, SamePlace
  <2>2. OnceOK(k)'
    BY <2>0, <2>1, FewerOnce
  <2>3. \A x \in Requests : Ready(x) => Ready(x)'
    BY <1>1, StaysReady DEF Ready, Executed
  <2>4. CASE k[1] = OwnerOf[r]
    <3>1. ~UnderWay(k)'
      BY <2>1, <2>4, SubmitterIsIdle
    <3>2. payload'[k] # None => Ready(payload[k])' /\ payload'[k] = payload[k]
      BY <2>0, <2>1, <2>3, HoldersAreRequests DEF ReadyOK, Drops, Ready, Inv, Executed
    <3>3. ~(k \in NoticedKeys)' /\ ~Staging(k)' /\ ~Consuming(k)'
      BY <3>1 DEF UnderWay, Unstaged, PreStoring, Staging
    <3> QED
      BY <2>2, <3>1, <3>2, <3>3 DEF HeldOK, ReadyOK, Ready, Executed
  <2>5. CASE k[1] # OwnerOf[r]
    <3>1. /\ status'[k[1]] = status[k[1]] /\ pending'[k[1]] = pending[k[1]]
          /\ \A x \in Requests : OwnerOf[x] = k[1] => submitPc'[x] = submitPc[x]
      BY <2>0, <2>5
    <3>2. HeldOK(k)'
      BY <2>0, <2>1, <3>1 DEF HeldOK, Undecided
    <3>3. (k \in NoticedKeys)' /\ pending'[k[1]] # << >> => HasRequest(k)'
      <4> SUFFICES ASSUME (k \in NoticedKeys)', pending'[k[1]] # << >> PROVE HasRequest(k)'
        OBVIOUS
      <4>1. HasRequest(k) /\ pending'[k[1]] = pending[k[1]] /\ Newest(k[1])' = Newest(k[1])
        BY <2>0, <2>1, <3>1 DEF ReadyOK, Fewer, Newest
      <4>2. Ready(Newest(k[1])) /\ Newest(k[1]) \in Requests
        BY <4>1, KeyFacts, PendingFacts DEF HasRequest, Ready
      <4>3. Ready(Newest(k[1]))'
        BY <2>3, <4>1, <4>2 DEF Ready, Executed
      <4> QED
        BY <4>1, <4>3 DEF HasRequest, Ready
    <3>4. UNCHANGED <<preStore, consumer, payload, batches>>
      OBVIOUS
    <3>5. Staging(k)' => Ready(preStore.request)'
      BY <2>0, <2>3, <3>4, HoldersAreRequests DEF ReadyOK, Staging, Ready, Inv, Executed
    <3>6. payload'[k] # None => Ready(payload[k])' /\ payload'[k] = payload[k]
      BY <2>0, <2>1, <2>3, HoldersAreRequests DEF ReadyOK, Drops, Ready, Inv, Executed
    <3>7. Consuming(k)' /\ consumer'.pc = "execute" =>
            Ready(consumer.request)' /\ payload'[k] # consumer'.request
      BY <2>0, <2>3, <3>4, HoldersAreRequests DEF ReadyOK, Consuming, Ready, Inv, Executed
    <3> QED
      BY <2>2, <3>2, <3>3, <3>4, <3>5, <3>6, <3>7 DEF ReadyOK, Ready, Executed
  <2> QED
    BY <2>4, <2>5
<1>4. QueuesAreSets' /\ NoRefusals' /\ ExecutedOnce'
  BY DEF OrderlyInv, QueuesAreSets, NoRefusals, ExecutedOnce, Distinct, DistinctKeys
<1> QED
  BY <1>2, <1>3, <1>4 DEF OrderlyInv

LEMMA SameNotices ==
  ASSUME OrderlyInv, notices' = notices
  PROVE  NoticedKeys' = NoticedKeys /\ Distinct(notices)'
BY DEF NoticedKeys, OrderlyInv, QueuesAreSets, Distinct

LEMMA CheckConflictOrderly ==
  ASSUME Orderly, Inv, OrderlyInv, NEW r \in Requests, CheckConflict(r)
  PROVE  OrderlyInv'
<1>0. submitPc \in [Requests -> SubmitStates]
  BY DEF Inv, TypeInv, TypeOK, WorkersOK
<1>1. /\ submitPc[r] = "new" /\ submitPc'[r] \in {"checked", "conflict", "failed"}
      /\ \A q \in Requests : q # r => submitPc'[q] = submitPc[q]
  <2>1. \E pc \in {"checked", "conflict", "failed"} : SubmitTo(r, pc)
    BY Zenon DEF CheckConflict
  <2> QED
    BY <1>0, <2>1 DEF CheckConflict, SubmitTo
<1>2. UNCHANGED <<pending, status, payload, notices, psQueue, coQueue, preStore, registry,
                  coordinator, consumer, batches, grants>>
  BY DEF CheckConflict, redis, queues, history
<1>3. \A q \in Requests : OwnerOf[q] = OwnerOf[r] /\ q # r => submitPc'[q] \notin InProgress
  BY <1>1, SubmitterAlone
<1>4. SubmittingOK(r)'
  <2>1. SubmittingOK(r) /\ (Executed(r)' <=> Executed(r))
    BY <1>2 DEF OrderlyInv, Executed
  <2> QED
    BY <1>1, <1>3, <2>1 DEF SubmittingOK, InProgress
<1> QED
  BY <1>1, <1>2, <1>4, SameNotices, SubmitterStep

LEMMA PushRequestOrderly ==
  ASSUME Orderly, Inv, OrderlyInv, NEW r \in Requests, PushRequest(r)
  PROVE  OrderlyInv'
<1> DEFINE u == OwnerOf[r]
<1>0. submitPc \in [Requests -> SubmitStates] /\ pending \in [Users -> Seq(Requests)] /\ u \in Users
  BY KeyFacts DEF Inv, TypeInv, TypeOK, WorkersOK, RedisOK
<1>1. /\ submitPc[r] = "checked" /\ submitPc'[r] \in {"pushed", "failed"}
      /\ \A q \in Requests : q # r => submitPc'[q] = submitPc[q]
      /\ \A v \in Users : v # u => pending'[v] = pending[v]
      /\ submitPc'[r] = "pushed" => pending'[u] = <<r>> \o pending[u]
  BY <1>0 DEF PushRequest, SubmitTo, PushFirst
<1>2. UNCHANGED <<status, payload, notices, psQueue, coQueue, preStore, registry,
                  coordinator, consumer, batches, grants>>
  BY DEF PushRequest, queues, history
<1>3. \A q \in Requests : OwnerOf[q] = u /\ q # r => submitPc'[q] \notin InProgress
  BY <1>1, SubmitterAlone DEF InProgress
<1>4. submitPc'[r] = "pushed" => Newest(u)' = r
  <2>1. <<r>> \in Seq(Requests) /\ Len(<<r>>) = 1 /\ <<r>>[1] = r /\ pending[u] \in Seq(Requests)
    BY <1>0
  <2>2. (<<r>> \o pending[u])[1] = r
    BY <2>1, ConcatProperties, LenProperties
  <2> QED
    BY <1>1, <2>2 DEF Newest
<1>5. SubmittingOK(r)'
  <2>1. SubmittingOK(r) /\ (Executed(r)' <=> Executed(r))
    BY <1>2 DEF OrderlyInv, Executed
  <2> QED
    BY <1>1, <1>3, <1>4, <2>1 DEF SubmittingOK, InProgress
<1>6. submitPc[r] \in InProgress
  BY <1>1 DEF InProgress
<1> QED
  BY <1>1, <1>2, <1>5, <1>6, SameNotices, SubmitterStep

LEMMA SetWaitingOrderly ==
  ASSUME Orderly, Inv, OrderlyInv, NEW r \in Requests, SetWaiting(r)
  PROVE  OrderlyInv'
<1> DEFINE u == OwnerOf[r]
<1>0. submitPc \in [Requests -> SubmitStates] /\ u \in Users /\ ProjectOf[r] \in Projects
      /\ Key(r)[1] = u /\ Key(r)[2] = ProjectOf[r]
  BY KeyFacts DEF Inv, TypeInv, TypeOK, WorkersOK
<1>1. /\ submitPc[r] = "pushed" /\ submitPc'[r] \in {"stated", "failed"}
      /\ \A q \in Requests : q # r => submitPc'[q] = submitPc[q]
      /\ \/ submitPc'[r] = "stated" /\ SetUserProjectStatus(u, ProjectOf[r], "waiting")
         \/ submitPc'[r] = "failed" /\ status' = status
  BY <1>0 DEF SetWaiting, SubmitTo, KeepStatus
<1>2. UNCHANGED <<pending, payload, notices, psQueue, coQueue, preStore, registry,
                  coordinator, consumer, batches, grants>>
  BY DEF SetWaiting, queues, history
<1>3. /\ \A v \in Users : v # u => status'[v] = status[v]
      /\ submitPc'[r] = "stated" => Undecided(Key(r))'
  BY <1>0, <1>1, StatusWritten DEF Inv, States, Pending, Final, Undecided
<1>4. \A q \in Requests : OwnerOf[q] = u /\ q # r => submitPc'[q] \notin InProgress
  BY <1>1, SubmitterAlone DEF InProgress
<1>5. SubmittingOK(r)'
  <2>1. SubmittingOK(r) /\ (Executed(r)' <=> Executed(r)) /\ Newest(u)' = Newest(u)
    BY <1>2 DEF OrderlyInv, Executed, Newest
  <2> QED
    BY <1>1, <1>2, <1>3, <1>4, <2>1 DEF SubmittingOK, InProgress
<1>6. submitPc[r] \in InProgress
  BY <1>1 DEF InProgress
<1> QED
  BY <1>1, <1>2, <1>3, <1>5, <1>6, SameNotices, SubmitterStep

LEMMA AddToIndexOrderly ==
  ASSUME Orderly, Inv, OrderlyInv, NEW r \in Requests, AddToIndex(r)
  PROVE  OrderlyInv'
<1>0. submitPc \in [Requests -> SubmitStates] /\ Key(r)[1] = OwnerOf[r]
  BY KeyFacts DEF Inv, TypeInv, TypeOK, WorkersOK
<1>1. /\ submitPc[r] = "stated" /\ submitPc'[r] \in {"indexed", "failed"}
      /\ \A q \in Requests : q # r => submitPc'[q] = submitPc[q]
  BY <1>0 DEF AddToIndex, SubmitTo
<1>2. UNCHANGED <<pending, status, payload, notices, psQueue, coQueue, preStore, registry,
                  coordinator, consumer, batches, grants>>
  BY DEF AddToIndex, queues, history
<1>3. \A q \in Requests : OwnerOf[q] = OwnerOf[r] /\ q # r => submitPc'[q] \notin InProgress
  BY <1>1, SubmitterAlone DEF InProgress
<1>4. SubmittingOK(r)'
  <2>1. SubmittingOK(r) /\ (Executed(r)' <=> Executed(r)) /\ Newest(OwnerOf[r])' = Newest(OwnerOf[r])
    BY <1>2 DEF OrderlyInv, Executed, Newest
  <2> QED
    BY <1>0, <1>1, <1>2, <1>3, <2>1 DEF SubmittingOK, InProgress, Undecided
<1>5. submitPc[r] \in InProgress
  BY <1>1 DEF InProgress
<1> QED
  BY <1>1, <1>2, <1>4, <1>5, SameNotices, SubmitterStep

\* The notice may be dropped; then the request waits for good.
LEMMA NotifyPendingUpdateOrderly ==
  ASSUME Orderly, Inv, OrderlyInv, NEW r \in Requests, NotifyPendingUpdate(r)
  PROVE  OrderlyInv'
<1> DEFINE u == OwnerOf[r]
           k == Key(r)
<1>0. /\ submitPc \in [Requests -> SubmitStates] /\ u \in Users
      /\ k \in Keys /\ k[1] = u /\ notices \in Seq(Keys)
  BY KeyFacts DEF Inv, TypeInv, TypeOK, WorkersOK, QueuesOK
<1>1. /\ submitPc[r] = "indexed" /\ submitPc'[r] = "submitted" /\ submitPc[r] \in InProgress
      /\ \A q \in Requests : q # r => submitPc'[q] = submitPc[q]
      /\ notices' = notices \/ notices' = Append(notices, k)
  BY <1>0 DEF NotifyPendingUpdate, SubmitTo, Offer, InProgress
<1>2. UNCHANGED <<pending, status, payload, psQueue, coQueue, preStore, registry,
                  coordinator, consumer, batches, grants>>
  BY DEF NotifyPendingUpdate, redis, queues, history
<1>3. \A q \in Requests : OwnerOf[q] = u => submitPc'[q] \notin InProgress
  BY <1>1, SubmitterAlone DEF InProgress
<1>4. /\ SubmittingOK(r) /\ ~Executed(r) /\ ~Executed(r)' /\ Undecided(k)
      /\ pending[u] # << >> => Newest(u) = r
  BY <1>1, <1>2 DEF OrderlyInv, SubmittingOK, Executed
<1>5. SubmittingOK(r)'
  BY <1>1, <1>3, <1>4 DEF SubmittingOK, InProgress
<1>6. ~UnderWay(k)
  BY <1>0, <1>1, SubmitterIsIdle
<1>7. /\ NoticedKeys' = NoticedKeys \/ NoticedKeys' = NoticedKeys \cup {k}
      /\ Distinct(notices)'
  BY <1>0, <1>1, <1>6, Appended DEF NoticedKeys, OrderlyInv, QueuesAreSets, Distinct, UnderWay, Unstaged
<1>8. HeldOK(k)' /\ OnceOK(k)' /\ ReadyOK(k)'
  <2>1. HeldOK(k)'
    BY <1>0, <1>1, <1>2, <1>3, <1>4 DEF HeldOK, Undecided
  <2>2. /\ ~PreStoring(k)' /\ (k \notin ReportedKeys)' /\ ~Pairing(k)' /\ (k \notin ResultKeys)'
        /\ ~Consuming(k)' /\ ~Staging(k)'
    BY <1>2, <1>6 DEF UnderWay, Unstaged, PreStoring, ReportedKeys, Pairing, Paired, ResultKeys, KeysIn,
       Consuming, Staging
  <2>3. OnceOK(k)'
    BY <2>2 DEF OnceOK, Unstaged
  <2>4. payload'[k] # None => Ready(payload[k])' /\ payload'[k] = payload[k]
    <3>1. ReadyOK(k)
      BY <1>0 DEF OrderlyInv
    <3> QED
      BY <1>0, <1>1, <1>2, <3>1, StaysReady, HoldersAreRequests DEF ReadyOK, Ready, Inv, Executed
  <2>5. pending'[u] # << >> => HasRequest(k)'
    BY <1>0, <1>1, <1>2, <1>4 DEF HasRequest, Newest
  <2> QED
    BY <1>0, <2>1, <2>2, <2>3, <2>4, <2>5 DEF ReadyOK, Ready, Executed
<1>9. \A j \in Keys : \/ (j \in NoticedKeys)' => j \in NoticedKeys
                      \/ HeldOK(j)' /\ OnceOK(j)' /\ ReadyOK(j)'
  BY <1>7, <1>8
<1> QED
  BY <1>1, <1>2, <1>5, <1>7, <1>9, SubmitterStep

-----------------------------------------------------------------------------
(* The pre-storage goroutine.                                              *)

LEMMA PreStoreQuiet ==
  ASSUME PreStoreFrame
  PROVE  /\ UNCHANGED <<pending, coQueue, registry, coordinator, consumer, submitPc, batches, grants>>
         /\ NoRefusals => NoRefusals'
         /\ ResultKeys' = ResultKeys
         /\ \A k : (Pairing(k)' <=> Pairing(k)) /\ (Consuming(k)' <=> Consuming(k))
         /\ DistinctKeys(coQueue) => DistinctKeys(coQueue)'
BY DEF PreStoreFrame, history, NoRefusals, ResultKeys, KeysIn, Pairing, Paired, Consuming, DistinctKeys

LEMMA FindPendingUpdateOrderly ==
  ASSUME Inv, OrderlyInv, FindPendingUpdate
  PROVE  OrderlyInv'
<1>0. notices \in Seq(Keys) /\ notices # << >> /\ Distinct(notices) /\ notices' = Tail(notices)
  BY DEF Inv, TypeInv, TypeOK, QueuesOK, OrderlyInv, QueuesAreSets, FindPendingUpdate
<1>k. PICK k \in Keys : k = Head(notices)
  BY <1>0, Removed
<1> DEFINE target == NewestFor(k[1], k[2])
<1>1. /\ PreStoreFrame /\ UNCHANGED <<payload, psQueue, status>> /\ preStore.pc = "idle"
      /\ \/ preStore'.pc = "idle"
         \/ target # None /\ preStore' = [pc |-> "stage", key |-> k, request |-> target]
  BY <1>k DEF FindPendingUpdate, KeepStatus, IdlePreStore
<1>2. k \in NoticedKeys /\ NoticedKeys' = NoticedKeys \ {k} /\ Distinct(notices)'
  <2>1. /\ {Tail(notices)[i] : i \in DOMAIN Tail(notices)}
              = {notices[i] : i \in DOMAIN notices} \ {Head(notices)}
        /\ Head(notices) \in {notices[i] : i \in DOMAIN notices} /\ Distinct(Tail(notices))
    BY <1>0, Removed
  <2>2. Distinct(notices)'
    BY <1>0, <2>1, Zenon
  <2>3. k \in NoticedKeys /\ NoticedKeys' = NoticedKeys \ {k}
    BY <1>0, <1>k, <2>1, Zenon DEF NoticedKeys
  <2> QED
    BY <2>2, <2>3
<1>3. QueuesAreSets' /\ NoRefusals' /\ ReportedKeys' = ReportedKeys
  BY <1>1, <1>2, PreStoreQuiet DEF OrderlyInv, QueuesAreSets, Distinct, ReportedKeys
<1>4. \A j \in Keys : j # k \/ preStore'.pc = "idle" => Fewer(j) /\ Drops(j)
  BY <1>1, <1>2, <1>3, PreStoreQuiet DEF Fewer, Drops, PreStoring, Staging
<1>5. CASE preStore'.pc = "idle"
  BY <1>1, <1>3, <1>4, <1>5, PreStoreQuiet, Dwindling
<1>6. CASE target # None /\ preStore' = [pc |-> "stage", key |-> k, request |-> target]
  <2>1. UnderWay(k) /\ OnceOK(k) /\ HeldOK(k) /\ ReadyOK(k) /\ k[1] \in Users
    BY <1>2, KeyFacts DEF UnderWay, Unstaged, OrderlyInv
  <2>2. pending[k[1]] # << >>
    BY <1>6 DEF NewestFor, PositionsOf
  <2>3. target = Newest(k[1]) /\ target \in Requests /\ Ready(target)
    BY <1>2, <2>1, <2>2, NewestIsFirst DEF ReadyOK, HasRequest, Ready
  <2>4. /\ PreStoring(k)' /\ Staging(k)' /\ (k \notin NoticedKeys)'
    BY <1>2, <1>6 DEF PreStoring, Staging
  <2>5. OnceOK(k)'
    BY <1>2, <1>3, <2>1, <2>4, PreStoreQuiet, <1>1 DEF OnceOK, Unstaged
  <2>6. /\ Ready(preStore.request)' /\ ~Consuming(k)'
        /\ payload'[k] # None => Ready(payload[k])' /\ payload'[k] = payload[k]
    BY <1>1, <1>2, <1>6, <2>1, <2>3, PreStoreQuiet, StaysReady, HoldersAreRequests
       DEF ReadyOK, OnceOK, Unstaged, Ready, Inv, Executed
  <2>7. ReadyOK(k)'
    BY <2>4, <2>6 DEF ReadyOK, Ready, Executed
  <2>8. Undecided(k)'
    BY <1>1, <2>1 DEF HeldOK, Undecided
  <2> QED
    BY <1>1, <1>3, <1>4, <2>1, <2>5, <2>7, <2>8, PreStoreQuiet, PairMove
<1> QED
  BY <1>1, <1>5, <1>6

\* The three steps that follow: the pair is being staged, and nowhere else.
LEMMA StagingFacts ==
  ASSUME Inv, OrderlyInv, preStore.pc # "idle"
  PROVE  \E k \in Keys :
           /\ k = preStore.key /\ PreStoring(k) /\ UnderWay(k) /\ k[1] \in Users /\ k[2] \in Projects
           /\ Undecided(k) /\ OnceOK(k) /\ ReadyOK(k)
           /\ k \notin NoticedKeys /\ k \notin ReportedKeys /\ ~Pairing(k)
           /\ k \notin ResultKeys /\ ~Consuming(k)
<1>k. PICK k \in Keys : k = preStore.key
  BY DEF Inv, TypeInv, HoldersOK
<1>1. PreStoring(k) /\ UnderWay(k) /\ OnceOK(k) /\ HeldOK(k) /\ ReadyOK(k)
  BY <1>k DEF PreStoring, UnderWay, Unstaged, OrderlyInv
<1> QED
  BY <1>k, <1>1, KeyFacts DEF OnceOK, HeldOK, Unstaged

\* A call that fails ends the staging.
LEMMA StagingFails ==
  ASSUME Inv, OrderlyInv, PreStoreFrame, UNCHANGED <<notices, payload, psQueue, status>>,
         preStore'.pc = "idle"
  PROVE  OrderlyInv'
<1>1. QueuesAreSets' /\ NoRefusals' /\ ReportedKeys' = ReportedKeys /\ NoticedKeys' = NoticedKeys
  BY PreStoreQuiet DEF OrderlyInv, QueuesAreSets, Distinct, ReportedKeys, NoticedKeys
<1>2. \A j \in Keys : Fewer(j) /\ Drops(j)
  BY <1>1, PreStoreQuiet DEF Fewer, Drops, PreStoring, Staging
<1> QED
  BY <1>1, <1>2, PreStoreQuiet, Dwindling

LEMMA StagePayloadOrderly ==
  ASSUME Inv, OrderlyInv, StagePreStoragePayload
  PROVE  OrderlyInv'
<1>0. preStore.pc = "stage" /\ PreStoreFrame /\ UNCHANGED <<notices, psQueue, status>>
  BY DEF StagePreStoragePayload, KeepStatus
<1>k. PICK k \in Keys :
        /\ k = preStore.key /\ PreStoring(k) /\ UnderWay(k) /\ k[1] \in Users /\ k[2] \in Projects
        /\ Undecided(k) /\ OnceOK(k) /\ ReadyOK(k)
        /\ k \notin NoticedKeys /\ k \notin ReportedKeys /\ ~Pairing(k)
        /\ k \notin ResultKeys /\ ~Consuming(k)
  BY <1>0, StagingFacts
<1>1. CASE preStore'.pc = "idle"
  <2>1. payload' = payload
    BY <1>1 DEF StagePreStoragePayload, Inv, TypeInv, TypeOK, WorkersOK
  <2> QED
    BY <1>0, <1>1, <2>1, StagingFails
<1>2. CASE preStore'.pc # "idle"
  <2>1. /\ payload' = [payload EXCEPT ![k] = preStore.request]
        /\ preStore' = [preStore EXCEPT !.pc = "state"]
    BY <1>k, <1>2 DEF StagePreStoragePayload, IdlePreStore
  <2>2. /\ preStore'.pc = "state" /\ preStore'.key = k /\ preStore'.request = preStore.request
        /\ payload'[k] = preStore.request /\ \A j \in Keys : j # k => payload'[j] = payload[j]
    BY <1>k, <2>1 DEF Inv, TypeInv, TypeOK, WorkersOK, RedisOK
  <2>3. QueuesAreSets' /\ NoRefusals' /\ ReportedKeys' = ReportedKeys /\ NoticedKeys' = NoticedKeys
    BY <1>0, PreStoreQuiet DEF OrderlyInv, QueuesAreSets, Distinct, ReportedKeys, NoticedKeys
  <2>4. \A j \in Keys : j # k => Fewer(j) /\ Drops(j)
    BY <1>0, <2>2, <2>3, PreStoreQuiet DEF Fewer, Drops, PreStoring, Staging
  <2>5. Staging(k) /\ preStore.request \in Requests /\ Ready(preStore.request)
    BY <1>0, <1>k, HoldersAreRequests DEF Staging, ReadyOK, Inv
  <2>6. Ready(preStore.request)'
    BY <1>0, <2>2, <2>5, PreStoreQuiet DEF Ready, Executed
  <2>7. OnceOK(k)' /\ Undecided(k)'
    BY <1>0, <1>k, <2>3, PreStoreQuiet DEF OnceOK, Unstaged, Undecided
  <2>8. ReadyOK(k)'
    BY <1>0, <1>k, <2>2, <2>3, <2>6, PreStoreQuiet DEF ReadyOK
  <2> QED
    BY <1>0, <1>k, <2>3, <2>4, <2>7, <2>8, PreStoreQuiet, PairMove
<1> QED
  BY <1>1, <1>2

LEMMA MarkPreStoragedOrderly ==
  ASSUME Inv, OrderlyInv, MarkPreStoraged
  PROVE  OrderlyInv'
<1>0. preStore.pc = "state" /\ PreStoreFrame /\ UNCHANGED <<notices, payload, psQueue>>
  BY DEF MarkPreStoraged
<1>k. PICK k \in Keys :
        /\ k = preStore.key /\ PreStoring(k) /\ UnderWay(k) /\ k[1] \in Users /\ k[2] \in Projects
        /\ Undecided(k) /\ OnceOK(k) /\ ReadyOK(k)
        /\ k \notin NoticedKeys /\ k \notin ReportedKeys /\ ~Pairing(k)
        /\ k \notin ResultKeys /\ ~Consuming(k)
  BY <1>0, StagingFacts
<1>1. CASE preStore'.pc = "idle"
  <2>1. status' = status
    BY <1>1 DEF MarkPreStoraged, KeepStatus, Inv, TypeInv, TypeOK, WorkersOK
  <2> QED
    BY <1>0, <1>1, <2>1, StagingFails
<1>2. CASE preStore'.pc # "idle"
  <2>1. SetUserProjectStatus(k[1], k[2], "pre_storaged") /\ preStore' = [preStore EXCEPT !.pc = "publish"]
    BY <1>k, <1>2 DEF MarkPreStoraged, IdlePreStore
  <2>2. /\ preStore'.pc = "publish" /\ preStore'.key = k
        /\ \A v \in Users : v # k[1] => status'[v] = status[v]
        /\ Undecided(k)'
    BY <1>k, <2>1, StatusWritten DEF Inv, TypeInv, TypeOK, WorkersOK, States, Pending, Final, Undecided
  <2>3. QueuesAreSets' /\ NoRefusals' /\ ReportedKeys' = ReportedKeys /\ NoticedKeys' = NoticedKeys
    BY <1>0, PreStoreQuiet DEF OrderlyInv, QueuesAreSets, Distinct, ReportedKeys, NoticedKeys
  <2>4. \A j \in Keys : j # k => Fewer(j) /\ Drops(j)
    BY <1>0, <2>2, <2>3, PreStoreQuiet DEF Fewer, Drops, PreStoring, Staging
  <2>5. OnceOK(k)'
    BY <1>0, <1>k, <2>3, PreStoreQuiet DEF OnceOK, Unstaged
  <2>6. payload'[k] # None => Ready(payload[k])' /\ payload'[k] = payload[k]
    BY <1>0, <1>k, PreStoreQuiet, StaysReady, HoldersAreRequests DEF ReadyOK, Ready, Inv, Executed
  <2>7. ReadyOK(k)'
    BY <1>0, <1>k, <2>2, <2>3, <2>6, PreStoreQuiet DEF ReadyOK, Ready, Executed, Staging
  <2> QED
    BY <1>0, <1>k, <2>2, <2>3, <2>4, <2>5, <2>7, PreStoreQuiet, PairMove
<1> QED
  BY <1>1, <1>2

LEMMA NotifyCoordinatorOrderly ==
  ASSUME Inv, OrderlyInv, NotifyApprovalCoordinator
  PROVE  OrderlyInv'
<1>0. /\ preStore.pc = "publish" /\ PreStoreFrame /\ UNCHANGED <<notices, payload, status>>
      /\ preStore'.pc = "idle" /\ psQueue \in Seq(Keys)
  BY DEF NotifyApprovalCoordinator, KeepStatus, IdlePreStore, Inv, TypeInv, TypeOK, QueuesOK
<1>k. PICK k \in Keys :
        /\ k = preStore.key /\ PreStoring(k) /\ UnderWay(k) /\ k[1] \in Users /\ k[2] \in Projects
        /\ Undecided(k) /\ OnceOK(k) /\ ReadyOK(k)
        /\ k \notin NoticedKeys /\ k \notin ReportedKeys /\ ~Pairing(k)
        /\ k \notin ResultKeys /\ ~Consuming(k)
  BY <1>0, StagingFacts
<1>1. CASE psQueue' = psQueue
  BY <1>0, <1>1, StagingFails
<1>2. CASE psQueue' = Append(psQueue, k)
  <2>1. ReportedKeys' = ReportedKeys \cup {k} /\ Distinct(psQueue)'
    BY <1>0, <1>k, <1>2, Appended DEF ReportedKeys, OrderlyInv, QueuesAreSets, Distinct
  <2>2. QueuesAreSets' /\ NoRefusals' /\ NoticedKeys' = NoticedKeys
    BY <1>0, <2>1, PreStoreQuiet DEF OrderlyInv, QueuesAreSets, Distinct, NoticedKeys
  <2>3. \A j \in Keys : j # k => Fewer(j) /\ Drops(j)
    BY <1>0, <2>1, <2>2, PreStoreQuiet DEF Fewer, Drops, PreStoring, Staging
  <2>4. ~PreStoring(k)' /\ ~Staging(k)'
    BY <1>0 DEF PreStoring, Staging
  <2>5. OnceOK(k)' /\ Undecided(k)'
    BY <1>0, <1>k, <2>2, <2>4, PreStoreQuiet DEF OnceOK, Unstaged, Undecided
  <2>6. payload'[k] # None => Ready(payload[k])' /\ payload'[k] = payload[k]
    BY <1>0, <1>k, PreStoreQuiet, StaysReady, HoldersAreRequests DEF ReadyOK, Ready, Inv, Executed
  <2>7. ReadyOK(k)'
    BY <1>0, <1>k, <2>2, <2>4, <2>6, PreStoreQuiet DEF ReadyOK, Ready, Executed
  <2> QED
    BY <1>0, <1>k, <2>2, <2>3, <2>5, <2>7, PreStoreQuiet, PairMove
<1> QED
  BY <1>k, <1>1, <1>2 DEF NotifyApprovalCoordinator

-----------------------------------------------------------------------------
(* Admins and the coordinator.                                             *)

LEMMA SendVerdictOrderly ==
  ASSUME Orderly, Inv, OrderlyInv, NEW k \in Keys, ApproveChange(k) \/ RefuseChange(k)
  PROVE  OrderlyInv'
<1>1. SendVerdict(k, TRUE)
  BY DEF ApproveChange, RefuseChange, Orderly
<1> DEFINE shown == {r \in ListedRequests(k[2]) : OwnerOf[r] = k[1]}
           g == [key |-> k, approved |-> TRUE, listed |-> shown]
           G == [key : Keys, approved : BOOLEAN, listed : SUBSET Requests]
<1>2. /\ UNCHANGED <<pending, status, payload, notices, psQueue, coQueue, preStore, registry, coordinator,
                     consumer, submitPc, batches>>
      /\ grants' = Append(grants, g)
  BY <1>1 DEF SendVerdict, redis, workers
<1>3. NoRefusals'
  <2>1. grants \in Seq(G) /\ g \in G
    BY DEF Inv, TypeInv, TypeOK, HistoryOK, ListedRequests, IndexedRequests
  <2>2. /\ DOMAIN grants' = 1..(Len(grants) + 1) /\ DOMAIN grants = 1..Len(grants) /\ Len(grants) \in Nat
        /\ \A i \in 1..Len(grants) : grants'[i] = grants[i]
        /\ grants'[Len(grants) + 1] = g
    BY <1>2, <2>1, AppendProperties, LenProperties
  <2> QED
    BY <2>2 DEF OrderlyInv, NoRefusals
<1>4. QueuesAreSets' /\ NoticedKeys' = NoticedKeys
  BY <1>2 DEF OrderlyInv, QueuesAreSets, Distinct, DistinctKeys, NoticedKeys
<1> QED
  BY <1>2, <1>3, <1>4, SamePlace, Dwindling

LEMMA CoordinatorQuiet ==
  ASSUME CoordinatorFrame
  PROVE  /\ UNCHANGED <<pending, payload, notices, preStore, consumer, submitPc, batches, grants>>
         /\ NoRefusals => NoRefusals'
         /\ NoticedKeys' = NoticedKeys
         /\ \A k : /\ PreStoring(k)' <=> PreStoring(k)
                   /\ Staging(k)' <=> Staging(k)
                   /\ Unstaged(k)' <=> Unstaged(k)
                   /\ Consuming(k)' <=> Consuming(k)
         /\ Distinct(notices) => Distinct(notices)'
BY DEF CoordinatorFrame, history, NoRefusals, NoticedKeys, PreStoring, Staging, Unstaged, Consuming, Distinct

\* What was ready at a pair still is.
LEMMA CoordinatorReady ==
  ASSUME Inv, NEW k \in Keys, ReadyOK(k), CoordinatorFrame, (k \in NoticedKeys)' => k \in NoticedKeys
  PROVE  ReadyOK(k)'
<1>1. UNCHANGED <<pending, payload, preStore, consumer, submitPc, batches>>
  BY CoordinatorQuiet
<1>2. (HasRequest(k)' <=> HasRequest(k)) /\ \A r : Ready(r)' <=> Ready(r)
  BY <1>1, QuietRequest DEF Ready, Executed
<1> QED
  BY <1>1, <1>2, CoordinatorQuiet DEF ReadyOK, Ready, Executed

\* An entry is stored; the pair goes on when both messages are in.
LEMMA EntryStored ==
  ASSUME Inv, coordinator.pc = "idle", NEW k \in Keys, NEW e \in Entry, StoreAndCheck(k, e)
  PROVE  /\ Paired(k)' <=> e.preStorageRecv
         /\ Pairing(k)' <=> e.preStorageRecv
         /\ \A j \in Keys : j # k => (Pairing(j)' <=> Pairing(j))
<1>1. registry \in [Keys -> Entry \cup {None}] /\ e # None
  BY NoneAssumption DEF Inv, TypeInv, TypeOK, WorkersOK
<1>2. /\ registry'[k] = e /\ \A j \in Keys : j # k => registry'[j] = registry[j]
      /\ coordinator'.pc = "idle" \/ (e.preStorageRecv /\ coordinator'.key = k)
  BY <1>1 DEF StoreAndCheck, IdleCoordinator
<1> QED
  BY <1>1, <1>2 DEF Paired, Pairing

LEMMA HandleApprovalOrderly ==
  ASSUME Inv, OrderlyInv, HandleApprovalMessage
  PROVE  OrderlyInv'
<1>0. /\ apQueue \in Seq(Verdict) /\ apQueue # << >> /\ registry \in [Keys -> Entry \cup {None}]
      /\ coordinator.pc = "idle"
  BY DEF Inv, TypeInv, TypeOK, QueuesOK, WorkersOK, HandleApprovalMessage
<1>m. PICK m \in Verdict : m = Head(apQueue)
  BY <1>0, Shifted
<1>k. PICK k \in Keys : k = m.key
  BY DEF Verdict
<1> DEFINE e == Recorded(Stored(k), m)
<1>1. StoreAndCheck(k, e) /\ CoordinatorFrame /\ UNCHANGED <<psQueue, coQueue, status>>
  BY <1>m, <1>k DEF HandleApprovalMessage, KeepStatus
<1>2. e \in Entry /\ (e.preStorageRecv <=> Paired(k))
  <2>1. Stored(k) \in Entry
    BY <1>0, ConstantsAssumption DEF Stored, NewEntry, Entry
  <2>2. e \in Entry /\ e.preStorageRecv = Stored(k).preStorageRecv
    BY <2>1 DEF Recorded, Entry, Verdict
  <2>3. Stored(k).preStorageRecv <=> Paired(k)
    BY DEF Stored, NewEntry, Paired
  <2> QED
    BY <2>2, <2>3
<1> HIDE DEF e
<1>3. \A j \in Keys : Pairing(j)' => Pairing(j)
  BY <1>0, <1>1, <1>2, EntryStored DEF Pairing
<1>4. QueuesAreSets' /\ NoRefusals' /\ ReportedKeys' = ReportedKeys /\ ResultKeys' = ResultKeys
  BY <1>1, CoordinatorQuiet DEF OrderlyInv, QueuesAreSets, Distinct, DistinctKeys, ReportedKeys,
     ResultKeys, KeysIn
<1>5. \A j \in Keys : Fewer(j) /\ Drops(j)
  BY <1>1, <1>3, <1>4, CoordinatorQuiet DEF Fewer, Drops
<1> QED
  BY <1>1, <1>4, <1>5, CoordinatorQuiet, Dwindling

LEMMA HandlePreStorageOrderly ==
  ASSUME Inv, OrderlyInv, HandlePreStorageMessage
  PROVE  OrderlyInv'
<1>0. /\ psQueue \in Seq(Keys) /\ psQueue # << >> /\ Distinct(psQueue) /\ psQueue' = Tail(psQueue)
      /\ registry \in [Keys -> Entry \cup {None}]
      /\ coordinator.pc = "idle"
  BY DEF Inv, TypeInv, TypeOK, QueuesOK, WorkersOK, HandlePreStorageMessage, OrderlyInv, QueuesAreSets
<1>k. PICK k \in Keys : k = Head(psQueue)
  BY <1>0, Removed
<1> DEFINE e == [Stored(k) EXCEPT !.preStorageRecv = TRUE]
<1>1. /\ StoreAndCheck(k, e) /\ CoordinatorFrame /\ UNCHANGED coQueue
      /\ SetUserProjectStatus(k[1], k[2], "pre_storaged") \/ status' = status
  BY <1>k DEF HandlePreStorageMessage, KeepStatus
<1>2. k \in ReportedKeys /\ ReportedKeys' = ReportedKeys \ {k} /\ Distinct(psQueue)'
  <2>1. /\ {Tail(psQueue)[i] : i \in DOMAIN Tail(psQueue)}
              = {psQueue[i] : i \in DOMAIN psQueue} \ {Head(psQueue)}
        /\ Head(psQueue) \in {psQueue[i] : i \in DOMAIN psQueue} /\ Distinct(Tail(psQueue))
    BY <1>0, Removed
  <2>2. Distinct(psQueue)'
    BY <1>0, <2>1, Zenon
  <2>3. k \in ReportedKeys /\ ReportedKeys' = ReportedKeys \ {k}
    BY <1>0, <1>k, <2>1, Zenon DEF ReportedKeys
  <2> QED
    BY <2>2, <2>3
<1>3. /\ UnderWay(k) /\ Undecided(k) /\ OnceOK(k) /\ ReadyOK(k)
      /\ ~Unstaged(k) /\ ~Pairing(k) /\ k \notin ResultKeys /\ ~Consuming(k)
  BY <1>2 DEF UnderWay, OrderlyInv, HeldOK, OnceOK
<1>4. e \in Entry /\ e.preStorageRecv
  <2>1. Stored(k) \in Entry
    BY <1>0, ConstantsAssumption DEF Stored, NewEntry, Entry
  <2> QED
    BY <2>1 DEF Entry
<1> HIDE DEF e
<1>5. Pairing(k)' /\ \A j \in Keys : j # k => (Pairing(j)' <=> Pairing(j))
  BY <1>0, <1>1, <1>4, EntryStored
<1>6. QueuesAreSets' /\ NoRefusals' /\ ResultKeys' = ResultKeys
  BY <1>1, <1>2, CoordinatorQuiet DEF OrderlyInv, QueuesAreSets, Distinct, DistinctKeys, ResultKeys, KeysIn
<1>7. \A j \in Keys : j # k => Fewer(j) /\ Drops(j)
  BY <1>1, <1>2, <1>5, <1>6, CoordinatorQuiet DEF Fewer, Drops
<1>8. Undecided(k)' /\ \A v \in Users : v # k[1] => status'[v] = status[v]
  BY <1>1, <1>3, KeyFacts, StatusWritten DEF Inv, States, Pending, Final, Undecided
<1>9. OnceOK(k)' /\ ReadyOK(k)'
  BY <1>1, <1>2, <1>3, <1>6, CoordinatorQuiet, CoordinatorReady DEF OnceOK
<1> QED
  BY <1>1, <1>3, <1>6, <1>7, <1>8, <1>9, CoordinatorQuiet, PairMove

\* The coordinator is about a pair, which is nowhere else.
LEMMA CoordinatingFacts ==
  ASSUME Inv, OrderlyInv, coordinator.pc # "idle"
  PROVE  /\ coordinator.approved
         /\ \E k \in Keys :
              /\ k = coordinator.key /\ Pairing(k) /\ UnderWay(k) /\ k[1] \in Users /\ k[2] \in Projects
              /\ Undecided(k) /\ OnceOK(k) /\ ReadyOK(k)
              /\ ~Unstaged(k) /\ k \notin ReportedKeys /\ k \notin ResultKeys /\ ~Consuming(k)
<1>1. coordinator.approved
  BY DEF Inv, ApprovalInv, SaysWhatWasGranted, OrderlyInv, NoRefusals, Granted
<1>k. PICK k \in Keys : k = coordinator.key
  BY DEF Inv, TypeInv, HoldersOK
<1>2. Pairing(k) /\ UnderWay(k) /\ OnceOK(k) /\ HeldOK(k) /\ ReadyOK(k)
  BY <1>k DEF Pairing, UnderWay, OrderlyInv
<1> QED
  BY <1>k, <1>1, <1>2, KeyFacts DEF OnceOK, HeldOK

LEMMA CoordinatorFails ==
  ASSUME Inv, OrderlyInv, CoordinatorFrame, UNCHANGED <<psQueue, coQueue, status>>,
         \A k \in Keys : Pairing(k)' => Pairing(k)
  PROVE  OrderlyInv'
<1>1. QueuesAreSets' /\ NoRefusals' /\ ReportedKeys' = ReportedKeys /\ ResultKeys' = ResultKeys
  BY CoordinatorQuiet DEF OrderlyInv, QueuesAreSets, Distinct, DistinctKeys, ReportedKeys, ResultKeys, KeysIn
<1>2. \A j \in Keys : Fewer(j) /\ Drops(j)
  BY <1>1, CoordinatorQuiet DEF Fewer, Drops
<1> QED
  BY <1>1, <1>2, CoordinatorQuiet, Dwindling

LEMMA CheckAndTransitionOrderly ==
  ASSUME Inv, OrderlyInv, CheckAndTransition
  PROVE  OrderlyInv'
<1>0. /\ coordinator.pc = "transition" /\ CoordinatorFrame /\ UNCHANGED <<psQueue, coQueue, registry>>
  BY DEF CheckAndTransition, queues
<1>k. PICK k \in Keys :
        /\ k = coordinator.key /\ Pairing(k) /\ UnderWay(k) /\ k[1] \in Users /\ k[2] \in Projects
        /\ Undecided(k) /\ OnceOK(k) /\ ReadyOK(k)
        /\ ~Unstaged(k) /\ k \notin ReportedKeys /\ k \notin ResultKeys /\ ~Consuming(k)
  BY <1>0, CoordinatingFacts
<1>1. /\ coordinator'.pc = "idle" \/ (coordinator'.pc = "publish" /\ coordinator'.key = k)
      /\ status' = status \/ SetUserProjectStatus(k[1], k[2], "approved")
  BY <1>0, <1>k, CoordinatingFacts DEF CheckAndTransition, KeepStatus, IdleCoordinator, Inv, TypeInv, TypeOK, WorkersOK
<1>2. \A j \in Keys : Pairing(j)' => Pairing(j)
  BY <1>0, <1>k, <1>1 DEF Pairing, Paired
<1>3. CASE status' = status
  BY <1>0, <1>2, <1>3, CoordinatorFails
<1>4. CASE SetUserProjectStatus(k[1], k[2], "approved")
  <2>1. QueuesAreSets' /\ NoRefusals' /\ ReportedKeys' = ReportedKeys /\ ResultKeys' = ResultKeys
    BY <1>0, CoordinatorQuiet DEF OrderlyInv, QueuesAreSets, Distinct, DistinctKeys, ReportedKeys,
       ResultKeys, KeysIn
  <2>2. \A j \in Keys : Fewer(j) /\ Drops(j)
    BY <1>0, <1>2, <2>1, CoordinatorQuiet DEF Fewer, Drops
  <2>3. Undecided(k)' /\ \A v \in Users : v # k[1] => status'[v] = status[v]
    BY <1>k, <1>4, StatusWritten DEF Inv, States, Pending, Final, Undecided
  <2>4. OnceOK(k)' /\ ReadyOK(k)'
    BY <1>0, <1>k, <2>2, FewerOnce, CoordinatorQuiet, CoordinatorReady
  <2> QED
    BY <1>0, <1>k, <2>1, <2>2, <2>3, <2>4, CoordinatorQuiet, PairMove
<1> QED
  BY <1>1, <1>3, <1>4

LEMMA NotifyConsumerOrderly ==
  ASSUME Inv, OrderlyInv, NotifyConsumerCoordinator
  PROVE  OrderlyInv'
<1>0. /\ coordinator.pc = "publish" /\ CoordinatorFrame /\ UNCHANGED <<psQueue, status>>
      /\ coordinator'.pc = "idle" /\ coQueue \in Seq(Verdict) /\ DistinctKeys(coQueue)
      /\ registry \in [Keys -> Entry \cup {None}]
      /\ coordinator.approved \in BOOLEAN /\ coordinator.token \in 1..MaxApprovals
  BY DEF NotifyConsumerCoordinator, KeepStatus, IdleCoordinator, Inv, TypeInv, TypeOK, QueuesOK,
         WorkersOK, HoldersOK, OrderlyInv, QueuesAreSets
<1>k. PICK k \in Keys :
        /\ k = coordinator.key /\ Pairing(k) /\ UnderWay(k) /\ k[1] \in Users /\ k[2] \in Projects
        /\ Undecided(k) /\ OnceOK(k) /\ ReadyOK(k)
        /\ ~Unstaged(k) /\ k \notin ReportedKeys /\ k \notin ResultKeys /\ ~Consuming(k)
  BY <1>0, CoordinatingFacts
<1>m. PICK m \in Verdict : m = [key |-> k, approved |-> coordinator.approved, token |-> coordinator.token]
  BY <1>0 DEF Verdict
<1>1. CASE UNCHANGED <<coQueue, registry>>
  <2>1. \A j \in Keys : Pairing(j)' => Pairing(j)
    BY <1>0, <1>1 DEF Pairing, Paired
  <2> QED
    BY <1>0, <1>1, <2>1, CoordinatorFails
<1>2. CASE coQueue' = Append(coQueue, m) /\ registry' = [registry EXCEPT ![k] = None]
  <2>1. ResultKeys' = ResultKeys \cup {k} /\ DistinctKeys(coQueue)'
    <3>1. m.key = k
      BY <1>m
    <3>2. /\ KeysIn(Append(coQueue, m)) = KeysIn(coQueue) \cup {k}
          /\ DistinctKeys(Append(coQueue, m))
      BY <1>0, <1>k, <3>1, KeyAppended DEF ResultKeys
    <3>3. DistinctKeys(coQueue)'
      BY <1>2, <3>2, Zenon
    <3>4. ResultKeys' = ResultKeys \cup {k}
      BY <1>2, <3>2, Zenon DEF ResultKeys
    <3> QED
      BY <3>3, <3>4
  <2>2. ~Pairing(k)' /\ \A j \in Keys : j # k => (Pairing(j)' => Pairing(j))
    BY <1>0, <1>k, <1>2 DEF Pairing, Paired
  <2>3. QueuesAreSets' /\ NoRefusals' /\ ReportedKeys' = ReportedKeys
    BY <1>0, <2>1, CoordinatorQuiet DEF OrderlyInv, QueuesAreSets, Distinct, DistinctKeys, ReportedKeys
  <2>4. \A j \in Keys : j # k => Fewer(j) /\ Drops(j)
    BY <1>0, <2>1, <2>2, <2>3, CoordinatorQuiet DEF Fewer, Drops
  <2>5. OnceOK(k)' /\ ReadyOK(k)' /\ Undecided(k)'
    BY <1>0, <1>k, <2>2, <2>3, CoordinatorQuiet, CoordinatorReady DEF OnceOK, Undecided
  <2> QED
    BY <1>0, <1>k, <2>3, <2>4, <2>5, CoordinatorQuiet, PairMove
<1> QED
  BY <1>k, <1>m, <1>1, <1>2 DEF NotifyConsumerCoordinator, WithoutEntry

LEMMA CleanupOrderly ==
  ASSUME Inv, OrderlyInv, (\E k \in Keys : FindExpired(k)) \/ DeleteExpired
  PROVE  OrderlyInv'
<1>1. UNCHANGED <<pending, status, payload, notices, preStore, psQueue, coQueue, coordinator,
                  consumer, submitPc, grants, batches>>
  BY DEF FindExpired, DeleteExpired, CleanupFrame, redis, queues, history
<1>2. \A j \in Keys : registry'[j] = registry[j] \/ registry'[j] = None
  BY DEF FindExpired, DeleteExpired, Inv, TypeInv, TypeOK, WorkersOK
<1>3. QueuesAreSets' /\ NoRefusals' /\ NoticedKeys' = NoticedKeys
  BY <1>1 DEF OrderlyInv, QueuesAreSets, Distinct, DistinctKeys, NoRefusals, NoticedKeys
<1>4. \A j \in Keys : Fewer(j) /\ Drops(j)
  BY <1>1, <1>2, <1>3 DEF Fewer, Drops, PreStoring, Staging, Consuming, Pairing, Paired, ReportedKeys,
     ResultKeys, KeysIn
<1> QED
  BY <1>1, <1>3, <1>4, Dwindling

-----------------------------------------------------------------------------
(* The consumer.                                                           *)

LEMMA ConsumerIsQuiet ==
  ASSUME ConsumerFrame
  PROVE  /\ UNCHANGED <<psQueue, notices, preStore, registry, coordinator, submitPc, grants>>
         /\ NoRefusals => NoRefusals'
         /\ NoticedKeys' = NoticedKeys /\ ReportedKeys' = ReportedKeys
         /\ \A k : /\ PreStoring(k)' <=> PreStoring(k)
                   /\ Staging(k)' <=> Staging(k)
                   /\ Unstaged(k)' <=> Unstaged(k)
                   /\ Pairing(k)' <=> Pairing(k)
         /\ Distinct(notices) => Distinct(notices)'
         /\ Distinct(psQueue) => Distinct(psQueue)'
BY DEF ConsumerFrame, NoRefusals, NoticedKeys, ReportedKeys, PreStoring, Staging, Unstaged, Pairing,
   Paired, Distinct

\* A pair in the consumer's hands is nowhere else.
LEMMA ConsumingFacts ==
  ASSUME Inv, OrderlyInv, consumer.pc # "idle"
  PROVE  \E k \in Keys :
           /\ k = consumer.key /\ Consuming(k) /\ UnderWay(k) /\ k[1] \in Users /\ k[2] \in Projects
           /\ Undecided(k) /\ OnceOK(k) /\ ReadyOK(k)
           /\ ~Unstaged(k) /\ k \notin ReportedKeys /\ ~Pairing(k) /\ k \notin ResultKeys
<1>k. PICK k \in Keys : k = consumer.key
  BY DEF Inv, TypeInv, HoldersOK
<1>1. Consuming(k) /\ UnderWay(k) /\ OnceOK(k) /\ HeldOK(k) /\ ReadyOK(k)
  BY <1>k DEF Consuming, UnderWay, OrderlyInv
<1> QED
  BY <1>k, <1>1, KeyFacts DEF OnceOK, HeldOK

LEMMA TakeResultOrderly ==
  ASSUME Inv, OrderlyInv, TakeResult
  PROVE  OrderlyInv'
<1>0. /\ coQueue \in Seq(Verdict) /\ coQueue # << >> /\ DistinctKeys(coQueue)
      /\ coQueue' = Tail(coQueue) /\ consumer.pc = "idle" /\ ConsumerFrame
      /\ payload \in [Keys -> Requests \cup {None}]
      /\ UNCHANGED <<pending, batches, status>>
  BY DEF Inv, TypeInv, TypeOK, QueuesOK, RedisOK, TakeResult, OrderlyInv, QueuesAreSets, KeepStatus
<1>m. PICK m \in Verdict : m = Head(coQueue) /\ m = coQueue[1] /\ 1 \in DOMAIN coQueue
  BY <1>0, Shifted
<1>k. PICK k \in Keys : k = m.key
  BY DEF Verdict
<1>1. /\ k \in ResultKeys
      /\ ResultKeys' = ResultKeys \ {k} /\ DistinctKeys(coQueue)'
  <2>1. /\ KeysIn(Tail(coQueue)) = KeysIn(coQueue) \ {k} /\ k \in KeysIn(coQueue)
        /\ DistinctKeys(Tail(coQueue))
    BY <1>0, <1>m, <1>k, KeyRemoved
  <2>2. DistinctKeys(coQueue)'
    BY <1>0, <2>1, Zenon
  <2>3. k \in ResultKeys /\ ResultKeys' = ResultKeys \ {k}
    BY <1>0, <2>1, Zenon DEF ResultKeys
  <2> QED
    BY <2>2, <2>3
<1>2. m.approved = TRUE
  <2>1. Granted(m.key, m.approved, m.token)
    BY <1>m DEF Inv, ApprovalInv, SaysWhatWasGranted
  <2>2. m.approved \in BOOLEAN
    BY DEF Verdict
  <2> QED
    BY <2>1, <2>2 DEF Granted, OrderlyInv, NoRefusals
<1>3. /\ UnderWay(k) /\ Undecided(k) /\ OnceOK(k) /\ ReadyOK(k) /\ k[1] \in Users
      /\ ~Unstaged(k) /\ k \notin ReportedKeys /\ ~Pairing(k) /\ ~Consuming(k)
  BY <1>1, KeyFacts DEF UnderWay, OrderlyInv, HeldOK, OnceOK
<1>4. /\ consumer'.pc # "idle" /\ consumer'.key = k
      /\ consumer'.pc = "execute" =>
           consumer'.request = payload[k] /\ payload[k] # None /\ payload'[k] = None
      /\ payload'[k] # None => payload'[k] = payload[k]
      /\ \A j \in Keys : j # k => payload'[j] = payload[j]
  BY <1>0, <1>m, <1>k, <1>2 DEF TakeResult, AfterTake, Taken
<1>5. QueuesAreSets' /\ NoRefusals'
  BY <1>0, <1>1, ConsumerIsQuiet DEF OrderlyInv, QueuesAreSets
<1>6. \A j \in Keys : j # k => Fewer(j) /\ Drops(j)
  BY <1>0, <1>1, <1>4, ConsumerIsQuiet DEF Fewer, Drops, Consuming
<1>7. OnceOK(k)' /\ Undecided(k)'
  BY <1>0, <1>1, <1>3, ConsumerIsQuiet DEF OnceOK, Undecided
<1>8. ReadyOK(k)'
  <2>1. payload[k] # None => Ready(payload[k]) /\ payload[k] \in Requests
    BY <1>3, HoldersAreRequests DEF ReadyOK, Inv
  <2>2. \A r : Ready(r)' <=> Ready(r)
    BY <1>0, ConsumerIsQuiet DEF Ready, Executed
  <2>3. payload'[k] # None => Ready(payload[k])' /\ payload'[k] = payload[k]
    BY <1>4, <2>1, <2>2 DEF Ready, Executed
  <2>4. consumer'.pc = "execute" => Ready(consumer.request)' /\ payload'[k] # consumer'.request
    <3> SUFFICES ASSUME consumer'.pc = "execute"
                 PROVE  Ready(consumer.request)' /\ payload'[k] # consumer'.request
      OBVIOUS
    <3>1. consumer'.request = payload[k] /\ Ready(consumer'.request) /\ payload'[k] # consumer'.request
      BY <1>4, <2>1
    <3> QED
      BY <2>2, <3>1 DEF Ready, Executed
  <2>5. ~(k \in NoticedKeys)' /\ ~Staging(k)'
    BY <1>0, <1>3, ConsumerIsQuiet DEF Unstaged, PreStoring, Staging
  <2> QED
    BY <1>4, <2>3, <2>4, <2>5 DEF ReadyOK, Ready, Executed
<1> QED
  BY <1>0, <1>3, <1>5, <1>6, <1>7, <1>8, ConsumerIsQuiet, PairMove

\* The consumer goes on with its pair, or ends.
LEMMA ConsumerGoesOn ==
  ASSUME Inv, OrderlyInv, ConsumerFrame, consumer.pc # "idle",
         UNCHANGED <<pending, status, payload, coQueue, batches>>,
         consumer'.pc = "idle" \/ (consumer'.pc # "execute" /\ consumer'.key = consumer.key)
  PROVE  OrderlyInv'
<1>1. QueuesAreSets' /\ NoRefusals' /\ ResultKeys' = ResultKeys
  BY ConsumerIsQuiet DEF OrderlyInv, QueuesAreSets, DistinctKeys, ResultKeys, KeysIn
<1>2. \A j \in Keys : Fewer(j) /\ Drops(j)
  BY <1>1, ConsumerIsQuiet DEF Fewer, Drops, Consuming
<1> QED
  BY <1>1, <1>2, ConsumerIsQuiet, Dwindling

\* The batch of a request that has not been executed: now it is.
LEMMA ExecuteApprovedOrderly ==
  ASSUME Inv, OrderlyInv, ExecuteApproved
  PROVE  OrderlyInv'
<1> DEFINE B == [token : 1..MaxApprovals, request : Requests]
<1>0. /\ consumer.pc = "execute" /\ ConsumerFrame
      /\ UNCHANGED <<pending, status, payload, coQueue>>
      /\ consumer'.pc \in {"find", "fail"} /\ consumer'.key = consumer.key
  BY DEF ExecuteApproved, redis, ConsumerAt, Inv, TypeInv, TypeOK, WorkersOK
<1>k. PICK k \in Keys :
        /\ k = consumer.key /\ Consuming(k) /\ UnderWay(k) /\ k[1] \in Users /\ k[2] \in Projects
        /\ Undecided(k) /\ OnceOK(k) /\ ReadyOK(k)
        /\ ~Unstaged(k) /\ k \notin ReportedKeys /\ ~Pairing(k) /\ k \notin ResultKeys
  BY <1>0, ConsumingFacts
<1>r. PICK r \in Requests : r = consumer.request /\ Ready(r) /\ payload[k] # r /\ Key(r) = k
  BY <1>0, <1>k, HoldersAreRequests DEF ReadyOK, Inv, ApprovalInv, OwnRequests
<1>1. /\ \A q : Executed(q)' <=> Executed(q) \/ q = r
      /\ ExecutedOnce'
  <2>1. batches \in Seq(B) /\ consumer.token \in 1..MaxApprovals
    <3>1. batches \in Seq(B)
      BY DEF Inv, TypeInv, TypeOK, HistoryOK
    <3>2. consumer.token \in 1..MaxApprovals
      BY <1>0, TokenRange DEF Inv, ApprovalInv, SaysWhatWasGranted
    <3> QED
      BY <3>1, <3>2
  <2>b. PICK b \in B : b = [token |-> consumer.token, request |-> r]
    BY <2>1
  <2>2. batches' = Append(batches, b)
    BY <1>r, <2>b DEF ExecuteApproved
  <2>3. /\ DOMAIN batches = 1..Len(batches) /\ DOMAIN batches' = 1..(Len(batches) + 1)
        /\ \A i \in 1..Len(batches) : batches'[i] = batches[i]
        /\ batches'[Len(batches) + 1] = b /\ Len(batches) \in Nat /\ b.request = r
    BY <2>1, <2>b, <2>2, AppendProperties, LenProperties
  <2>4. \A q : Executed(q)' <=> Executed(q) \/ q = r
    BY <2>3 DEF Executed
  <2>5. ExecutedOnce'
    BY <1>r, <2>3 DEF Ready, Executed, ExecutedOnce, OrderlyInv
  <2> QED
    BY <2>4, <2>5
<1>2. \A q : Ready(q) /\ q # r => Ready(q)'
  BY <1>0, <1>1, ConsumerIsQuiet DEF Ready
<1>3. ASSUME NEW q \in Requests PROVE SubmittingOK(q)'
  <2>1. SubmittingOK(q)
    BY DEF OrderlyInv
  <2>2. Executed(q)' => submitPc[q] = "submitted"
    BY <1>r, <1>1, <2>1 DEF SubmittingOK, Ready
  <2> QED
    BY <1>0, <2>1, <2>2, ConsumerIsQuiet DEF SubmittingOK, Undecided, Newest
<1>4. QueuesAreSets' /\ NoRefusals' /\ ResultKeys' = ResultKeys
  BY <1>0, ConsumerIsQuiet DEF OrderlyInv, QueuesAreSets, DistinctKeys, ResultKeys, KeysIn
<1>5. ASSUME NEW j \in Keys PROVE HeldOK(j)' /\ OnceOK(j)' /\ ReadyOK(j)'
  <2>0. HeldOK(j) /\ OnceOK(j) /\ ReadyOK(j)
    BY DEF OrderlyInv
  <2>1. Fewer(j)
    BY <1>0, <1>4, ConsumerIsQuiet DEF Fewer, Consuming
  <2>2. OnceOK(j)' /\ (UnderWay(j)' => UnderWay(j))
    BY <2>0, <2>1, FewerOnce
  <2>3. HeldOK(j)'
    BY <1>0, <2>0, <2>2, ConsumerIsQuiet DEF HeldOK, Undecided
  <2>4. (j \in NoticedKeys)' /\ pending'[j[1]] # << >> => HasRequest(j)'
    <3> SUFFICES ASSUME j \in NoticedKeys, pending[j[1]] # << >> PROVE HasRequest(j)'
      BY <1>0, ConsumerIsQuiet
    <3>1. j # k /\ HasRequest(j)
      BY <1>k, <2>0 DEF ReadyOK, Unstaged
    <3>2. Newest(j[1]) # r
      BY <1>r, <3>1 DEF HasRequest
    <3> QED
      BY <1>0, <1>1, <3>1, <3>2, ConsumerIsQuiet DEF HasRequest, Newest
  <2>5. Staging(j)' => Ready(preStore.request)'
    <3> SUFFICES ASSUME Staging(j) PROVE Ready(preStore.request)'
      BY <1>0, ConsumerIsQuiet
    <3>1. j # k /\ Ready(preStore.request) /\ Key(preStore.request) = j
      BY <1>k, <2>0 DEF ReadyOK, Unstaged, PreStoring, Staging, Inv, ApprovalInv, OwnRequests
    <3>2. preStore.request # r
      BY <1>r, <3>1
    <3> QED
      BY <1>0, <1>2, <3>1, <3>2, ConsumerIsQuiet DEF Ready, Executed
  <2>6. payload[j] # None => Ready(payload[j])'
    <3> SUFFICES ASSUME payload[j] # None PROVE Ready(payload[j])'
      OBVIOUS
    <3>1. Ready(payload[j]) /\ Key(payload[j]) = j
      BY <2>0 DEF ReadyOK, Inv, ApprovalInv, OwnRequests
    <3>2. payload[j] # r
      BY <1>r, <3>1
    <3> QED
      BY <1>0, <1>2, <3>1, <3>2 DEF Ready, Executed
  <2> QED
    BY <1>0, <2>2, <2>3, <2>4, <2>5, <2>6, ConsumerIsQuiet DEF ReadyOK, Ready, Executed
<1> QED
  BY <1>1, <1>3, <1>4, <1>5 DEF OrderlyInv

LEMMA RemovePendingOrderly ==
  ASSUME Inv, OrderlyInv, RemovePendingChange
  PROVE  OrderlyInv'
<1>0. /\ consumer.pc = "remove" /\ ConsumerFrame
      /\ UNCHANGED <<status, payload, coQueue, batches>>
      /\ consumer'.pc \notin {"idle", "execute"} /\ consumer'.key = consumer.key
  BY DEF RemovePendingChange, KeepStatus, FailHere, ConsumerAt, Inv, TypeInv, TypeOK, WorkersOK
<1>k. PICK k \in Keys :
        /\ k = consumer.key /\ Consuming(k) /\ UnderWay(k) /\ k[1] \in Users /\ k[2] \in Projects
        /\ Undecided(k) /\ OnceOK(k) /\ ReadyOK(k)
        /\ ~Unstaged(k) /\ k \notin ReportedKeys /\ ~Pairing(k) /\ k \notin ResultKeys
  BY <1>0, ConsumingFacts
<1>1. \A v \in Users : v # k[1] => pending'[v] = pending[v]
  BY <1>k DEF RemovePendingChange, Inv, TypeInv, TypeOK, RedisOK
<1>2. QueuesAreSets' /\ NoRefusals' /\ ResultKeys' = ResultKeys
  BY <1>0, ConsumerIsQuiet DEF OrderlyInv, QueuesAreSets, DistinctKeys, ResultKeys, KeysIn
<1>3. \A j \in Keys : Fewer(j) /\ Drops(j)
  BY <1>0, <1>2, ConsumerIsQuiet DEF Fewer, Drops, Consuming
<1>4. OnceOK(k)' /\ Undecided(k)'
  BY <1>0, <1>k, <1>3, FewerOnce DEF Undecided
<1>5. ReadyOK(k)'
  <2>1. ~(k \in NoticedKeys)' /\ ~Staging(k)'
    BY <1>0, <1>k, ConsumerIsQuiet DEF Unstaged, PreStoring, Staging
  <2>2. \A r : Ready(r)' <=> Ready(r)
    BY <1>0, ConsumerIsQuiet DEF Ready, Executed
  <2>3. payload'[k] # None => Ready(payload[k])' /\ payload'[k] = payload[k]
    BY <1>0, <1>k, <2>2 DEF ReadyOK, Ready, Executed
  <2> QED
    BY <1>0, <2>1, <2>3 DEF ReadyOK, Ready, Executed
<1> QED
  BY <1>0, <1>k, <1>1, <1>2, <1>3, <1>4, <1>5, ConsumerIsQuiet, PairMove

\* The pair is done, whatever came of it.
LEMMA FinishResultOrderly ==
  ASSUME Inv, OrderlyInv, FinishResult
  PROVE  OrderlyInv'
<1>0. /\ consumer.pc \in {"finish", "fail"} /\ ConsumerFrame
      /\ UNCHANGED <<pending, payload, coQueue, batches>>
      /\ consumer'.pc = "idle"
  BY DEF FinishResult, IdleConsumer
<1>k. PICK k \in Keys :
        /\ k = consumer.key /\ Consuming(k) /\ UnderWay(k) /\ k[1] \in Users /\ k[2] \in Projects
        /\ Undecided(k) /\ OnceOK(k) /\ ReadyOK(k)
        /\ ~Unstaged(k) /\ k \notin ReportedKeys /\ ~Pairing(k) /\ k \notin ResultKeys
  BY <1>0, ConsumingFacts
<1>1. CASE status' = status
  BY <1>0, <1>1, ConsumerGoesOn
<1>2. CASE status' # status
  <2>1. \A v \in Users : v # k[1] => status'[v] = status[v]
    <3>1. PICK s \in States : SetUserProjectStatus(k[1], k[2], s)
      BY <1>k, <1>2 DEF FinishResult, KeepStatus, States, Final
    <3> QED
      BY <1>k, <3>1, StatusWritten DEF Inv
  <2>2. QueuesAreSets' /\ NoRefusals' /\ ResultKeys' = ResultKeys
    BY <1>0, ConsumerIsQuiet DEF OrderlyInv, QueuesAreSets, DistinctKeys, ResultKeys, KeysIn
  <2>3. \A j \in Keys : Fewer(j) /\ Drops(j)
    BY <1>0, <2>2, ConsumerIsQuiet DEF Fewer, Drops, Consuming
  <2>4. OnceOK(k)' /\ ~Consuming(k)' /\ ~UnderWay(k)'
    <3>1. ~Consuming(k)'
      BY <1>0 DEF Consuming
    <3>2. ~UnderWay(k)'
      BY <1>0, <1>k, <2>2, <3>1, ConsumerIsQuiet DEF UnderWay
    <3> QED
      BY <1>k, <2>3, <3>1, <3>2, FewerOnce
  <2>5. ReadyOK(k)'
    <3>1. ~(k \in NoticedKeys)' /\ ~Staging(k)'
      BY <1>0, <1>k, ConsumerIsQuiet DEF Unstaged, PreStoring, Staging
    <3>2. \A r : Ready(r)' <=> Ready(r)
      BY <1>0, ConsumerIsQuiet DEF Ready, Executed
    <3>3. payload'[k] # None => Ready(payload[k])' /\ payload'[k] = payload[k]
      BY <1>0, <1>k, <3>2 DEF ReadyOK, Ready, Executed
    <3> QED
      BY <2>4, <3>1, <3>3 DEF ReadyOK, Ready, Executed
  <2> QED
    BY <1>0, <1>k, <2>1, <2>2, <2>3, <2>4, <2>5, ConsumerIsQuiet, PairMove
<1> QED
  BY <1>1, <1>2

LEMMA ConsumerOrderly ==
  ASSUME Inv, OrderlyInv, ConsumerStep
  PROVE  OrderlyInv'
<1>1. CASE FindPendingChange
  <2>1. /\ consumer.pc = "find" /\ ConsumerFrame
        /\ UNCHANGED <<pending, status, payload, coQueue, batches>>
        /\ consumer'.pc # "execute" /\ consumer'.key = consumer.key
    BY <1>1 DEF FindPendingChange, redis, FailHere, ConsumerAt, Inv, TypeInv, TypeOK, WorkersOK
  <2> QED
    BY <2>1, ConsumerGoesOn
<1>2. CASE RemoveFromIndex
  <2>1. /\ consumer.pc = "unindex" /\ ConsumerFrame
        /\ UNCHANGED <<pending, status, payload, coQueue, batches>>
        /\ consumer'.pc # "execute" /\ consumer'.key = consumer.key
    BY <1>2 DEF RemoveFromIndex, KeepStatus, FailHere, ConsumerAt, Inv, TypeInv, TypeOK, WorkersOK
  <2> QED
    BY <2>1, ConsumerGoesOn
<1> QED
  BY <1>1, <1>2, TakeResultOrderly, ExecuteApprovedOrderly, RemovePendingOrderly, FinishResultOrderly
     DEF ConsumerStep

-----------------------------------------------------------------------------
(* Restarts and expiry.                                                    *)

\* What is left of a queue was in it.
LEMMA QueueSuffix ==
  ASSUME NEW S, NEW q \in Seq(S), NEW n \in 0..Len(q), NEW r, r = SubSeq(q, n + 1, Len(q))
  PROVE  /\ {r[i] : i \in DOMAIN r} \subseteq {q[i] : i \in DOMAIN q}
         /\ KeysIn(r) \subseteq KeysIn(q)
         /\ Distinct(q) => Distinct(r)
         /\ DistinctKeys(q) => DistinctKeys(r)
<1>1. \A i \in DOMAIN r : n + i \in DOMAIN q /\ r[i] = q[n + i]
  BY SuffixType
<1>2. DOMAIN r \subseteq Nat /\ n \in Nat
  <2>1. r \in Seq(S)
    BY SuffixType
  <2> QED
    BY <2>1, LenProperties
<1>3. {r[i] : i \in DOMAIN r} \subseteq {q[i] : i \in DOMAIN q}
  BY <1>1
<1>4. KeysIn(r) \subseteq KeysIn(q)
  BY <1>1 DEF KeysIn
<1>5. Distinct(q) => Distinct(r)
  BY <1>1, <1>2 DEF Distinct
<1>6. DistinctKeys(q) => DistinctKeys(r)
  BY <1>1, <1>2 DEF DistinctKeys
<1> QED
  BY <1>3, <1>4, <1>5, <1>6

LEMMA RestartOrderly ==
  ASSUME Inv, OrderlyInv, Restart
  PROVE  OrderlyInv'
<1>0. /\ UNCHANGED <<pending, status, payload, grants, batches>>
      /\ notices' = << >> /\ preStore'.pc = "idle" /\ registry' = [k \in Keys |-> None]
      /\ coordinator'.pc = "idle" /\ consumer'.pc = "idle"
      /\ submitPc' = [r \in Requests |->
                        IF submitPc[r] \in InProgress THEN "failed" ELSE submitPc[r]]
      /\ psQueue \in Seq(Keys) /\ coQueue \in Seq(Verdict)
      /\ Distinct(psQueue) /\ DistinctKeys(coQueue)
  BY DEF Restart, redis, IdlePreStore, IdleCoordinator, IdleConsumer, Inv, TypeInv, TypeOK, QueuesOK,
         OrderlyInv, QueuesAreSets
<1>1. PICK n \in 0..Len(psQueue) : psQueue' = SubSeq(psQueue, n + 1, Len(psQueue))
  BY DEF Restart
<1>2. PICK m \in 0..Len(coQueue) : coQueue' = SubSeq(coQueue, m + 1, Len(coQueue))
  BY DEF Restart
<1>3. ReportedKeys' \subseteq ReportedKeys /\ Distinct(psQueue)'
  <2>r. PICK r : r = psQueue' /\ r = SubSeq(psQueue, n + 1, Len(psQueue))
    BY <1>1
  <2>2. /\ {r[i] : i \in DOMAIN r} \subseteq {psQueue[i] : i \in DOMAIN psQueue}
        /\ Distinct(r)
    BY <1>0, <2>r, QueueSuffix
  <2>1. /\ {psQueue'[i] : i \in DOMAIN psQueue'} \subseteq {psQueue[i] : i \in DOMAIN psQueue}
        /\ Distinct(psQueue')
    BY <2>r, <2>2, Zenon
  <2> QED
    BY <2>1 DEF ReportedKeys, Distinct
<1>4. ResultKeys' \subseteq ResultKeys /\ DistinctKeys(coQueue)'
  <2>1. KeysIn(coQueue') \subseteq KeysIn(coQueue) /\ DistinctKeys(coQueue')
    BY <1>0, <1>2, QueueSuffix
  <2> QED
    BY <2>1 DEF ResultKeys, KeysIn, DistinctKeys
<1>5. (NoticedKeys = {})' /\ Distinct(notices)'
  BY <1>0 DEF NoticedKeys, Distinct
<1>6. QueuesAreSets' /\ NoRefusals'
  BY <1>0, <1>3, <1>4, <1>5 DEF QueuesAreSets, OrderlyInv, NoRefusals
<1>7. \A j \in Keys : Fewer(j) /\ Drops(j)
  BY <1>0, <1>3, <1>4, <1>5 DEF Fewer, Drops, PreStoring, Staging, Pairing, Paired, Consuming
<1>8. \A q \in Requests : \/ submitPc'[q] = submitPc[q]
                          \/ submitPc[q] \in InProgress /\ submitPc'[q] = "failed"
  BY <1>0
<1> QED
  BY <1>0, <1>6, <1>7, <1>8, Dwindling

LEMMA ExpiryOrderly ==
  ASSUME Inv, OrderlyInv, (\E u \in Users : ExpirePending(u)) \/ (\E k \in Keys : ExpirePayload(k))
  PROVE  OrderlyInv'
<1>1. /\ UNCHANGED <<status, psQueue, coQueue, notices, preStore, registry, coordinator, consumer,
                     submitPc, grants, batches>>
      /\ \A u \in Users : pending'[u] = pending[u] \/ pending'[u] = << >>
      /\ \A k \in Keys : payload'[k] # None => payload'[k] = payload[k]
  BY DEF ExpirePending, ExpirePayload, queues, workers, history, Inv, TypeInv, TypeOK, RedisOK
<1>2. QueuesAreSets' /\ NoRefusals' /\ NoticedKeys' = NoticedKeys
  BY <1>1 DEF OrderlyInv, QueuesAreSets, Distinct, DistinctKeys, NoRefusals, NoticedKeys
<1>3. \A j \in Keys : Fewer(j) /\ Drops(j)
  BY <1>1, <1>2 DEF Fewer, Drops, PreStoring, Staging, Consuming, Pairing, Paired, ReportedKeys,
     ResultKeys, KeysIn
<1> QED
  BY <1>1, <1>2, <1>3, Dwindling

-----------------------------------------------------------------------------
(* The invariant of every orderly behaviour, and what follows from it.     *)

LEMMA NextOrderly ==
  ASSUME Orderly, Inv, NoEvents, OrderlyInv, [Next]_vars
  PROVE  OrderlyInv'
<1>1. CASE \E r \in Requests : CheckConflict(r)
  BY <1>1, CheckConflictOrderly
<1>2. CASE \E r \in Requests : SubmitStep(r)
  BY <1>2, PushRequestOrderly, SetWaitingOrderly, AddToIndexOrderly, NotifyPendingUpdateOrderly
     DEF SubmitStep
<1>3. CASE ListenerStep
  BY <1>3 DEF ListenerStep, ReadEvent, OfferIfWaiting, NoEvents
<1>4. CASE PreStoreStep
  BY <1>4, FindPendingUpdateOrderly, StagePayloadOrderly, MarkPreStoragedOrderly, NotifyCoordinatorOrderly
     DEF PreStoreStep
<1>5. CASE \E k \in Keys : ApproveChange(k) \/ RefuseChange(k)
  BY <1>5, SendVerdictOrderly
<1>6. CASE CoordinatorStep
  BY <1>6, HandleApprovalOrderly, HandlePreStorageOrderly, CheckAndTransitionOrderly,
     NotifyConsumerOrderly DEF CoordinatorStep
<1>7. CASE (\E k \in Keys : FindExpired(k)) \/ DeleteExpired
  BY <1>7, CleanupOrderly
<1>8. CASE ConsumerStep
  BY <1>8, ConsumerOrderly
<1>9. CASE Restart
  BY <1>9, RestartOrderly
<1>10. CASE (\E u \in Users : ExpirePending(u)) \/ (\E k \in Keys : ExpirePayload(k))
  BY <1>10, ExpiryOrderly
<1>11. CASE UNCHANGED vars
  <2>1. UNCHANGED <<pending, status, payload, psQueue, coQueue, notices, preStore, registry,
                    coordinator, consumer, submitPc, grants, batches>>
    BY <1>11 DEF vars, redis, queues, workers, history
  <2>2. QueuesAreSets' /\ NoRefusals' /\ NoticedKeys' = NoticedKeys
    BY <2>1 DEF OrderlyInv, QueuesAreSets, Distinct, DistinctKeys, NoRefusals, NoticedKeys
  <2> QED
    BY <2>1, <2>2, SamePlace, Dwindling
<1> QED
  BY <1>1, <1>2, <1>3, <1>4, <1>5, <1>6, <1>7, <1>8, <1>9, <1>10, <1>11 DEF Next

LEMMA InitOrderly ==
  ASSUME Init
  PROVE  OrderlyInv
<1>1. /\ pending = [u \in Users |-> << >>] /\ payload = [k \in Keys |-> None]
      /\ psQueue = << >> /\ coQueue = << >> /\ notices = << >> /\ grants = << >> /\ batches = << >>
      /\ preStore.pc = "idle" /\ coordinator.pc = "idle" /\ consumer.pc = "idle"
      /\ registry = [k \in Keys |-> None] /\ submitPc = [r \in Requests |-> "new"]
  BY DEF Init, IdlePreStore, IdleCoordinator, IdleConsumer
<1>2. /\ QueuesAreSets /\ NoRefusals /\ ExecutedOnce /\ \A r : ~Executed(r)
      /\ NoticedKeys = {} /\ ReportedKeys = {} /\ ResultKeys = {}
  BY <1>1 DEF QueuesAreSets, Distinct, DistinctKeys, NoRefusals, ExecutedOnce, Executed, NoticedKeys,
     ReportedKeys, ResultKeys, KeysIn
<1>3. \A k \in Keys : ~UnderWay(k)
  BY <1>1, <1>2 DEF UnderWay, Unstaged, PreStoring, Pairing, Paired, Consuming
<1>4. \A k \in Keys : HeldOK(k) /\ OnceOK(k) /\ ReadyOK(k)
  BY <1>1, <1>2, <1>3 DEF HeldOK, OnceOK, ReadyOK, UnderWay, Unstaged, Staging, Consuming
<1>5. \A r \in Requests : SubmittingOK(r)
  BY <1>1, <1>2 DEF SubmittingOK, InProgress
<1> QED
  BY <1>2, <1>4, <1>5 DEF OrderlyInv

OrderlyState == Inv /\ NoEvents /\ OrderlyInv

\* The invariant of every orderly behaviour: what is under way keeps its user
\* from submitting, is in one place at a time, and has not been executed.
THEOREM OrderlyPipeline == Orderly => (Spec => []OrderlyState)
<1> SUFFICES ASSUME Orderly PROVE Spec => []OrderlyState
  OBVIOUS
<1>1. Init => OrderlyState
  BY InitInv, InitOrderly DEF Init, NoEvents, IdleListener, OrderlyState
<1>2. OrderlyState /\ [Next]_vars => OrderlyState'
  BY NextInv, NextNoEvents, NextOrderly DEF OrderlyState, Orderly
<1> QED
  BY <1>1, <1>2, PTL DEF Spec

\* Each request is executed at most once, however often calls fail, the server
\* restarts and keys expire, as long as no user submits while a request of the
\* same user is open.
THEOREM OrderlyExecutedOnce == Orderly => (Spec => []ExecutedOnce)
<1> SUFFICES ASSUME Orderly PROVE Spec => []ExecutedOnce
  OBVIOUS
<1>1. Spec => []OrderlyState
  BY OrderlyPipeline
<1>2. OrderlyState => ExecutedOnce
  BY DEF OrderlyState, OrderlyInv
<1> QED
  BY <1>1, <1>2, PTL

-----------------------------------------------------------------------------
(* Who writes a status: a submission, or a step about a pair on its way.   *)

LEMMA StatusWriters ==
  ASSUME OrderlyState, [Next]_vars
  PROVE  \/ status' = status
         \/ \E r \in Requests : SetUserProjectStatus(OwnerOf[r], ProjectOf[r], "waiting")
         \/ \E k \in Keys, s \in States : UnderWay(k) /\ SetUserProjectStatus(k[1], k[2], s)
<1>0. Inv /\ OrderlyInv /\ NoEvents
  BY DEF OrderlyState
<1>1. CASE \E r \in Requests : CheckConflict(r)
  BY <1>1 DEF CheckConflict, redis
<1>2. CASE \E r \in Requests : SubmitStep(r)
  BY <1>2 DEF SubmitStep, PushRequest, SetWaiting, AddToIndex, NotifyPendingUpdate, KeepStatus, redis
<1>3. CASE ListenerStep
  BY <1>0, <1>3 DEF ListenerStep, ReadEvent, OfferIfWaiting, NoEvents
<1>4. CASE PreStoreStep
  <2>1. CASE MarkPreStoraged
    <3>1. PICK k \in Keys : k = preStore.key /\ UnderWay(k)
      BY <1>0, <2>1, StagingFacts DEF MarkPreStoraged
    <3>2. status' = status \/ SetUserProjectStatus(k[1], k[2], "pre_storaged")
      BY <2>1, <3>1 DEF MarkPreStoraged, KeepStatus
    <3> QED
      BY <3>1, <3>2 DEF States, Pending
  <2> QED
    BY <1>4, <2>1 DEF PreStoreStep, FindPendingUpdate, StagePreStoragePayload,
       NotifyApprovalCoordinator, KeepStatus
<1>5. CASE \E k \in Keys : ApproveChange(k) \/ RefuseChange(k)
  BY <1>5 DEF ApproveChange, RefuseChange, SendVerdict, redis
<1>6. CASE CoordinatorStep
  <2>1. CASE HandlePreStorageMessage
    <3>1. psQueue \in Seq(Keys) /\ psQueue # << >> /\ Distinct(psQueue)
      BY <1>0, <2>1 DEF Inv, TypeInv, TypeOK, QueuesOK, HandlePreStorageMessage, OrderlyInv, QueuesAreSets
    <3>2. PICK k \in Keys : k = Head(psQueue) /\ k \in ReportedKeys
      BY <3>1, Removed DEF ReportedKeys
    <3>3. status' = status \/ SetUserProjectStatus(k[1], k[2], "pre_storaged")
      BY <2>1, <3>2 DEF HandlePreStorageMessage, KeepStatus
    <3> QED
      BY <3>2, <3>3 DEF UnderWay, States, Pending
  <2>2. CASE CheckAndTransition
    <3>1. PICK k \in Keys : k = coordinator.key /\ UnderWay(k)
      BY <1>0, <2>2, CoordinatingFacts DEF CheckAndTransition
    <3>2. status' = status \/ \E s \in States : SetUserProjectStatus(k[1], k[2], s)
      BY <2>2, <3>1 DEF CheckAndTransition, KeepStatus, States, Final
    <3> QED
      BY <3>1, <3>2
  <2> QED
    BY <1>6, <2>1, <2>2 DEF CoordinatorStep, HandleApprovalMessage, NotifyConsumerCoordinator, KeepStatus
<1>7. CASE (\E k \in Keys : FindExpired(k)) \/ DeleteExpired
  BY <1>7 DEF FindExpired, DeleteExpired, CleanupFrame, redis
<1>8. CASE ConsumerStep
  <2>1. CASE FinishResult
    <3>1. PICK k \in Keys : k = consumer.key /\ UnderWay(k)
      BY <1>0, <2>1, ConsumingFacts DEF FinishResult
    <3>2. status' = status \/ \E s \in States : SetUserProjectStatus(k[1], k[2], s)
      BY <2>1, <3>1 DEF FinishResult, KeepStatus, States, Final
    <3> QED
      BY <3>1, <3>2
  <2> QED
    BY <1>8, <2>1 DEF ConsumerStep, TakeResult, ExecuteApproved, FindPendingChange, RemovePendingChange,
       RemoveFromIndex, KeepStatus, redis
<1>9. CASE Restart
  BY <1>9 DEF Restart, redis
<1>10. CASE (\E u \in Users : ExpirePending(u)) \/ (\E k \in Keys : ExpirePayload(k))
  BY <1>10 DEF ExpirePending, ExpirePayload
<1>11. CASE UNCHANGED vars
  BY <1>11 DEF vars, redis
<1> QED
  BY <1>1, <1>2, <1>3, <1>4, <1>5, <1>6, <1>7, <1>8, <1>9, <1>10, <1>11 DEF Next

\* A final status stands until the user submits again: no late message, no
\* retry and no restart moves a finished request back into the pipeline.
THEOREM OrderlyFinalStatus == Orderly => (Spec => FinalStatusIsFinal)
<1> SUFFICES ASSUME Orderly PROVE Spec => FinalStatusIsFinal
  OBVIOUS
<1> DEFINE A == \A u \in Users :
                  status[u] # None /\ status[u].state \in Final /\ status'[u] # status[u]
                    => status'[u].state = "waiting"
<1>1. Spec => []OrderlyState
  BY OrderlyPipeline
<1>2. OrderlyState /\ [Next]_vars => [A]_status
  <2> SUFFICES ASSUME OrderlyState, [Next]_vars,
                      NEW u \in Users, status[u] # None, status[u].state \in Final,
                      status'[u] # status[u]
               PROVE  status'[u].state = "waiting"
    OBVIOUS
  <2>0. Inv /\ OrderlyInv /\ TypeInv
    BY DEF OrderlyState, Inv
  <2>1. CASE \E r \in Requests : SetUserProjectStatus(OwnerOf[r], ProjectOf[r], "waiting")
    <3>1. PICK r \in Requests : SetUserProjectStatus(OwnerOf[r], ProjectOf[r], "waiting")
      BY <2>1
    <3> QED
      BY <2>0, <3>1, KeyFacts, StatusWritten DEF States, Pending
  <2>2. CASE \E k \in Keys, s \in States : UnderWay(k) /\ SetUserProjectStatus(k[1], k[2], s)
    <3>1. PICK k \in Keys, s \in States : UnderWay(k) /\ SetUserProjectStatus(k[1], k[2], s)
      BY <2>2
    <3>2. k[1] # u /\ k[1] \in Users /\ k[2] \in Projects
      BY <2>0, <3>1, KeyFacts DEF OrderlyInv, HeldOK, Undecided
    <3> QED
      BY <2>0, <3>1, <3>2, StatusWritten
  <2> QED
    BY <2>1, <2>2, StatusWriters
<1>3. Spec => [][A]_status
  BY <1>1, <1>2, PTL DEF Spec
<1> QED
  BY <1>3 DEF FinalStatusIsFinal

-----------------------------------------------------------------------------
(* As long as no payload expires, a staged pair keeps its payload until    *)
(* the consumer takes it.                                                  *)

Staged(k) == \/ Staging(k) /\ preStore.pc = "state"
             \/ Publishing(k) \/ k \in ReportedKeys \/ Pairing(k) \/ k \in ResultKeys
KeptInv == \A k \in Keys : Staged(k) => payload[k] # None

LEMMA NextKept ==
  ASSUME Orderly, "ttl" \notin World, OrderlyState, KeptInv, [Next]_vars
  PROVE  KeptInv'
<1>0. Inv /\ OrderlyInv /\ NoEvents /\ payload \in [Keys -> Requests \cup {None}]
  BY DEF OrderlyState, Inv, TypeInv, TypeOK, RedisOK
\* Most steps stage nothing new and leave the payloads alone.
<1>a. ASSUME payload' = payload, \A k \in Keys : Staged(k)' => Staged(k)
      PROVE  KeptInv'
  BY <1>a DEF KeptInv
<1>1. CASE \E r \in Requests : CheckConflict(r) \/ SubmitStep(r)
  <2>1. UNCHANGED <<payload, preStore, psQueue, registry, coordinator, coQueue>>
    BY <1>1 DEF CheckConflict, SubmitStep, PushRequest, SetWaiting, AddToIndex, NotifyPendingUpdate, redis, queues
  <2> QED
    BY <1>a, <2>1 DEF Staged, Staging, Publishing, Pairing, Paired, ReportedKeys, ResultKeys, KeysIn
<1>2. CASE ListenerStep
  BY <1>0, <1>2 DEF ListenerStep, ReadEvent, OfferIfWaiting, NoEvents
<1>3. CASE PreStoreStep
  <2>0. PreStoreFrame
    BY <1>3 DEF PreStoreStep, FindPendingUpdate, StagePreStoragePayload, MarkPreStoraged,
       NotifyApprovalCoordinator
  <2>1. CASE FindPendingUpdate
    <3>1. UNCHANGED <<payload, psQueue>> /\ preStore'.pc \in {"idle", "stage"}
      BY <1>0, <2>1 DEF FindPendingUpdate, IdlePreStore
    <3>2. \A k \in Keys : Staged(k)' => Staged(k)
      BY <2>0, <3>1, PreStoreQuiet DEF Staged, Staging, Publishing, ReportedKeys
    <3> QED
      BY <1>a, <3>1, <3>2
  <2>2. CASE StagePreStoragePayload
    <3>k. PICK k \in Keys : k = preStore.key /\ preStore.pc = "stage" /\ preStore.request \in Requests
      BY <1>0, <2>2 DEF StagePreStoragePayload, Inv, TypeInv, HoldersOK
    <3>1. /\ psQueue' = psQueue
          /\ \/ payload' = payload /\ preStore'.pc = "idle"
             \/ /\ payload' = [payload EXCEPT ![k] = preStore.request]
                /\ preStore'.pc = "state" /\ preStore'.key = k
      BY <1>0, <2>2, <3>k DEF StagePreStoragePayload, IdlePreStore, Inv, TypeInv, TypeOK, WorkersOK
    <3>2. \A j \in Keys : j # k \/ preStore'.pc = "idle" => (Staged(j)' => Staged(j))
      BY <2>0, <3>1, PreStoreQuiet DEF Staged, Staging, Publishing, ReportedKeys
    <3>3. \A j \in Keys : j # k => payload'[j] = payload[j]
      BY <1>0, <3>1
    <3>4. payload'[k] # None \/ (payload' = payload /\ preStore'.pc = "idle")
      BY <1>0, <3>k, <3>1, NoneAssumption
    <3> QED
      BY <1>a, <3>2, <3>3, <3>4 DEF KeptInv
  <2>3. CASE MarkPreStoraged
    <3>1. /\ UNCHANGED <<payload, psQueue>> /\ preStore.pc = "state"
      BY <2>3 DEF MarkPreStoraged
    <3>3. preStore'.pc = "idle" \/ (preStore'.pc = "publish" /\ preStore'.key = preStore.key)
      BY <1>0, <2>3 DEF MarkPreStoraged, IdlePreStore, Inv, TypeInv, TypeOK, WorkersOK
    <3>2. \A k \in Keys : Staged(k)' => Staged(k)
      BY <2>0, <3>1, <3>3, PreStoreQuiet DEF Staged, Staging, Publishing, ReportedKeys
    <3> QED
      BY <1>a, <3>1, <3>2
  <2>4. CASE NotifyApprovalCoordinator
    <3>k. PICK k \in Keys : k = preStore.key /\ Publishing(k)
      BY <1>0, <2>4 DEF NotifyApprovalCoordinator, Inv, TypeInv, HoldersOK, Publishing
    <3>1. payload' = payload /\ preStore'.pc = "idle" /\ (psQueue' = psQueue \/ psQueue' = Append(psQueue, k))
          /\ psQueue \in Seq(Keys)
      BY <1>0, <2>4, <3>k DEF NotifyApprovalCoordinator, IdlePreStore, Inv, TypeInv, TypeOK, QueuesOK
    <3>2. ReportedKeys' \subseteq ReportedKeys \cup {k}
      BY <3>1, Appended DEF ReportedKeys
    <3>3. \A j \in Keys : Staged(j)' => Staged(j)
      BY <2>0, <3>k, <3>1, <3>2, PreStoreQuiet DEF Staged, Staging, Publishing
    <3> QED
      BY <1>a, <3>1, <3>3
  <2> QED
    BY <1>3, <2>1, <2>2, <2>3, <2>4 DEF PreStoreStep
<1>4. CASE \E k \in Keys : ApproveChange(k) \/ RefuseChange(k)
  <2>1. UNCHANGED <<payload, preStore, psQueue, registry, coordinator, coQueue>>
    BY <1>4 DEF ApproveChange, RefuseChange, SendVerdict, redis, workers
  <2> QED
    BY <1>a, <2>1 DEF Staged, Staging, Publishing, Pairing, Paired, ReportedKeys, ResultKeys, KeysIn
<1>5. CASE CoordinatorStep
  <2>0. /\ payload' = payload /\ preStore' = preStore /\ CoordinatorFrame
        /\ registry \in [Keys -> Entry \cup {None}]
    BY <1>0, <1>5 DEF CoordinatorStep, HandleApprovalMessage, HandlePreStorageMessage, CheckAndTransition,
       NotifyConsumerCoordinator, CoordinatorFrame, Inv, TypeInv, TypeOK, WorkersOK
  <2>1. CASE HandleApprovalMessage
    <3>1. /\ apQueue \in Seq(Verdict) /\ apQueue # << >> /\ coordinator.pc = "idle"
          /\ UNCHANGED <<psQueue, coQueue>>
      BY <1>0, <2>1 DEF Inv, TypeInv, TypeOK, QueuesOK, HandleApprovalMessage
    <3>m. PICK m \in Verdict : m = Head(apQueue)
      BY <3>1, Shifted
    <3>k. PICK k \in Keys : k = m.key
      BY DEF Verdict
    <3>2. StoreAndCheck(k, Recorded(Stored(k), m))
      BY <2>1, <3>m, <3>k DEF HandleApprovalMessage
    <3>3. Recorded(Stored(k), m) \in Entry /\ (Recorded(Stored(k), m).preStorageRecv <=> Paired(k))
      <4>1. Stored(k) \in Entry
        BY <2>0, ConstantsAssumption DEF Stored, NewEntry, Entry
      <4>2. Stored(k).preStorageRecv <=> Paired(k)
        BY DEF Stored, NewEntry, Paired
      <4> QED
        BY <4>1, <4>2 DEF Recorded, Entry, Verdict
    <3>4. \A j \in Keys : Pairing(j)' => Pairing(j)
      BY <1>0, <3>1, <3>2, <3>3, EntryStored DEF Pairing
    <3>5. \A j \in Keys : Staged(j)' => Staged(j)
      BY <2>0, <3>1, <3>4 DEF Staged, Staging, Publishing, ReportedKeys, ResultKeys, KeysIn
    <3> QED
      BY <1>a, <2>0, <3>5
  <2>2. CASE HandlePreStorageMessage
    <3>1. /\ psQueue \in Seq(Keys) /\ psQueue # << >> /\ Distinct(psQueue) /\ psQueue' = Tail(psQueue)
          /\ coordinator.pc = "idle" /\ coQueue' = coQueue
      BY <1>0, <2>2 DEF Inv, TypeInv, TypeOK, QueuesOK, HandlePreStorageMessage, OrderlyInv, QueuesAreSets
    <3>k. PICK k \in Keys : k = Head(psQueue) /\ k \in ReportedKeys
      BY <3>1, Removed DEF ReportedKeys
    <3>2. StoreAndCheck(k, [Stored(k) EXCEPT !.preStorageRecv = TRUE])
      BY <2>2, <3>k DEF HandlePreStorageMessage
    <3>3. Stored(k) \in Entry
      BY <2>0, ConstantsAssumption DEF Stored, NewEntry, Entry
    <3>e. PICK e \in Entry : e = [Stored(k) EXCEPT !.preStorageRecv = TRUE]
      BY <3>3 DEF Entry
    <3>4. \A j \in Keys : j # k => (Pairing(j)' <=> Pairing(j))
      BY <1>0, <3>1, <3>2, <3>e, EntryStored
    <3>5. ReportedKeys' \subseteq ReportedKeys
      BY <3>1, Removed DEF ReportedKeys
    <3>6. \A j \in Keys : Staged(j)' => Staged(j)
      BY <2>0, <3>k, <3>1, <3>4, <3>5 DEF Staged, Staging, Publishing, ResultKeys, KeysIn
    <3> QED
      BY <1>a, <2>0, <3>6
  <2>3. CASE CheckAndTransition
    <3>1. /\ UNCHANGED <<psQueue, coQueue, registry>>
          /\ coordinator.pc # "idle"
          /\ coordinator'.pc = "idle" \/ coordinator'.key = coordinator.key
      BY <1>0, <2>3 DEF CheckAndTransition, queues, IdleCoordinator, Inv, TypeInv, TypeOK, WorkersOK
    <3>2. \A j \in Keys : Staged(j)' => Staged(j)
      BY <2>0, <3>1 DEF Staged, Staging, Publishing, Pairing, Paired, ReportedKeys, ResultKeys, KeysIn
    <3> QED
      BY <1>a, <2>0, <3>2
  <2>4. CASE NotifyConsumerCoordinator
    <3>k. PICK k \in Keys : k = coordinator.key /\ Pairing(k) /\ coordinator.pc # "idle"
      BY <1>0, <2>4, CoordinatingFacts DEF NotifyConsumerCoordinator
    <3>t. coordinator.approved \in BOOLEAN /\ coordinator.token \in 1..MaxApprovals
      BY <1>0, <3>k DEF Inv, TypeInv, TypeOK, WorkersOK, HoldersOK
    <3>m. PICK m \in Verdict : m = [key |-> k, approved |-> coordinator.approved, token |-> coordinator.token]
      BY <3>t DEF Verdict
    <3>1. /\ psQueue' = psQueue /\ coordinator'.pc = "idle" /\ coQueue \in Seq(Verdict) /\ m.key = k
          /\ registry' = registry \/ registry' = [registry EXCEPT ![k] = None]
          /\ coQueue' = coQueue \/ coQueue' = Append(coQueue, m)
      BY <1>0, <2>4, <3>k, <3>m DEF NotifyConsumerCoordinator, WithoutEntry, IdleCoordinator, Inv, TypeInv, TypeOK, QueuesOK
    <3>2. ResultKeys' \subseteq ResultKeys \cup {k}
      BY <3>1, KeyAppended DEF ResultKeys
    <3>3. \A j \in Keys : Pairing(j)' => Pairing(j)
      BY <2>0, <3>1 DEF Pairing, Paired
    <3>4. \A j \in Keys : Staged(j)' => Staged(j)
      BY <2>0, <3>k, <3>1, <3>2, <3>3 DEF Staged, Staging, Publishing, ReportedKeys
    <3> QED
      BY <1>a, <2>0, <3>4
  <2> QED
    BY <1>5, <2>1, <2>2, <2>3, <2>4 DEF CoordinatorStep
<1>6. CASE (\E k \in Keys : FindExpired(k)) \/ DeleteExpired
  <2>1. UNCHANGED <<payload, preStore, psQueue, coQueue, coordinator>>
    BY <1>6 DEF FindExpired, DeleteExpired, CleanupFrame, redis, queues
  <2>2. \A j \in Keys : registry'[j] = registry[j] \/ registry'[j] = None
    BY <1>0, <1>6 DEF FindExpired, DeleteExpired, Inv, TypeInv, TypeOK, WorkersOK
  <2>3. \A j \in Keys : Staged(j)' => Staged(j)
    BY <2>1, <2>2 DEF Staged, Staging, Publishing, Pairing, Paired, ReportedKeys, ResultKeys, KeysIn
  <2> QED
    BY <1>a, <2>1, <2>3
<1>7. CASE ConsumerStep
  <2>0. ConsumerFrame
    BY <1>7 DEF ConsumerStep, TakeResult, ExecuteApproved, FindPendingChange, RemovePendingChange,
       RemoveFromIndex, FinishResult
  <2>1. CASE TakeResult
    <3>1. /\ coQueue \in Seq(Verdict) /\ coQueue # << >> /\ DistinctKeys(coQueue) /\ coQueue' = Tail(coQueue)
      BY <1>0, <2>1 DEF Inv, TypeInv, TypeOK, QueuesOK, TakeResult, OrderlyInv, QueuesAreSets
    <3>m. PICK m \in Verdict : m = Head(coQueue)
      BY <3>1, Shifted
    <3>k. PICK k \in Keys : k = m.key
      BY DEF Verdict
    <3>2. \A j \in Keys : j # k => payload'[j] = payload[j]
      BY <1>0, <2>1, <3>m, <3>k DEF TakeResult, Taken
    <3>3. k \in ResultKeys /\ ResultKeys' = ResultKeys \ {k}
      BY <3>1, <3>m, <3>k, KeyRemoved DEF ResultKeys
    <3>4. ~Staged(k)'
      <4>1. OnceOK(k)
        BY <1>0 DEF OrderlyInv
      <4> QED
        BY <2>0, <3>3, <4>1, ConsumerIsQuiet DEF Staged, OnceOK, Unstaged, PreStoring, Staging, Publishing
    <3>5. \A j \in Keys : j # k => (Staged(j)' => Staged(j))
      BY <2>0, <3>3, ConsumerIsQuiet DEF Staged, Staging, Publishing
    <3> QED
      BY <3>2, <3>4, <3>5 DEF KeptInv
  <2>2. CASE ~TakeResult
    <3>1. UNCHANGED <<payload, coQueue>>
      BY <1>7, <2>2 DEF ConsumerStep, ExecuteApproved, FindPendingChange, RemovePendingChange,
         RemoveFromIndex, FinishResult, redis
    <3>2. \A j \in Keys : Staged(j)' => Staged(j)
      BY <2>0, <3>1, ConsumerIsQuiet DEF Staged, Staging, Publishing, ResultKeys, KeysIn
    <3> QED
      BY <1>a, <3>1, <3>2
  <2> QED
    BY <2>1, <2>2
<1>8. CASE Restart
  <2>1. /\ payload' = payload /\ preStore'.pc = "idle" /\ coordinator'.pc = "idle"
        /\ registry' = [k \in Keys |-> None]
        /\ psQueue \in Seq(Keys) /\ coQueue \in Seq(Verdict)
    BY <1>0, <1>8 DEF Restart, redis, IdlePreStore, IdleCoordinator, Inv, TypeInv, TypeOK, QueuesOK
  <2>2. PICK n \in 0..Len(psQueue) : psQueue' = SubSeq(psQueue, n + 1, Len(psQueue))
    BY <1>8 DEF Restart
  <2>3. PICK m \in 0..Len(coQueue) : coQueue' = SubSeq(coQueue, m + 1, Len(coQueue))
    BY <1>8 DEF Restart
  <2>r. PICK r : r = psQueue' /\ r = SubSeq(psQueue, n + 1, Len(psQueue))
    BY <2>2
  <2>q. PICK q : q = coQueue' /\ q = SubSeq(coQueue, m + 1, Len(coQueue))
    BY <2>3
  <2>4. {r[i] : i \in DOMAIN r} \subseteq ReportedKeys /\ KeysIn(q) \subseteq ResultKeys
    BY <2>1, <2>r, <2>q, QueueSuffix DEF ReportedKeys, ResultKeys
  <2>5. ReportedKeys' \subseteq ReportedKeys /\ ResultKeys' \subseteq ResultKeys
    BY <2>r, <2>q, <2>4, Zenon DEF ReportedKeys, ResultKeys, KeysIn
  <2>6. \A j \in Keys : Staged(j)' => Staged(j)
    BY <2>1, <2>5 DEF Staged, Staging, Publishing, Pairing, Paired
  <2> QED
    BY <1>a, <2>1, <2>6
<1>9. CASE (\E u \in Users : ExpirePending(u)) \/ (\E k \in Keys : ExpirePayload(k))
  BY <1>9 DEF ExpirePending, ExpirePayload
<1>10. CASE UNCHANGED vars
  <2>1. UNCHANGED <<payload, preStore, psQueue, registry, coordinator, coQueue>>
    BY <1>10 DEF vars, redis, queues, workers
  <2> QED
    BY <1>a, <2>1 DEF Staged, Staging, Publishing, Pairing, Paired, ReportedKeys, ResultKeys, KeysIn
<1> QED
  BY <1>1, <1>2, <1>3, <1>4, <1>5, <1>6, <1>7, <1>8, <1>9, <1>10 DEF Next

\* A result message in consumer_queue finds the payload of its pair, whatever
\* failed or was lost on the way, as long as no payload has expired.
THEOREM OrderlyFindsPayload == Orderly /\ "ttl" \notin World => (Spec => []ConsumerFindsPayload)
<1> SUFFICES ASSUME Orderly, "ttl" \notin World PROVE Spec => []ConsumerFindsPayload
  OBVIOUS
<1>1. Spec => []OrderlyState
  BY OrderlyPipeline
<1>2. Init => KeptInv
  BY DEF Init, KeptInv, Staged, IdlePreStore, IdleCoordinator, Staging, Publishing, Pairing, Paired,
     ReportedKeys, ResultKeys, KeysIn
<1>3. OrderlyState /\ KeptInv /\ [Next]_vars => KeptInv'
  BY NextKept
<1>4. ASSUME OrderlyState, KeptInv PROVE ConsumerFindsPayload
  <2> SUFFICES ASSUME NEW i \in DOMAIN coQueue PROVE payload[coQueue[i].key] # None
    BY DEF ConsumerFindsPayload
  <2>1. coQueue[i] \in Verdict
    BY <1>4 DEF OrderlyState, Inv, TypeInv, TypeOK, QueuesOK
  <2>2. PICK k \in Keys : k = coQueue[i].key
    BY <2>1 DEF Verdict
  <2> QED
    BY <1>4, <2>2 DEF KeptInv, Staged, ResultKeys, KeysIn
<1> QED
  BY <1>1, <1>2, <1>3, <1>4, PTL DEF Spec

-----------------------------------------------------------------------------
(* When no call fails and no key expires, a request that waits keeps its   *)
(* user's record and its place in the index, through every restart.        *)

Steady == "oneOpenRequest" \in Discipline /\ World = {} /\ MaxFaults = 0

IsIndexed(r) == OwnerOf[r] \in index[ProjectOf[r]]

WaitingOK(r) ==
  /\ Waiting(r) =>
       /\ Undecided(Key(r)) /\ IsIndexed(r)
       /\ \A q \in Requests : OwnerOf[q] = OwnerOf[r] /\ q # r =>
            submitPc[q] \notin InProgress /\ ~Waiting(q)
  /\ submitPc[r] = "indexed" => IsIndexed(r)

\* What is staged or about to be executed waits; afterwards nothing does.
PlaceOK(k) ==
  /\ payload[k] # None => Waiting(payload[k])
  /\ Staging(k) => Waiting(preStore.request)
  /\ Consuming(k) /\ consumer.pc = "execute" => Waiting(consumer.request)
  /\ Consuming(k) /\ consumer.pc # "execute" =>
       \A r \in Requests : OwnerOf[r] = k[1] => ~Waiting(r)

SteadyInv == /\ \A r \in Requests : WaitingOK(r)
             /\ \A k \in Keys : PlaceOK(k)
SteadyState == OrderlyState /\ KeptInv /\ SteadyInv

LEMMA SteadyFacts ==
  ASSUME Steady
  PROVE  /\ Orderly /\ "ttl" \notin World
         /\ TypeInv => ~Fails
BY DEF Steady, Orderly, TypeInv, TypeOK, HistoryOK, Fails

LEMMA SameWaiting ==
  ASSUME UNCHANGED <<pending, batches>>, NEW r, submitPc'[r] = submitPc[r]
  PROVE  Waiting(r)' <=> Waiting(r)
BY DEF Waiting, Executed

\* A step that makes no request wait.
LEMMA SteadyStep ==
  ASSUME SteadyInv,
         \A r \in Requests :
           /\ Waiting(r)' => Waiting(r) /\ Undecided(Key(r))' /\ IsIndexed(r)'
           /\ submitPc'[r] \in InProgress => submitPc[r] \in InProgress
           /\ submitPc'[r] = "indexed" => IsIndexed(r)',
         \A k \in Keys : PlaceOK(k)'
  PROVE  SteadyInv'
<1>1. ASSUME NEW r \in Requests PROVE WaitingOK(r)'
  <2>1. WaitingOK(r)
    BY DEF SteadyInv
  <2> QED
    BY <2>1 DEF WaitingOK
<1> QED
  BY <1>1 DEF SteadyInv

LEMMA PlaceStays ==
  ASSUME Inv, NEW k \in Keys, PlaceOK(k), Drops(k),
         \A r \in Requests : Waiting(r)' <=> Waiting(r),
         Consuming(k)' /\ consumer'.pc # "execute" => Consuming(k) /\ consumer.pc # "execute"
  PROVE  PlaceOK(k)'
<1>1. payload'[k] # None => payload'[k] = payload[k] /\ payload[k] \in Requests /\ Waiting(payload[k])'
  BY HoldersAreRequests DEF PlaceOK, Drops, Inv, Waiting, Executed
<1>2. Staging(k)' => Waiting(preStore.request)'
  <2> SUFFICES ASSUME Staging(k)' PROVE Waiting(preStore.request)'
    OBVIOUS
  <2>1. Waiting(preStore.request) /\ preStore.request \in Requests /\ preStore'.request = preStore.request
    BY HoldersAreRequests DEF PlaceOK, Drops, Inv
  <2> QED
    BY <2>1 DEF Waiting, Executed
<1>3. Consuming(k)' /\ consumer'.pc = "execute" => Waiting(consumer.request)'
  <2> SUFFICES ASSUME Consuming(k)', consumer'.pc = "execute" PROVE Waiting(consumer.request)'
    OBVIOUS
  <2>1. /\ Waiting(consumer.request) /\ consumer.request \in Requests
        /\ consumer'.request = consumer.request
    BY HoldersAreRequests DEF PlaceOK, Drops, Inv
  <2> QED
    BY <2>1 DEF Waiting, Executed
<1>4. Consuming(k)' /\ consumer'.pc # "execute" => \A r \in Requests : OwnerOf[r] = k[1] => ~Waiting(r)'
  BY DEF PlaceOK
<1> QED
  BY <1>1, <1>2, <1>3, <1>4 DEF PlaceOK, Waiting, Executed

\* A status that is not final, written for the pair on its way.
LEMMA UndecidedStays ==
  ASSUME Inv, OrderlyInv, SteadyInv, NEW k \in Keys, UnderWay(k), NEW s \in States \ Final,
         SetUserProjectStatus(k[1], k[2], s), NEW r \in Requests, Waiting(r)
  PROVE  Undecided(Key(r))'
<1>1. Undecided(Key(r)) /\ Undecided(k)
  BY DEF SteadyInv, WaitingOK, OrderlyInv, HeldOK
<1>2. /\ \A v \in Users : v # k[1] => status'[v] = status[v]
      /\ Undecided(k)'
  BY KeyFacts, StatusWritten DEF Inv, Undecided
<1>3. CASE OwnerOf[r] = k[1]
  <2>1. Key(r) = k
    BY <1>1, <1>3, KeyFacts DEF Undecided
  <2> QED
    BY <1>2, <2>1
<1>4. CASE OwnerOf[r] # k[1]
  BY <1>1, <1>2, <1>4, KeyFacts DEF Undecided
<1> QED
  BY <1>3, <1>4

\* A step that changes no list, no submission and nothing the consumer has begun.
LEMMA SteadyQuiet ==
  ASSUME Inv, OrderlyInv, SteadyInv, UNCHANGED <<pending, index, batches, submitPc>>,
         \A k \in Keys : /\ Drops(k)
                         /\ Consuming(k)' /\ consumer'.pc # "execute" =>
                              Consuming(k) /\ consumer.pc # "execute",
         \/ status' = status
         \/ \E k \in Keys, s \in States \ Final : UnderWay(k) /\ SetUserProjectStatus(k[1], k[2], s)
  PROVE  SteadyInv'
<1>1. \A r \in Requests : Waiting(r)' <=> Waiting(r)
  BY SameWaiting
<1>2. \A r \in Requests : Waiting(r) => Undecided(Key(r))'
  <2>1. CASE status' = status
    BY <2>1 DEF SteadyInv, WaitingOK, Undecided
  <2> QED
    BY <2>1, UndecidedStays
<1>3. \A r \in Requests : /\ Waiting(r) => IsIndexed(r)'
                          /\ submitPc'[r] = "indexed" => IsIndexed(r)'
  BY DEF SteadyInv, WaitingOK, IsIndexed
<1>4. \A k \in Keys : PlaceOK(k)'
  BY <1>1, PlaceStays DEF SteadyInv
<1> QED
  BY <1>1, <1>2, <1>3, <1>4, SteadyStep

-----------------------------------------------------------------------------
(* Submissions.                                                            *)

\* While a user submits, no other request of the user waits.
LEMMA NoneWaits ==
  ASSUME Orderly, SteadyInv, NEW r \in Requests, submitPc[r] \in InProgress \/ CheckConflict(r),
         NEW q \in Requests, OwnerOf[q] = OwnerOf[r]
  PROVE  ~Waiting(q)
<1> SUFFICES ASSUME Waiting(q) PROVE FALSE
  OBVIOUS
<1>1. WaitingOK(q) /\ submitPc[q] = "submitted"
  BY DEF SteadyInv, Waiting
<1>2. CASE submitPc[r] \in InProgress
  BY <1>1, <1>2 DEF WaitingOK, InProgress
<1>3. CASE CheckConflict(r)
  <2>1. Open(q)
    BY <1>1, KeyFacts DEF WaitingOK, Undecided, Open
  <2> QED
    BY <1>3, <2>1 DEF CheckConflict, MaySubmit, Orderly
<1> QED
  BY <1>2, <1>3

\* Until it is submitted, a request changes nothing for those that wait.
LEMMA SubmittingSteady ==
  ASSUME Orderly, Inv, SteadyInv, NEW r \in Requests, submitPc[r] \in InProgress \/ CheckConflict(r),
         UNCHANGED <<payload, preStore, consumer, batches>>,
         submitPc'[r] # "submitted", \A q \in Requests : q # r => submitPc'[q] = submitPc[q],
         submitPc'[r] = "indexed" => IsIndexed(r)',
         \A q \in Requests : /\ IsIndexed(q) => IsIndexed(q)'
                             /\ q # r => (q \in ToSet(pending'[OwnerOf[q]]) <=> q \in ToSet(pending[OwnerOf[q]])),
         \A v \in Users : v # OwnerOf[r] => status'[v] = status[v]
  PROVE  SteadyInv'
<1>1. submitPc[r] # "submitted"
  BY DEF InProgress, CheckConflict
<1>2. \A q \in Requests : Waiting(q)' <=> Waiting(q)
  BY <1>1 DEF Waiting, Executed
<1>3. \A q \in Requests : OwnerOf[q] = OwnerOf[r] => ~Waiting(q)
  BY NoneWaits
<1>4. ASSUME NEW q \in Requests PROVE WaitingOK(q)'
  <2>1. WaitingOK(q)
    BY DEF SteadyInv
  <2>2. submitPc'[q] = "indexed" => IsIndexed(q)'
    BY <2>1 DEF WaitingOK
  <2>3. CASE Waiting(q)
    <3>1. OwnerOf[q] # OwnerOf[r] /\ status'[OwnerOf[q]] = status[OwnerOf[q]]
      BY <1>3, <2>3, KeyFacts
    <3>2. Undecided(Key(q))' /\ IsIndexed(q)'
      BY <2>1, <2>3, <3>1, KeyFacts DEF WaitingOK, Undecided
    <3>3. \A x \in Requests : OwnerOf[x] = OwnerOf[q] /\ x # q => submitPc'[x] \notin InProgress /\ ~Waiting(x)'
      BY <1>2, <2>1, <2>3, <3>1 DEF WaitingOK
    <3> QED
      BY <2>2, <3>2, <3>3 DEF WaitingOK
  <2> QED
    BY <1>2, <2>2, <2>3 DEF WaitingOK
<1>5. \A k \in Keys : PlaceOK(k)'
  <2>1. \A k \in Keys : Drops(k) /\ (Consuming(k)' <=> Consuming(k))
    BY DEF Drops, Staging, Consuming
  <2> QED
    BY <1>2, <2>1, PlaceStays DEF SteadyInv
<1> QED
  BY <1>4, <1>5 DEF SteadyInv

LEMMA CheckConflictSteady ==
  ASSUME Orderly, Inv, SteadyInv, NEW r \in Requests, CheckConflict(r)
  PROVE  SteadyInv'
<1>0. submitPc \in [Requests -> SubmitStates]
  BY DEF Inv, TypeInv, TypeOK, WorkersOK
<1>1. /\ submitPc'[r] \in {"checked", "conflict", "failed"}
      /\ \A q \in Requests : q # r => submitPc'[q] = submitPc[q]
  <2>1. \E pc \in {"checked", "conflict", "failed"} : SubmitTo(r, pc)
    BY Zenon DEF CheckConflict
  <2> QED
    BY <1>0, <2>1 DEF SubmitTo
<1>2. UNCHANGED <<pending, status, index, payload, preStore, consumer, batches>>
  BY DEF CheckConflict, redis, history
<1> QED
  BY <1>1, <1>2, SubmittingSteady DEF IsIndexed

LEMMA SubmitStepSteady ==
  ASSUME Steady, Inv, OrderlyInv, SteadyInv, NEW r \in Requests,
         PushRequest(r) \/ SetWaiting(r) \/ AddToIndex(r)
  PROVE  SteadyInv'
<1> DEFINE u == OwnerOf[r]
<1>0. /\ submitPc \in [Requests -> SubmitStates] /\ pending \in [Users -> Seq(Requests)] /\ u \in Users
      /\ ProjectOf[r] \in Projects /\ index \in [Projects -> SUBSET Users] /\ Orderly /\ ~Fails
  BY SteadyFacts, KeyFacts DEF Inv, TypeInv, TypeOK, WorkersOK, RedisOK
<1>1. /\ submitPc[r] \in InProgress /\ submitPc'[r] \in {"pushed", "stated", "indexed"}
      /\ \A q \in Requests : q # r => submitPc'[q] = submitPc[q]
      /\ UNCHANGED <<payload, preStore, consumer, batches>>
  BY <1>0 DEF PushRequest, SetWaiting, AddToIndex, SubmitTo, InProgress, history
<1>2. \A v \in Users : v # u => status'[v] = status[v]
  BY <1>0, StatusWritten DEF PushRequest, SetWaiting, AddToIndex, KeepStatus, Inv, States, Pending
<1>3. /\ submitPc'[r] = "indexed" => IsIndexed(r)'
      /\ \A q \in Requests : IsIndexed(q) => IsIndexed(q)'
  <2>1. CASE AddToIndex(r)
    <3>1. index' = [index EXCEPT ![ProjectOf[r]] = @ \cup {u}]
      BY <1>0, <2>1 DEF AddToIndex, Indexed
    <3>2. \A p \in Projects : index[p] \subseteq index'[p]
      BY <1>0, <3>1
    <3>3. u \in index'[ProjectOf[r]]
      BY <1>0, <3>1
    <3> QED
      BY <3>2, <3>3, KeyFacts DEF IsIndexed
  <2>2. CASE PushRequest(r) \/ SetWaiting(r)
    BY <1>0, <2>2 DEF PushRequest, SetWaiting, SubmitTo, IsIndexed
  <2> QED
    BY <2>1, <2>2
<1>4. ASSUME NEW q \in Requests, q # r
      PROVE  q \in ToSet(pending'[OwnerOf[q]]) <=> q \in ToSet(pending[OwnerOf[q]])
  <2>1. CASE PushRequest(r)
    <3>1. pending' = [pending EXCEPT ![u] = <<r>> \o @]
      BY <1>0, <2>1 DEF PushRequest, PushFirst
    <3>2. <<r>> \in Seq(Requests) /\ Len(<<r>>) = 1 /\ <<r>>[1] = r /\ pending[u] \in Seq(Requests)
      BY <1>0
    <3>s. PICK s \in Seq(Requests) : s = pending[u]
      BY <3>2
    <3>t. PICK t : t = <<r>> \o s
      OBVIOUS
    <3>3. /\ DOMAIN t = 1..(1 + Len(s)) /\ DOMAIN s = 1..Len(s) /\ Len(s) \in Nat /\ t[1] = r
          /\ \A i \in 1..Len(s) : t[i + 1] = s[i]
      <4>1. /\ Len(t) = 1 + Len(s) /\ t \in Seq(Requests)
            /\ \A i \in 1..Len(<<r>>) : t[i] = <<r>>[i]
            /\ \A i \in 1..Len(s) : t[1 + i] = s[i]
        BY <3>2, <3>t, ConcatProperties
      <4>2. Len(s) \in Nat /\ DOMAIN s = 1..Len(s) /\ DOMAIN t = 1..Len(t)
        BY <4>1, LenProperties
      <4> QED
        BY <3>2, <4>1, <4>2
    <3>4. q \in ToSet(t) <=> q \in ToSet(s)
      <4>1. ASSUME NEW i \in DOMAIN t, t[i] = q PROVE i - 1 \in DOMAIN s /\ s[i - 1] = q
        <5>1. i # 1 /\ i - 1 \in 1..Len(s)
          BY <1>4, <3>3, <4>1
        <5> QED
          BY <3>3, <4>1, <5>1
      <4>2. ASSUME NEW i \in DOMAIN s, s[i] = q PROVE i + 1 \in DOMAIN t /\ t[i + 1] = q
        BY <3>3, <4>2
      <4> QED
        BY <4>1, <4>2 DEF ToSet
    <3>5. CASE OwnerOf[q] = u
      BY <1>0, <3>1, <3>s, <3>t, <3>4, <3>5
    <3>6. CASE OwnerOf[q] # u
      BY <1>0, <3>1, <3>6, KeyFacts
    <3> QED
      BY <3>5, <3>6
  <2>2. CASE SetWaiting(r) \/ AddToIndex(r)
    BY <2>2 DEF SetWaiting, AddToIndex
  <2> QED
    BY <2>1, <2>2
<1> QED
  BY <1>0, <1>1, <1>2, <1>3, <1>4, SubmittingSteady

\* The request begins to wait.
LEMMA NotifySteady ==
  ASSUME Steady, Inv, OrderlyInv, SteadyInv, NEW r \in Requests, NotifyPendingUpdate(r)
  PROVE  SteadyInv'
<1> DEFINE u == OwnerOf[r]
<1>0. submitPc \in [Requests -> SubmitStates] /\ Orderly
  BY SteadyFacts DEF Inv, TypeInv, TypeOK, WorkersOK
<1>1. /\ submitPc[r] = "indexed" /\ submitPc[r] \in InProgress /\ submitPc'[r] = "submitted"
      /\ \A q \in Requests : q # r => submitPc'[q] = submitPc[q]
      /\ UNCHANGED <<pending, status, index, payload, preStore, consumer, batches>>
  BY <1>0 DEF NotifyPendingUpdate, SubmitTo, InProgress, redis, history
<1>2. \A q \in Requests : OwnerOf[q] = u => ~Waiting(q)
  BY <1>0, <1>1, NoneWaits
<1>3. \A q \in Requests : q # r => (Waiting(q)' <=> Waiting(q))
  BY <1>1, SameWaiting
<1>4. \A q \in Requests : OwnerOf[q] = u /\ q # r => submitPc'[q] \notin InProgress
  BY <1>0, <1>1, SubmitterAlone
<1>5. ASSUME NEW q \in Requests PROVE WaitingOK(q)'
  <2>1. WaitingOK(q) /\ SubmittingOK(q)
    BY DEF SteadyInv, OrderlyInv
  <2>2. CASE q = r
    <3>1. Undecided(Key(r))' /\ IsIndexed(r)'
      BY <1>1, <2>1, <2>2 DEF SubmittingOK, WaitingOK, Undecided, IsIndexed
    <3> QED
      BY <1>1, <1>2, <1>3, <1>4, <2>2, <3>1 DEF WaitingOK
  <2>3. CASE q # r
    <3>1. submitPc'[q] = "indexed" => IsIndexed(q)'
      BY <1>1, <2>1, <2>3 DEF WaitingOK, IsIndexed
    <3>2. CASE Waiting(q)'
      <4>1. Waiting(q) /\ OwnerOf[q] # u
        BY <1>2, <1>3, <2>3, <3>2
      <4>2. Undecided(Key(q))' /\ IsIndexed(q)'
        BY <1>1, <2>1, <4>1 DEF WaitingOK, Undecided, IsIndexed
      <4>3. \A x \in Requests : OwnerOf[x] = OwnerOf[q] /\ x # q =>
              submitPc'[x] \notin InProgress /\ ~Waiting(x)'
        BY <1>1, <1>3, <2>1, <4>1 DEF WaitingOK
      <4> QED
        BY <3>1, <4>2, <4>3 DEF WaitingOK
    <3> QED
      BY <3>1, <3>2 DEF WaitingOK
  <2> QED
    BY <2>2, <2>3
<1>6. ASSUME NEW k \in Keys PROVE PlaceOK(k)'
  <2>0. PlaceOK(k)
    BY DEF SteadyInv
  <2>1. k[1] = u => ~Consuming(k)
    BY <1>0, <1>1, SubmitterIsIdle DEF UnderWay
  <2>2. \A q \in Requests : Waiting(q) => Waiting(q)'
    BY <1>2, <1>3
  <2>3. \A q \in Requests : OwnerOf[q] # u => (Waiting(q)' <=> Waiting(q))
    BY <1>3
  <2>4. payload[k] # None => Waiting(payload[k])'
    BY <1>1, <2>0, <2>2, HoldersAreRequests DEF PlaceOK, Inv, Waiting, Executed
  <2>5. Staging(k) => Waiting(preStore.request)'
    BY <1>1, <2>0, <2>2, HoldersAreRequests DEF PlaceOK, Inv, Waiting, Executed
  <2>6. Consuming(k) /\ consumer.pc = "execute" => Waiting(consumer.request)'
    BY <1>1, <2>0, <2>2, HoldersAreRequests DEF PlaceOK, Inv, Waiting, Executed
  <2>7. Consuming(k) /\ consumer.pc # "execute" => \A q \in Requests : OwnerOf[q] = k[1] => ~Waiting(q)'
    BY <2>0, <2>1, <2>3 DEF PlaceOK
  <2> QED
    BY <1>1, <2>4, <2>5, <2>6, <2>7 DEF PlaceOK, Staging, Consuming, Waiting, Executed
<1> QED
  BY <1>5, <1>6 DEF SteadyInv

-----------------------------------------------------------------------------
(* The other steps.                                                        *)

LEMMA PreStoreSteady ==
  ASSUME Steady, Inv, OrderlyInv, SteadyInv, PreStoreStep
  PROVE  SteadyInv'
<1>0. /\ UNCHANGED <<pending, index, batches, submitPc, consumer>>
      /\ payload \in [Keys -> Requests \cup {None}] /\ ~Fails
      /\ \A k : Consuming(k)' <=> Consuming(k)
  <2>1. PreStoreFrame
    BY DEF PreStoreStep, FindPendingUpdate, StagePreStoragePayload, MarkPreStoraged, NotifyApprovalCoordinator
  <2> QED
    BY <2>1, SteadyFacts DEF PreStoreFrame, history, Inv, TypeInv, TypeOK, RedisOK, Consuming
<1>w. \A r \in Requests : Waiting(r)' <=> Waiting(r)
  BY <1>0, SameWaiting
<1>1. CASE FindPendingUpdate
  <2>0. notices \in Seq(Keys) /\ notices # << >> /\ status' = status /\ payload' = payload
    BY <1>1 DEF Inv, TypeInv, TypeOK, QueuesOK, FindPendingUpdate, KeepStatus
  <2>k. PICK k \in Keys : k = Head(notices) /\ k \in NoticedKeys
    BY <2>0, Shifted DEF NoticedKeys
  <2>t. PICK target : target = NewestFor(k[1], k[2])
    OBVIOUS
  <2>1. \/ preStore'.pc = "idle"
        \/ target # None /\ preStore'.pc = "stage" /\ preStore'.key = k /\ preStore'.request = target
    BY <1>0, <1>1, <2>k, <2>t DEF FindPendingUpdate, IdlePreStore
  <2>2. CASE preStore'.pc = "idle"
    <3>1. \A j \in Keys : Drops(j)
      BY <1>0, <2>0, <2>2 DEF Drops, Staging
    <3> QED
      BY <1>0, <2>0, <3>1, SteadyQuiet
  <2>3. CASE target # None /\ preStore'.pc = "stage" /\ preStore'.key = k /\ preStore'.request = target
    <3>1. pending[k[1]] # << >> /\ k[1] \in Users
      BY <2>3, <2>t, KeyFacts DEF NewestFor, PositionsOf
    <3>2. HasRequest(k)
      BY <2>k, <3>1 DEF OrderlyInv, ReadyOK
    <3>3. /\ target = Newest(k[1]) /\ target \in Requests
          /\ submitPc[target] = "submitted" /\ ~Executed(target)
      BY <2>t, <3>1, <3>2, NewestIsFirst DEF HasRequest
    <3>4. OwnerOf[target] = k[1] /\ target \in ToSet(pending[k[1]])
      BY <3>1, <3>3, PendingFacts DEF ToSet, Newest
    <3>5. Waiting(target)' /\ Waiting(target)
      BY <1>w, <3>3, <3>4 DEF Waiting
    <3>6. ASSUME NEW j \in Keys PROVE PlaceOK(j)'
      <4>1. /\ payload'[j] # None => payload'[j] = payload[j] /\ payload[j] \in Requests /\ Waiting(payload[j])'
        BY <1>w, <2>0, HoldersAreRequests DEF SteadyInv, PlaceOK, Inv, Waiting, Executed
      <4>2. Staging(j)' => preStore'.request = target
        BY <2>3 DEF Staging
      <4>3. Consuming(j)' /\ consumer'.pc = "execute" => Waiting(consumer.request)'
        BY <1>0, <1>w, HoldersAreRequests DEF SteadyInv, PlaceOK, Inv, Waiting, Executed
      <4>4. Consuming(j)' /\ consumer'.pc # "execute" => \A r \in Requests : OwnerOf[r] = j[1] => ~Waiting(r)'
        BY <1>0, <1>w DEF SteadyInv, PlaceOK
      <4>5. Staging(j)' => Waiting(preStore.request)'
        BY <3>5, <4>2 DEF Waiting, Executed
      <4> QED
        BY <4>1, <4>3, <4>4, <4>5 DEF PlaceOK, Waiting, Executed
    <3>7. \A r \in Requests : /\ Waiting(r) => Undecided(Key(r))' /\ IsIndexed(r)'
                              /\ submitPc'[r] = "indexed" => IsIndexed(r)'
      BY <1>0, <2>0 DEF SteadyInv, WaitingOK, IsIndexed, Undecided
    <3> QED
      BY <1>0, <1>w, <3>6, <3>7, SteadyStep
  <2> QED
    BY <2>1, <2>2, <2>3
<1>2. CASE StagePreStoragePayload
  <2>k. PICK k \in Keys : k = preStore.key /\ Staging(k) /\ preStore.request \in Requests
    BY <1>2 DEF StagePreStoragePayload, Inv, TypeInv, HoldersOK, Staging
  <2>1. /\ payload' = [payload EXCEPT ![k] = preStore.request] /\ status' = status
        /\ preStore'.pc = "state" /\ preStore'.key = k /\ preStore'.request = preStore.request
    BY <1>0, <1>2, <2>k DEF StagePreStoragePayload, KeepStatus, Inv, TypeInv, TypeOK, WorkersOK
  <2>2. Waiting(preStore.request)'
    <3>1. Waiting(preStore.request)
      BY <2>k DEF SteadyInv, PlaceOK
    <3> QED
      BY <1>w, <2>1, <2>k, <3>1 DEF Waiting, Executed
  <2>3. ASSUME NEW j \in Keys PROVE PlaceOK(j)'
    <3>1. j # k => payload'[j] = payload[j]
      BY <1>0, <2>1
    <3>2. j = k => payload'[j] = preStore'.request
      BY <1>0, <2>1
    <3>3. payload'[j] # None => Waiting(payload[j])'
      <4>1. CASE j = k
        BY <2>2, <3>2, <4>1 DEF Waiting, Executed
      <4>2. CASE j # k
        BY <1>w, <3>1, <4>2, HoldersAreRequests DEF SteadyInv, PlaceOK, Inv, Waiting, Executed
      <4> QED
        BY <4>1, <4>2
    <3>4. Consuming(j)' /\ consumer'.pc = "execute" => Waiting(consumer.request)'
      BY <1>0, <1>w, HoldersAreRequests DEF SteadyInv, PlaceOK, Inv, Waiting, Executed
    <3>5. Consuming(j)' /\ consumer'.pc # "execute" => \A r \in Requests : OwnerOf[r] = j[1] => ~Waiting(r)'
      BY <1>0, <1>w DEF SteadyInv, PlaceOK
    <3> QED
      BY <2>2, <3>3, <3>4, <3>5 DEF PlaceOK, Waiting, Executed
  <2>4. \A r \in Requests : /\ Waiting(r) => Undecided(Key(r))' /\ IsIndexed(r)'
                            /\ submitPc'[r] = "indexed" => IsIndexed(r)'
    BY <1>0, <2>1 DEF SteadyInv, WaitingOK, IsIndexed, Undecided
  <2> QED
    BY <1>0, <1>w, <2>3, <2>4, SteadyStep
<1>3. CASE MarkPreStoraged
  <2>k. PICK k \in Keys : k = preStore.key /\ UnderWay(k)
    BY <1>3, StagingFacts DEF MarkPreStoraged
  <2>1. /\ SetUserProjectStatus(k[1], k[2], "pre_storaged") /\ preStore'.pc = "publish" /\ payload' = payload
    BY <1>0, <1>3, <2>k DEF MarkPreStoraged, Inv, TypeInv, TypeOK, WorkersOK
  <2>2. \A j \in Keys : Drops(j)
    BY <1>0, <2>1 DEF Drops, Staging, Consuming
  <2>3. "pre_storaged" \in States \ Final
    BY DEF States, Pending, Final
  <2> QED
    BY <1>0, <2>k, <2>1, <2>2, <2>3, SteadyQuiet
<1>4. CASE NotifyApprovalCoordinator
  <2>1. /\ status' = status /\ preStore'.pc = "idle" /\ payload' = payload
    BY <1>4 DEF NotifyApprovalCoordinator, KeepStatus, IdlePreStore
  <2>2. \A j \in Keys : Drops(j)
    BY <1>0, <2>1 DEF Drops, Staging, Consuming
  <2> QED
    BY <1>0, <2>1, <2>2, SteadyQuiet
<1> QED
  BY <1>1, <1>2, <1>3, <1>4 DEF PreStoreStep

LEMMA CoordinatorSteady ==
  ASSUME Steady, Inv, OrderlyInv, SteadyInv, CoordinatorStep
  PROVE  SteadyInv'
<1>0. UNCHANGED <<pending, index, batches, submitPc, consumer, payload, preStore>>
  BY DEF CoordinatorStep, HandleApprovalMessage, HandlePreStorageMessage, CheckAndTransition,
     NotifyConsumerCoordinator, CoordinatorFrame, history
<1>1. \A j \in Keys : Drops(j) /\ (Consuming(j)' <=> Consuming(j))
  BY <1>0 DEF Drops, Staging, Consuming
<1>2. {"pre_storaged", "approved"} \subseteq States \ Final
  BY DEF States, Pending, Final
<1>3. CASE HandlePreStorageMessage
  <2>1. psQueue \in Seq(Keys) /\ psQueue # << >>
    BY <1>3 DEF Inv, TypeInv, TypeOK, QueuesOK, HandlePreStorageMessage
  <2>k. PICK k \in Keys : k = Head(psQueue) /\ k \in ReportedKeys
    BY <2>1, Shifted DEF ReportedKeys
  <2>2. status' = status \/ SetUserProjectStatus(k[1], k[2], "pre_storaged")
    BY <1>3, <2>k DEF HandlePreStorageMessage, KeepStatus
  <2> QED
    BY <1>0, <1>1, <1>2, <2>k, <2>2, SteadyQuiet DEF UnderWay
<1>4. CASE CheckAndTransition
  <2>k. PICK k \in Keys : k = coordinator.key /\ UnderWay(k) /\ coordinator.approved
    BY <1>4, CoordinatingFacts DEF CheckAndTransition
  <2>1. status' = status \/ SetUserProjectStatus(k[1], k[2], "approved")
    BY <1>4, <2>k DEF CheckAndTransition, KeepStatus
  <2> QED
    BY <1>0, <1>1, <1>2, <2>k, <2>1, SteadyQuiet
<1>5. CASE HandleApprovalMessage \/ NotifyConsumerCoordinator
  <2>1. status' = status
    BY <1>5 DEF HandleApprovalMessage, NotifyConsumerCoordinator, KeepStatus
  <2> QED
    BY <1>0, <1>1, <2>1, SteadyQuiet
<1> QED
  BY <1>3, <1>4, <1>5 DEF CoordinatorStep

\* A batch is the execution of the request the consumer holds.
LEMMA BatchExecuted ==
  ASSUME Inv, ExecuteApproved
  PROVE  \E r \in Requests : /\ r = consumer.request
                             /\ \A q : Executed(q)' <=> Executed(q) \/ q = r
<1> DEFINE B == [token : 1..MaxApprovals, request : Requests]
<1>1. consumer.pc = "execute" /\ batches \in Seq(B) /\ consumer.request \in Requests
  BY DEF ExecuteApproved, Inv, TypeInv, TypeOK, HoldersOK, HistoryOK
<1>2. consumer.token \in 1..MaxApprovals
  BY <1>1, TokenRange DEF Inv, ApprovalInv, SaysWhatWasGranted
<1>b. PICK b \in B : b = [token |-> consumer.token, request |-> consumer.request]
  BY <1>1, <1>2
<1>3. batches' = Append(batches, b)
  BY <1>b DEF ExecuteApproved
<1>4. /\ DOMAIN batches = 1..Len(batches) /\ DOMAIN batches' = 1..(Len(batches) + 1)
      /\ \A i \in 1..Len(batches) : batches'[i] = batches[i]
      /\ batches'[Len(batches) + 1] = b /\ Len(batches) \in Nat /\ b.request = consumer.request
  BY <1>1, <1>b, <1>3, AppendProperties, LenProperties
<1>5. \A q : Executed(q)' <=> Executed(q) \/ q = consumer.request
  BY <1>4 DEF Executed
<1> QED
  BY <1>1, <1>5

LEMMA ConsumerSteady ==
  ASSUME Steady, Inv, OrderlyInv, KeptInv, SteadyInv, ConsumerStep
  PROVE  SteadyInv'
<1>0. /\ ConsumerFrame /\ UNCHANGED <<submitPc, preStore>> /\ ~Fails
      /\ payload \in [Keys -> Requests \cup {None}] /\ pending \in [Users -> Seq(Requests)]
      /\ index \in [Projects -> SUBSET Users]
      /\ \A r \in Requests : submitPc'[r] = submitPc[r]
  <2>1. ConsumerFrame
    BY DEF ConsumerStep, TakeResult, ExecuteApproved, FindPendingChange, RemovePendingChange,
       RemoveFromIndex, FinishResult
  <2> QED
    BY <2>1, SteadyFacts DEF ConsumerFrame, Inv, TypeInv, TypeOK, RedisOK
<1>s. \A j \in Keys : Staging(j)' <=> Staging(j)
  BY <1>0 DEF Staging
<1>1. CASE TakeResult
  <2>1. /\ coQueue \in Seq(Verdict) /\ coQueue # << >> /\ UNCHANGED <<pending, index, batches, status>>
        /\ consumer.pc = "idle"
    BY <1>1 DEF Inv, TypeInv, TypeOK, QueuesOK, TakeResult, KeepStatus
  <2>m. PICK m \in Verdict : m = Head(coQueue) /\ m = coQueue[1] /\ 1 \in DOMAIN coQueue
    BY <2>1, Shifted
  <2>k. PICK k \in Keys : k = m.key
    BY DEF Verdict
  <2>2. payload[k] # None
    BY <2>m, <2>k DEF KeptInv, Staged, ResultKeys, KeysIn
  <2>3. m.approved = TRUE
    <3>1. Granted(m.key, m.approved, m.token)
      BY <2>m DEF Inv, ApprovalInv, SaysWhatWasGranted
    <3>2. m.approved \in BOOLEAN
      BY DEF Verdict
    <3> QED
      BY <3>1, <3>2 DEF Granted, OrderlyInv, NoRefusals
  <2>4. /\ consumer'.pc = "execute" /\ consumer'.key = k /\ consumer'.request = payload[k]
        /\ payload'[k] = None /\ \A j \in Keys : j # k => payload'[j] = payload[j]
    BY <1>0, <1>1, <2>m, <2>k, <2>2, <2>3 DEF TakeResult, AfterTake, Taken
  <2>5. \A r \in Requests : Waiting(r)' <=> Waiting(r)
    BY <1>0, <2>1, SameWaiting
  <2>6. Waiting(consumer.request)'
    <3>1. Waiting(payload[k]) /\ payload[k] \in Requests
      BY <2>2, HoldersAreRequests DEF SteadyInv, PlaceOK, Inv
    <3> QED
      BY <2>4, <2>5, <3>1 DEF Waiting, Executed
  <2>7. ASSUME NEW j \in Keys PROVE PlaceOK(j)'
    <3>1. payload'[j] # None => payload'[j] = payload[j]
      BY <2>4
    <3>2. payload'[j] # None => Waiting(payload[j])'
      BY <2>5, <3>1, HoldersAreRequests DEF SteadyInv, PlaceOK, Inv, Waiting, Executed
    <3>3. Staging(j)' => Waiting(preStore.request)'
      BY <1>0, <1>s, <2>5, HoldersAreRequests DEF SteadyInv, PlaceOK, Inv, Waiting, Executed
    <3> QED
      BY <2>4, <2>6, <3>2, <3>3 DEF PlaceOK, Waiting, Executed
  <2>8. \A r \in Requests : /\ Waiting(r) => Undecided(Key(r))' /\ IsIndexed(r)'
                            /\ submitPc'[r] = "indexed" => IsIndexed(r)'
    BY <1>0, <2>1 DEF SteadyInv, WaitingOK, IsIndexed, Undecided
  <2> QED
    BY <1>0, <2>5, <2>7, <2>8, SteadyStep
<1>k. ASSUME ~TakeResult
      PROVE  \E k \in Keys :
               /\ k = consumer.key /\ Consuming(k) /\ UnderWay(k) /\ k[1] \in Users /\ k[2] \in Projects
               /\ UNCHANGED payload
               /\ consumer'.pc = "idle" \/ (consumer'.pc # "execute" /\ consumer'.key = k)
  <2>1. consumer.pc # "idle" /\ UNCHANGED payload
    BY <1>k DEF ConsumerStep, ExecuteApproved, FindPendingChange, RemovePendingChange, RemoveFromIndex,
       FinishResult, redis
  <2>2. consumer'.pc = "idle" \/ (consumer'.pc # "execute" /\ consumer'.key = consumer.key)
    <3>0. consumer \in [pc : {"idle", "execute", "find", "remove", "unindex", "finish", "fail"},
                        key : Keys \cup {None}, approved : BOOLEAN, token : 0..MaxApprovals,
                        request : Requests \cup {None}, item : Requests \cup {None}]
      BY DEF Inv, TypeInv, TypeOK, WorkersOK
    <3>1. CASE ExecuteApproved
      BY <3>0, <3>1 DEF ExecuteApproved, ConsumerAt
    <3>2. CASE FindPendingChange
      BY <3>0, <3>2 DEF FindPendingChange, ConsumerAt, FailHere
    <3>3. CASE RemovePendingChange
      BY <3>0, <3>3 DEF RemovePendingChange, ConsumerAt, FailHere
    <3>4. CASE RemoveFromIndex
      BY <3>0, <3>4 DEF RemoveFromIndex, ConsumerAt, FailHere
    <3>5. CASE FinishResult
      BY <3>5 DEF FinishResult, IdleConsumer
    <3> QED
      BY <1>k, <3>1, <3>2, <3>3, <3>4, <3>5 DEF ConsumerStep
  <2> QED
    BY <2>1, <2>2, ConsumingFacts
<1>2. CASE ExecuteApproved
  <2>0. consumer.pc = "execute" /\ ~TakeResult /\ UNCHANGED <<pending, index, status>>
        /\ consumer'.pc # "idle"
    BY <1>2 DEF ExecuteApproved, TakeResult, redis, ConsumerAt, Inv, TypeInv, TypeOK, WorkersOK
  <2>k. PICK k \in Keys : /\ k = consumer.key /\ Consuming(k) /\ UnderWay(k) /\ payload' = payload
                          /\ consumer'.pc # "execute" /\ consumer'.key = k
    BY <1>k, <2>0
  <2>r. PICK r \in Requests : /\ r = consumer.request
                              /\ \A q : Executed(q)' <=> Executed(q) \/ q = r
    BY <1>2, BatchExecuted
  <2>1. Waiting(r) /\ Key(r) = k
    BY <2>0, <2>k, <2>r DEF SteadyInv, PlaceOK, Inv, ApprovalInv, OwnRequests
  <2>2. \A q \in Requests : Waiting(q)' <=> Waiting(q) /\ q # r
    BY <1>0, <2>0, <2>r DEF Waiting
  <2>3. \A q \in Requests : OwnerOf[q] = k[1] => ~Waiting(q)'
    BY <2>1, <2>2, KeyFacts DEF SteadyInv, WaitingOK
  <2>4. ASSUME NEW j \in Keys PROVE PlaceOK(j)'
    <3>0. PlaceOK(j) /\ OnceOK(k) /\ ReadyOK(k)
      BY DEF SteadyInv, OrderlyInv
    <3>1. payload[j] # None => payload[j] # r /\ payload[j] \in Requests
      <4>1. payload[k] # r
        BY <2>0, <2>k, <2>r, <3>0 DEF ReadyOK
      <4>2. payload[j] # None => Key(payload[j]) = j
        BY DEF Inv, ApprovalInv, OwnRequests
      <4> QED
        BY <2>1, <4>1, <4>2, HoldersAreRequests DEF Inv
    <3>2. Staging(j) => preStore.request # r /\ preStore.request \in Requests
      <4>1. ~Staging(k)
        BY <2>k, <3>0 DEF OnceOK, Unstaged, PreStoring, Staging
      <4>2. Staging(j) => Key(preStore.request) = j
        BY DEF Inv, ApprovalInv, OwnRequests, Staging
      <4> QED
        BY <2>1, <4>1, <4>2, HoldersAreRequests DEF Inv
    <3>3. payload'[j] # None => Waiting(payload[j])'
      BY <2>2, <2>k, <3>0, <3>1 DEF PlaceOK, Waiting, Executed
    <3>4. Staging(j)' => Waiting(preStore.request)'
      BY <1>0, <1>s, <2>2, <3>0, <3>2 DEF PlaceOK, Waiting, Executed
    <3>5. Consuming(j)' => j = k
      BY <2>k DEF Consuming
    <3> QED
      BY <2>3, <2>k, <3>3, <3>4, <3>5 DEF PlaceOK, Waiting, Executed
  <2>5. \A q \in Requests : /\ Waiting(q) => Undecided(Key(q))' /\ IsIndexed(q)'
                            /\ submitPc'[q] = "indexed" => IsIndexed(q)'
    BY <1>0, <2>0 DEF SteadyInv, WaitingOK, IsIndexed, Undecided
  <2> QED
    BY <1>0, <2>2, <2>4, <2>5, SteadyStep
\* The steps that follow the execution: no request of the user waits.
<1>3. CASE ~TakeResult /\ ~ExecuteApproved
  <2>0. consumer.pc \notin {"idle", "execute"} /\ batches' = batches
    BY <1>3 DEF ConsumerStep, FindPendingChange, RemovePendingChange, RemoveFromIndex, FinishResult
  <2>k. PICK k \in Keys : /\ k = consumer.key /\ Consuming(k) /\ UnderWay(k) /\ payload' = payload
                          /\ k[1] \in Users /\ k[2] \in Projects
                          /\ consumer'.pc = "idle" \/ (consumer'.pc # "execute" /\ consumer'.key = k)
    BY <1>k, <1>3
  <2>1. \A r \in Requests : OwnerOf[r] = k[1] => ~Waiting(r)
    BY <2>0, <2>k DEF SteadyInv, PlaceOK
  <2>2. \A r \in Requests : OwnerOf[r] = k[1] => submitPc[r] \notin InProgress
    BY <2>k DEF OrderlyInv, HeldOK
  <2>3. \A v \in Users : v # k[1] => pending'[v] = pending[v] /\ status'[v] = status[v]
    <3>1. \A v \in Users : v # k[1] => pending'[v] = pending[v]
      BY <1>0, <1>3, <2>k DEF ConsumerStep, FindPendingChange, RemovePendingChange, RemoveFromIndex,
         FinishResult, redis
    <3>2. status' = status \/ \E s \in States : SetUserProjectStatus(k[1], k[2], s)
      BY <1>3, <2>k DEF ConsumerStep, FindPendingChange, RemovePendingChange, RemoveFromIndex,
         FinishResult, redis, KeepStatus, States, Final
    <3> QED
      BY <2>k, <3>1, <3>2, StatusWritten DEF Inv
  <2>4. \A v \in Users, p \in Projects : v # k[1] => (v \in index'[p] <=> v \in index[p])
    BY <1>0, <1>3, <2>k DEF ConsumerStep, FindPendingChange, RemovePendingChange, RemoveFromIndex,
       FinishResult, redis
  <2>5. ASSUME NEW r \in Requests, OwnerOf[r] = k[1] PROVE ~Waiting(r)'
    <3>1. r \in ToSet(pending'[k[1]]) => r \in ToSet(pending[k[1]])
      <4>1. \/ pending'[k[1]] = pending[k[1]]
            \/ pending'[k[1]] = RemoveFirst(pending[k[1]], consumer.item)
        BY <1>0, <1>3, <2>k DEF ConsumerStep, FindPendingChange, RemovePendingChange, RemoveFromIndex,
           FinishResult, redis
      <4>s. PICK s \in Seq(Requests) : s = pending[k[1]]
        BY <1>0, <2>k
      <4>2. PICK E : E = {s[i] : i \in DOMAIN s}
        OBVIOUS
      <4>3. s \in Seq(E)
        <5>1. Len(s) \in Nat /\ s \in [1..Len(s) -> E]
          BY <4>2, LenProperties
        <5> QED
          BY <5>1, FunctionIsSeq
      <4>t. PICK t : t = RemoveFirst(s, consumer.item)
        OBVIOUS
      <4>4. \A i \in DOMAIN t : t[i] \in E
        <5>1. t \in Seq(E)
          BY <4>3, <4>t, RemoveFirstType
        <5> QED
          BY <5>1
      <4>5. r \in ToSet(t) => r \in ToSet(s)
        BY <4>2, <4>4 DEF ToSet
      <4> QED
        BY <4>1, <4>s, <4>t, <4>5
    <3>2. Executed(r)' <=> Executed(r)
      BY <2>0 DEF Executed
    <3> QED
      BY <1>0, <2>1, <2>5, <3>1, <3>2 DEF Waiting
  <2>6. ASSUME NEW r \in Requests, OwnerOf[r] # k[1] PROVE Waiting(r)' <=> Waiting(r)
    <3>1. pending'[OwnerOf[r]] = pending[OwnerOf[r]] /\ (Executed(r)' <=> Executed(r))
      BY <2>0, <2>3, <2>6, KeyFacts DEF Executed
    <3> QED
      BY <1>0, <3>1 DEF Waiting
  <2>7. \A r \in Requests : Waiting(r)' <=> Waiting(r)
    BY <2>1, <2>5, <2>6
  <2>8. ASSUME NEW j \in Keys PROVE PlaceOK(j)'
    <3>1. /\ Consuming(j)' => Consuming(j) /\ consumer'.pc # "execute" /\ consumer.pc # "execute"
      BY <2>0, <2>k DEF Consuming
    <3>2. Drops(j)
      BY <1>0, <1>s, <2>k, <3>1 DEF Drops
    <3>3. PlaceOK(j)
      BY DEF SteadyInv
    <3> QED
      BY <2>7, <3>1, <3>2, <3>3, PlaceStays
  <2>9. ASSUME NEW r \in Requests
        PROVE  /\ Waiting(r) => Undecided(Key(r))' /\ IsIndexed(r)'
               /\ submitPc'[r] = "indexed" => IsIndexed(r)'
    <3>1. WaitingOK(r) /\ OwnerOf[r] \in Users /\ ProjectOf[r] \in Projects /\ Key(r)[1] = OwnerOf[r]
      BY KeyFacts DEF SteadyInv
    <3>2. CASE OwnerOf[r] = k[1]
      BY <1>0, <2>1, <2>2, <3>2 DEF InProgress
    <3>3. CASE OwnerOf[r] # k[1]
      BY <1>0, <2>3, <2>4, <3>1, <3>3 DEF WaitingOK, IsIndexed, Undecided
    <3> QED
      BY <3>2, <3>3
  <2> QED
    BY <1>0, <2>7, <2>8, <2>9, SteadyStep
<1> QED
  BY <1>1, <1>2, <1>3

LEMMA RestartSteady ==
  ASSUME Inv, SteadyInv, Restart
  PROVE  SteadyInv'
<1>1. /\ UNCHANGED <<pending, status, index, payload, batches>>
      /\ preStore'.pc = "idle" /\ consumer'.pc = "idle"
      /\ submitPc' = [r \in Requests |->
                        IF submitPc[r] \in InProgress THEN "failed" ELSE submitPc[r]]
  BY DEF Restart, redis, IdlePreStore, IdleConsumer
<1>2. ASSUME NEW r \in Requests
      PROVE  /\ Waiting(r)' <=> Waiting(r)
             /\ submitPc'[r] \notin InProgress
  BY <1>1 DEF Waiting, Executed, InProgress
<1>3. \A k \in Keys : PlaceOK(k)'
  <2>1. \A k \in Keys : Drops(k) /\ ~Consuming(k)'
    BY <1>1 DEF Drops, Staging, Consuming
  <2> QED
    BY <1>2, <2>1, PlaceStays DEF SteadyInv
<1>4. \A r \in Requests : /\ Waiting(r) => Undecided(Key(r))' /\ IsIndexed(r)'
                          /\ submitPc'[r] # "indexed"
  BY <1>1, <1>2 DEF SteadyInv, WaitingOK, IsIndexed, Undecided, InProgress
<1> QED
  BY <1>2, <1>3, <1>4, SteadyStep

LEMMA NextSteady ==
  ASSUME Steady, SteadyState, [Next]_vars
  PROVE  SteadyInv'
<1>0. Inv /\ OrderlyInv /\ NoEvents /\ KeptInv /\ SteadyInv /\ Orderly
  BY SteadyFacts DEF SteadyState, OrderlyState
\* Steps that leave all this alone.
<1>q. ASSUME UNCHANGED <<pending, status, index, payload, batches, submitPc, preStore, consumer>>
      PROVE  SteadyInv'
  <2>1. \A k \in Keys : Drops(k) /\ (Consuming(k)' <=> Consuming(k))
    BY <1>q DEF Drops, Staging, Consuming
  <2> QED
    BY <1>0, <1>q, <2>1, SteadyQuiet
<1>1. CASE \E r \in Requests : CheckConflict(r)
  BY <1>0, <1>1, CheckConflictSteady
<1>2. CASE \E r \in Requests : SubmitStep(r)
  BY <1>0, <1>2, SubmitStepSteady, NotifySteady DEF SubmitStep
<1>3. CASE ListenerStep
  BY <1>0, <1>3 DEF ListenerStep, ReadEvent, OfferIfWaiting, NoEvents
<1>4. CASE PreStoreStep
  BY <1>0, <1>4, PreStoreSteady
<1>5. CASE \E k \in Keys : ApproveChange(k) \/ RefuseChange(k)
  BY <1>5, <1>q DEF ApproveChange, RefuseChange, SendVerdict, redis, workers
<1>6. CASE CoordinatorStep
  BY <1>0, <1>6, CoordinatorSteady
<1>7. CASE (\E k \in Keys : FindExpired(k)) \/ DeleteExpired
  BY <1>7, <1>q DEF FindExpired, DeleteExpired, CleanupFrame, redis, history
<1>8. CASE ConsumerStep
  BY <1>0, <1>8, ConsumerSteady
<1>9. CASE Restart
  BY <1>0, <1>9, RestartSteady
<1>10. CASE (\E u \in Users : ExpirePending(u)) \/ (\E k \in Keys : ExpirePayload(k))
  BY <1>10 DEF ExpirePending, ExpirePayload, Steady
<1>11. CASE UNCHANGED vars
  BY <1>11, <1>q DEF vars, redis, workers, history
<1> QED
  BY <1>1, <1>2, <1>3, <1>4, <1>5, <1>6, <1>7, <1>8, <1>9, <1>10, <1>11 DEF Next

\* The invariant of every steady behaviour: a request that waits keeps its
\* user's record open and its user in the project's index, and what is staged
\* or about to be executed waits, through every restart.
THEOREM SteadyPipeline == Steady => (Spec => []SteadyState)
<1> SUFFICES ASSUME Steady PROVE Spec => []SteadyState
  OBVIOUS
<1>0. Orderly /\ "ttl" \notin World
  BY SteadyFacts
<1>1. Spec => []OrderlyState
  BY <1>0, OrderlyPipeline
<1>2. Init => KeptInv /\ SteadyInv
  <2> SUFFICES ASSUME Init PROVE KeptInv /\ SteadyInv
    OBVIOUS
  <2>1. KeptInv
    BY DEF Init, KeptInv, Staged, IdlePreStore, IdleCoordinator, Staging, Publishing, Pairing, Paired,
       ReportedKeys, ResultKeys, KeysIn
  <2>2. \A r \in Requests : submitPc[r] = "new"
    BY DEF Init
  <2>3. \A k \in Keys : payload[k] = None /\ ~Staging(k) /\ ~Consuming(k)
    BY DEF Init, IdlePreStore, IdleConsumer, Staging, Consuming
  <2> QED
    BY <2>1, <2>2, <2>3 DEF SteadyInv, WaitingOK, PlaceOK, Waiting
<1>3. SteadyState /\ [Next]_vars => KeptInv' /\ SteadyInv'
  BY <1>0, NextKept, NextSteady DEF SteadyState
<1>4. SteadyState <=> OrderlyState /\ KeptInv /\ SteadyInv
  BY DEF SteadyState
<1> QED
  BY <1>1, <1>2, <1>3, <1>4, PTL DEF Spec

\* A completed pair has left no payload and no waiting request behind, however
\* often the server restarts.
THEOREM SteadyCompletedIsClean == Steady => (Spec => []CompletedIsClean)
<1> SUFFICES ASSUME Steady PROVE Spec => []CompletedIsClean
  OBVIOUS
<1>1. Spec => []SteadyState
  BY SteadyPipeline
<1>2. ASSUME SteadyState PROVE CompletedIsClean
  <2> SUFFICES ASSUME NEW u \in Users, status[u] # None, status[u].state = "completed"
               PROVE  /\ payload[<<u, status[u].project>>] = None
                      /\ \A r \in Requests : Key(r) = <<u, status[u].project>> => ~Waiting(r)
    BY DEF CompletedIsClean
  <2>0. Inv /\ SteadyInv
    BY <1>2 DEF SteadyState, OrderlyState
  <2>k. PICK k \in Keys : k = <<u, status[u].project>>
    BY <2>0 DEF Inv, TypeInv, TypeOK, RedisOK, StatusRecord, Keys
  <2>1. ~Undecided(k)
    BY <2>k DEF Undecided, Final
  <2>2. \A r \in Requests : Key(r) = k => ~Waiting(r)
    BY <2>0, <2>1 DEF SteadyInv, WaitingOK
  <2>3. payload[k] # None => payload[k] \in Requests /\ Key(payload[k]) = k /\ Waiting(payload[k])
    BY <2>0, HoldersAreRequests DEF SteadyInv, PlaceOK, Inv, ApprovalInv, OwnRequests
  <2> QED
    BY <2>k, <2>2, <2>3
<1> QED
  BY <1>1, <1>2, PTL

-----------------------------------------------------------------------------
(* When the submissions take turns, no two requests in conflict wait.  The *)
(* relation of conflicts is symmetric (ConflictCheckProofs, Symmetric).    *)
(* The invariant looks ahead: no request that passed its check conflicts   *)
(* with one that waits.                                                    *)

InTurns == /\ "serialSubmit" \in Discipline
           /\ \A r, q : <<r, q>> \in Conflicts => <<q, r>> \in Conflicts

Rivals(r, q) == /\ <<r, q>> \in Conflicts
                /\ OwnerOf[r] # OwnerOf[q] /\ ProjectOf[r] = ProjectOf[q]
OneSubmits == \A r, q \in Requests :
  submitPc[r] \in InProgress /\ submitPc[q] \in InProgress => r = q
NoRivals == \A r, q \in Requests :
  Rivals(r, q) /\ Waiting(q) => submitPc[r] \notin InProgress /\ ~Waiting(r)

LEMMA NextTurns ==
  ASSUME Steady, InTurns, SteadyState, OneSubmits, NoRivals, [Next]_vars
  PROVE  OneSubmits' /\ NoRivals'
<1> USE DEF OneSubmits, NoRivals
<1>0. /\ Inv /\ NoEvents /\ SteadyInv /\ ~Fails /\ "ttl" \notin World
      /\ submitPc \in [Requests -> SubmitStates]
  BY SteadyFacts DEF SteadyState, OrderlyState, Inv, TypeInv, TypeOK, WorkersOK
<1>1. CASE \E r \in Requests : CheckConflict(r)
  <2>1. PICK r \in Requests : CheckConflict(r)
    BY <1>1
  <2>2. /\ submitPc[r] = "new" /\ UNCHANGED <<pending, batches>>
        /\ \A q \in Requests : submitPc[q] \notin InProgress
    BY <2>1 DEF CheckConflict, MaySubmit, InTurns, redis, history
  <2>3. /\ \A q \in Requests : q # r => submitPc'[q] = submitPc[q]
        /\ submitPc'[r] \in {"checked", "conflict"}
        /\ submitPc'[r] = "checked" => \A q \in OthersPending(r) : <<r, q>> \notin Conflicts
    BY <1>0, <2>1 DEF CheckConflict, SubmitTo
  <2>4. \A q \in Requests : Waiting(q)' => Waiting(q)
    BY <2>2, <2>3 DEF Waiting, Executed
  <2>5. ASSUME NEW q \in Requests, Rivals(r, q), Waiting(q) PROVE submitPc'[r] \notin InProgress
    <3>1. q \in OthersPending(r)
      BY <1>0, <2>5 DEF SteadyInv, WaitingOK, IsIndexed, IndexedRequests, OthersPending, Waiting, Rivals
    <3> QED
      BY <2>3, <2>5, <3>1 DEF Rivals, InProgress
  <2> QED
    BY <2>2, <2>3, <2>4, <2>5
<1>2. CASE \E r \in Requests : SubmitStep(r)
  <2>1. PICK r \in Requests : SubmitStep(r)
    BY <1>2
  <2>2. /\ submitPc[r] \in InProgress /\ batches' = batches
        /\ \A q \in Requests : q # r => submitPc'[q] = submitPc[q]
    BY <1>0, <2>1 DEF SubmitStep, PushRequest, SetWaiting, AddToIndex, NotifyPendingUpdate, SubmitTo,
       InProgress, history
  <2>3. \A u \in Users : \A q \in Requests : q # r /\ q \in ToSet(pending'[u]) => q \in ToSet(pending[u])
    <3>1. CASE PushRequest(r)
      <4>1. /\ pending \in [Users -> Seq(Requests)] /\ OwnerOf[r] \in Users
            /\ pending' = [pending EXCEPT ![OwnerOf[r]] = <<r>> \o @]
        BY <1>0, <3>1, KeyFacts DEF PushRequest, PushFirst, Inv, TypeInv, TypeOK, RedisOK
      <4>2. ASSUME NEW s \in Seq(Requests), NEW q \in Requests, q # r, q \in ToSet(<<r>> \o s)
            PROVE  q \in ToSet(s)
        <5> DEFINE t == <<r>> \o s
        <5>1. /\ <<r>> \in Seq(Requests) /\ Len(<<r>>) = 1 /\ <<r>>[1] = r
          OBVIOUS
        <5>2. /\ t \in Seq(Requests) /\ Len(t) = 1 + Len(s) /\ Len(s) \in Nat
              /\ DOMAIN s = 1..Len(s) /\ DOMAIN t = 1..Len(t)
              /\ \A i \in 1..Len(t) : t[i] = IF i <= 1 THEN <<r>>[i] ELSE s[i - 1]
          BY <5>1, ConcatProperties, LenProperties
        <5> HIDE DEF t
        <5>3. PICK i \in DOMAIN t : t[i] = q
          BY <4>2 DEF ToSet, t
        <5>4. i - 1 \in DOMAIN s /\ s[i - 1] = q
          BY <4>2, <5>1, <5>2, <5>3
        <5> QED
          BY <5>4 DEF ToSet
      <4> QED
        BY <4>1, <4>2
    <3>2. CASE SetWaiting(r) \/ AddToIndex(r) \/ NotifyPendingUpdate(r)
      BY <3>2 DEF SetWaiting, AddToIndex, NotifyPendingUpdate, redis
    <3> QED
      BY <2>1, <3>1, <3>2 DEF SubmitStep
  <2>4. \A q \in Requests : q # r /\ Waiting(q)' => Waiting(q)
    BY <2>2, <2>3, KeyFacts DEF Waiting, Executed
  <2>5. \A q \in Requests : submitPc'[q] \in InProgress => submitPc[q] \in InProgress
    BY <2>2
  <2>6. \A q \in Requests : Rivals(r, q) \/ Rivals(q, r) => q # r /\ ~Waiting(q) /\ submitPc[q] \notin InProgress
    BY <2>2 DEF Rivals, InTurns
  <2> QED
    BY <2>2, <2>4, <2>5, <2>6
<1>3. CASE ~\E r \in Requests : CheckConflict(r) \/ SubmitStep(r)
  <2>1. /\ submitPc' = submitPc \/ Restart
        /\ \A q \in Requests : Executed(q) => Executed(q)'
        /\ \A q \in Requests : q \in ToSet(pending'[OwnerOf[q]]) => q \in ToSet(pending[OwnerOf[q]])
    BY <1>0, <1>3, KeyFacts, OtherSteps
  <2>2. \A q \in Requests : /\ submitPc'[q] \in InProgress => submitPc[q] \in InProgress
                            /\ submitPc'[q] = "submitted" => submitPc[q] = "submitted"
    BY <2>1 DEF Restart, InProgress
  <2>3. \A q \in Requests : Waiting(q)' => Waiting(q)
    BY <2>1, <2>2 DEF Waiting
  <2> QED
    BY <2>2, <2>3, <2>1 DEF Restart, InProgress
<1> QED
  BY <1>1, <1>2, <1>3

\* Two requests in conflict are never both submitted and waiting for their
\* execution: CheckConflict sees every waiting request of the other members,
\* because its owner stays in the project's index until it is executed.
THEOREM SteadyNoConflictingPair == Steady /\ InTurns => (Spec => []NoConflictingPairWaits)
<1> SUFFICES ASSUME Steady, InTurns PROVE Spec => []NoConflictingPairWaits
  OBVIOUS
<1>1. Spec => []SteadyState
  BY SteadyPipeline
<1>2. Init => OneSubmits /\ NoRivals
  BY DEF Init, OneSubmits, NoRivals, InProgress, Waiting
<1>3. SteadyState /\ OneSubmits /\ NoRivals /\ [Next]_vars => OneSubmits' /\ NoRivals'
  BY NextTurns
<1>4. NoRivals => NoConflictingPairWaits
  BY DEF NoRivals, Rivals, NoConflictingPairWaits
<1> QED
  BY <1>1, <1>2, <1>3, <1>4, PTL DEF Spec
=============================================================================
