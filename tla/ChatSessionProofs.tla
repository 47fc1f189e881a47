-------------------------- MODULE ChatSessionProofs --------------------------
(* Proofs about ChatSession, for every value of its constants.             *)
EXTENDS ChatSession, SequenceTheorems, TLAPS

-----------------------------------------------------------------------------
(* The inductive invariant.  First the shape of each request and helper.   *)

Messages == [of : Requests, isUser : BOOLEAN]
Memories == [all : SUBSET Messages, last : Messages \cup {None}]
Helpers == [messages : Memories, saveFunc : Requests \cup {None}]
Adding == {"load", "append", "save"}
Progress == [stage : Adding \cup {"new", "end", "insertSession", "readHistory", "getHelper",
                                  "setFuncs", "ask", "asked", "reply"},
             session : Sessions \cup {None}, todo : Seq(Messages),
             next : {"none", "setFuncs", "ask", "reply"}, seen : Memories]

\* The history is still being added, or the save callback is the request's own.
Earlier(q) == q.next \in {"none", "setFuncs"}
Past(q) == q.next \in {"ask", "reply"}

Doing(r, q) ==
  \/ q.stage \in {"insertSession", "readHistory"} /\ q.next = "none" /\ q.todo = <<>>
  \/ q.stage = "getHelper" /\ q.next = "none"
  \/ q.stage \in Adding /\ q.next = "setFuncs" /\ q.todo # <<>>
  \/ q.stage = "setFuncs" /\ q.next = "setFuncs" /\ q.todo = <<>>
  \/ q.stage \in Adding /\ q.next = "ask" /\ q.todo = <<Question(r)>>
  \/ q.stage \in {"ask", "asked"} /\ q.next = "ask" /\ q.todo = <<>>
  \/ q.stage \in Adding /\ q.next = "reply" /\ q.todo = <<Answer(r)>>
  \/ q.stage = "reply" /\ q.next = "reply" /\ q.todo = <<>>

RequestOK(r) ==
  \/ req[r] = NotStarted /\ r \notin gone
  \/ req[r] = Ended /\ r \in gone
  \/ req[r].session \in Sessions /\ Doing(r, req[r])

\* Nobody sets the callback of a helper but the requests on its session.
HelperOK(s) ==
  /\ helpers[s] \in Helpers
  /\ LET f == helpers[s].saveFunc
     IN  f \in Requests => f \in gone \/ (f \in ActiveOn(s) /\ Past(req[f]))

TypesOK ==
  /\ opened \subseteq Sessions /\ stored \in [Sessions -> Seq(Messages)]
  /\ req \in [Requests -> Progress] /\ gone \subseteq Requests
  /\ helpers \in [Sessions -> Helpers \cup {None}]
  /\ faults \in Nat /\ restarts \in Nat

ShapesOK ==
  /\ \A r \in Requests : RequestOK(r)
  /\ \A s \in Sessions : helpers[s] = None \/ HelperOK(s)
  /\ \A r \in Requests :
       Active(r) /\ req[r].stage \notin {"insertSession", "readHistory", "getHelper"} => HelperOK(req[r].session)

\* A session without a row is empty, and the one request on it is to insert the row.
SessionsOK ==
  /\ \A s \in Sessions \ opened : stored[s] = <<>> /\ helpers[s] = None
  /\ \A s \in Sessions \ opened : \A r, x \in ActiveOn(s) : r = x
  /\ \A r \in Requests : Active(r) =>
       (req[r].stage = "insertSession" <=> req[r].session \notin opened)

OverlapsAreKnown ==
  \A s \in Sessions : \A r, x \in ActiveOn(s) : r # x => <<r, s>> \in crossed

-----------------------------------------------------------------------------
(* What is in the history has been saved by the request it is of.          *)

Saved(m) ==
  LET q == req[m.of]
  IN  \/ q.stage = "end"
      \/ m.isUser /\ (q.stage \in {"ask", "asked"} \/ q.next = "reply")
      \/ ~m.isUser /\ q.stage = "reply"

OriginsOK ==
  /\ \A s \in Sessions : \A i \in DOMAIN stored[s] : Saved(stored[s][i])
  /\ \A r \in Requests : Earlier(req[r]) => \A i \in DOMAIN req[r].todo : Saved(req[r].todo[i])

-----------------------------------------------------------------------------
(* A request that overlaps with no other: its question and answer are      *)
(* stored in turn, and the helper misses nothing but what is to be added.  *)

Alone(r) == Active(r) /\ <<r, req[r].session>> \notin crossed

Asked(q, list) == list # <<>> /\ list[Len(list)] = Question(q)
Concluded(r, list) == Len(list) > 1 /\ list[Len(list) - 1] = Question(r) /\ list[Len(list)] = Answer(r)
Exchange(r, list) ==
  \E i \in 1..Len(list) : i + 1 \in 1..Len(list) /\ list[i] = Question(r) /\ list[i + 1] = Answer(r)

TurnOK(r) ==
  LET q == req[r]
      list == stored[q.session]
  IN  /\ r \notin gone /\ (Past(q) => Helper(r).saveFunc = r)
      /\ q.stage \in {"ask", "asked"} \/ (q.next = "reply" /\ q.stage \in Adding) => Asked(r, list)
      /\ q.stage = "reply" => Concluded(r, list)

TurnsOK ==
  /\ \A r \in Requests \ unsaved : Alone(r) => TurnOK(r)
  /\ \A r \in Requests \ unsaved, s \in Sessions :
       <<r, s>> \in answered \ crossed => Exchange(r, stored[s])

MemoryOK(r) ==
  LET q == req[r]
      list == ToSet(stored[q.session])
      memory == Helper(r).messages
  IN  /\ q.stage = "getHelper" => list \subseteq ToSet(q.todo)
      /\ q.stage \in Adding /\ q.next = "setFuncs" => list \subseteq memory.all \cup ToSet(q.todo)
      /\ q.stage \in {"setFuncs", "ask"} \/ (q.next = "ask" /\ q.stage \in Adding) => list \subseteq memory.all
      /\ q.stage = "append" => q.seen = memory
      /\ q.stage = "save" => Head(q.todo) \in memory.all /\ memory.last = Head(q.todo)
      /\ q.stage = "ask" => memory.last = Question(r)
      /\ q.stage = "asked" => q.seen.last = Question(r) /\ list \subseteq q.seen.all

MemoriesOK == \A r \in Requests : Alone(r) => MemoryOK(r)

\* The history that a request adds again is of its own session.
HistoriesOK ==
  \A r \in Requests :
    Active(r) /\ Earlier(req[r]) => ToSet(req[r].todo) \subseteq ToSet(stored[req[r].session])

IInv ==
  /\ TypesOK /\ ShapesOK /\ SessionsOK /\ OverlapsAreKnown /\ OriginsOK
  /\ StoredOnce /\ TurnsOK /\ MemoriesOK /\ HistoriesOK

-----------------------------------------------------------------------------
(* Types.                                                                  *)

LEMMA Singles ==
  ASSUME NEW m
  PROVE  <<m>> # <<>> /\ Len(<<m>>) = 1 /\ Head(<<m>>) = m /\ Tail(<<m>>) = <<>>
OBVIOUS

LEMMA Tails ==
  ASSUME NEW S, NEW list \in Seq(S), list # <<>>
  PROVE  /\ Len(list) = 1 => Tail(list) = <<>>
         /\ Len(list) # 1 => Tail(list) # <<>>
<1>1. Len(list) \in Nat /\ Len(list) # 0
  OBVIOUS
<1>2. Tail(list) \in Seq(S) /\ Len(Tail(list)) = Len(list) - 1
  OBVIOUS
<1>3. (Tail(list) = <<>>) <=> (Len(Tail(list)) = 0)
  BY <1>2, EmptySeq
<1> QED
  BY <1>1, <1>2, <1>3

LEMMA ShapeFacts ==
  ASSUME TypesOK, ShapesOK, NEW r \in Requests
  PROVE  /\ req[r] \in Progress
         /\ Active(r) => req[r].session \in Sessions /\ Doing(r, req[r])
         /\ ~Active(r) => req[r] = NotStarted \/ req[r] = Ended
         /\ r \in gone /\ ~Active(r) => req[r] = Ended
         /\ req[r].stage \in Adding => req[r].todo # <<>> /\ Head(req[r].todo) \in Messages
         /\ req[r].stage \in Adding \cup {"setFuncs", "ask", "asked", "reply"} => HelperOK(req[r].session)
<1>1. RequestOK(r) /\ req[r] \in Progress
  BY DEF TypesOK, ShapesOK
<1>2. NotStarted.stage = "new" /\ Ended.stage = "end"
  BY DEF NotStarted, Ended
<1>3. Active(r) => req[r].session \in Sessions /\ Doing(r, req[r])
  BY <1>1, <1>2 DEF RequestOK, Active
<1>4. ~Active(r) => req[r] = NotStarted \/ req[r] = Ended
  BY <1>1 DEF RequestOK, Active, Doing, Adding
<1>5. r \in gone /\ ~Active(r) => req[r] = Ended
  BY <1>1 DEF RequestOK, Active, Doing, Adding
<1>6. req[r].stage \in Adding => req[r].todo # <<>>
  BY <1>3, Singles DEF Doing, Active, Adding
<1>7. req[r].stage \in Adding => Head(req[r].todo) \in Messages
  BY <1>1, <1>6 DEF Progress
<1>8. req[r].stage \in Adding \cup {"setFuncs", "ask", "asked", "reply"} => HelperOK(req[r].session)
  BY DEF ShapesOK, Active, Adding
<1> QED
  BY <1>1, <1>3, <1>4, <1>5, <1>6, <1>7, <1>8

LEMMA RecordTypes ==
  /\ NotStarted \in Progress /\ Ended \in Progress /\ Nothing \in Memories /\ NewHelper \in Helpers
  /\ \A r \in Requests : Question(r) \in Messages /\ Answer(r) \in Messages
  /\ \A m \in Messages : <<m>> \in Seq(Messages)
  /\ NotStarted.stage = "new" /\ NotStarted.next = "none" /\ NotStarted.todo = <<>>
  /\ Ended.stage = "end" /\ Ended.next = "none" /\ Ended.todo = <<>>
<1>1. Nothing \in Memories
  BY DEF Nothing, Memories
<1>2. NotStarted \in Progress
  BY <1>1 DEF NotStarted, Progress
<1>3. Ended \in Progress
  BY <1>2 DEF Ended, Progress
<1>4. NewHelper \in Helpers
  BY <1>1 DEF NewHelper, Helpers
<1>5. NotStarted.stage = "new" /\ NotStarted.next = "none" /\ NotStarted.todo = <<>>
  BY DEF NotStarted
<1>6. Ended.stage = "end" /\ Ended.next = "none" /\ Ended.todo = <<>>
  BY DEF NotStarted, Ended
<1> QED
  BY <1>1, <1>2, <1>3, <1>4, <1>5, <1>6 DEF Question, Answer, Messages

LEMMA NextTypes ==
  ASSUME TypesOK, ShapesOK, Next
  PROVE  TypesOK'
<1> USE DEF TypesOK
<1>1. ASSUME NEW r \in Requests, CreateChat(r) \/ ContinueChat(r)
      PROVE  TypesOK'
  <2>1. PICK s \in Sessions, stage \in {"insertSession", "readHistory"} : Start(r, s, stage)
    BY <1>1 DEF CreateChat, ContinueChat
  <2>2. [NotStarted EXCEPT !.stage = stage, !.session = s] \in Progress
    BY RecordTypes DEF Progress, NotStarted
  <2> QED
    BY <2>1, <2>2 DEF Start
<1>2. ASSUME NEW r \in Requests, Disconnect(r) PROVE TypesOK'
  BY <1>2 DEF Disconnect
<1>3. ASSUME NEW r \in Requests, FailingCall(r) \/ ModelFails(r) \/ Reply(r) PROVE TypesOK'
  BY <1>3, RecordTypes DEF FailingCall, ModelFails, Reply, End
<1>4. ASSUME NEW r \in Requests, InsertSession(r) PROVE TypesOK'
  <2>1. req[r].session \in Sessions /\ req[r] \in Progress
    BY <1>4, ShapeFacts DEF InsertSession, Active
  <2>2. [req[r] EXCEPT !.stage = "getHelper"] \in Progress
    BY <2>1 DEF Progress
  <2> QED
    BY <1>4, <2>1, <2>2 DEF InsertSession, Goto
<1>5. ASSUME NEW r \in Requests, ReadHistory(r) PROVE TypesOK'
  <2>1. req[r].session \in Sessions /\ req[r] \in Progress
    BY <1>5, ShapeFacts DEF ReadHistory, Active
  <2>2. [req[r] EXCEPT !.todo = stored[req[r].session], !.stage = "getHelper"] \in Progress
    BY <2>1 DEF Progress
  <2> QED
    BY <1>5, <2>1, <2>2 DEF ReadHistory, History
<1>6. ASSUME NEW r \in Requests, GetOrCreateAIHelper(r) PROVE TypesOK'
  <2> DEFINE stage == IF req[r].todo = <<>> THEN "setFuncs" ELSE "load"
  <2>1. req[r].session \in Sessions /\ req[r] \in Progress
    BY <1>6, ShapeFacts DEF GetOrCreateAIHelper, Active
  <2>2. [req[r] EXCEPT !.stage = stage, !.next = "setFuncs"] \in Progress
    BY <2>1 DEF Progress, Adding
  <2>3. helpers' \in [Sessions -> Helpers \cup {None}]
    BY <1>6, RecordTypes DEF GetOrCreateAIHelper
  <2> QED
    BY <1>6, <2>1, <2>2, <2>3 DEF GetOrCreateAIHelper
<1>7. ASSUME NEW r \in Requests, SetFuncs(r) PROVE TypesOK'
  <2>1. req[r].session \in Sessions /\ req[r] \in Progress /\ HelperOK(req[r].session)
    BY <1>7, ShapeFacts DEF SetFuncs, Active
  <2>2. [req[r] EXCEPT !.todo = <<Question(r)>>, !.next = "ask", !.stage = "load"] \in Progress
    BY <2>1, RecordTypes DEF Progress, Adding
  <2>3. [Helper(r) EXCEPT !.saveFunc = r] \in Helpers
    BY <2>1 DEF Helper, Helpers, HelperOK
  <2>4. helpers' = [helpers EXCEPT ![req[r].session] = [Helper(r) EXCEPT !.saveFunc = r]]
    BY <1>7 DEF SetFuncs, SaveFunc, Helper
  <2> QED
    BY <1>7, <2>1, <2>2, <2>3, <2>4 DEF SetFuncs
<1>8. ASSUME NEW r \in Requests, LoadMessages(r) \/ GenerateResponse(r) PROVE TypesOK'
  <2>1. req[r].session \in Sessions /\ req[r] \in Progress /\ HelperOK(req[r].session)
    BY <1>8, ShapeFacts DEF LoadMessages, GenerateResponse, Active, Adding
  <2>2. \A stage \in {"append", "asked"} :
          [req[r] EXCEPT !.seen = Helper(r).messages, !.stage = stage] \in Progress
    BY <2>1 DEF Progress, Helper, Adding, Helpers, HelperOK
  <2>3. CASE LoadMessages(r)
    BY <2>3, <2>2 DEF LoadMessages
  <2>4. CASE GenerateResponse(r)
    BY <2>4, <2>2 DEF GenerateResponse
  <2> QED
    BY <1>8, <2>3, <2>4
<1>9. ASSUME NEW r \in Requests, AppendMessage(r) PROVE TypesOK'
  <2> DEFINE m == Head(req[r].todo)
             memory == [all |-> req[r].seen.all \cup {m}, last |-> m]
  <2>1. req[r].session \in Sessions /\ req[r] \in Progress /\ HelperOK(req[r].session) /\ m \in Messages
    BY <1>9, ShapeFacts DEF AppendMessage, Active, Adding
  <2>2. [req[r] EXCEPT !.seen = Nothing, !.stage = "save"] \in Progress
    BY <2>1, RecordTypes DEF Progress, Adding
  <2>3. memory \in Memories
    BY <2>1 DEF Memories, Progress
  <2>4. [Helper(r) EXCEPT !.messages = memory] \in Helpers
    BY <2>1, <2>3 DEF Helper, Helpers, HelperOK
  <2>5. helpers' = [helpers EXCEPT ![req[r].session] = [Helper(r) EXCEPT !.messages = memory]]
    BY <1>9 DEF AppendMessage, Helper
  <2> HIDE DEF memory
  <2> QED
    BY <1>9, <2>1, <2>2, <2>4, <2>5 DEF AppendMessage
<1>10. ASSUME NEW r \in Requests, CallSaveFunc(r) PROVE TypesOK'
  <2> DEFINE stage == IF Len(req[r].todo) = 1 THEN req[r].next ELSE "load"
  <2>1. /\ req[r].session \in Sessions /\ req[r] \in Progress
        /\ req[r].todo # <<>> /\ Head(req[r].todo) \in Messages /\ Doing(r, req[r])
    BY <1>10, ShapeFacts DEF CallSaveFunc, Active, Adding
  <2>2. req[r].next \in {"setFuncs", "ask", "reply"}
    BY <1>10, <2>1 DEF CallSaveFunc, Doing, Adding
  <2>3. Tail(req[r].todo) \in Seq(Messages)
    BY <2>1 DEF Progress
  <2>4. [req[r] EXCEPT !.todo = Tail(@), !.stage = stage] \in Progress
    BY <2>1, <2>2, <2>3 DEF Progress, Adding
  <2> DEFINE list == Append(stored[req[r].session], Head(req[r].todo))
  <2>5. list \in Seq(Messages)
    BY <2>1
  <2>6. /\ stored' = [stored EXCEPT ![req[r].session] = list] \/ stored' = stored
        /\ faults' = faults \/ faults' = faults + 1
    BY <1>10 DEF CallSaveFunc
  <2> HIDE DEF list
  <2>7. req' \in [Requests -> Progress]
    BY <1>10, <2>4 DEF CallSaveFunc
  <2>8. stored' \in [Sessions -> Seq(Messages)]
    BY <2>5, <2>6
  <2>9. faults' \in Nat
    BY <2>6
  <2> QED
    BY <1>10, <2>7, <2>8, <2>9 DEF CallSaveFunc
<1>11. ASSUME NEW r \in Requests, ReceiveAnswer(r) PROVE TypesOK'
  <2>1. req[r] \in Progress
    OBVIOUS
  <2>2. [req[r] EXCEPT !.todo = <<Answer(r)>>, !.next = "reply", !.seen = Nothing, !.stage = "load"] \in Progress
    BY <2>1, RecordTypes DEF Progress, Adding
  <2> QED
    BY <1>11, <2>2 DEF ReceiveAnswer
<1>12. CASE Restart
  BY <1>12, RecordTypes DEF Restart
<1> QED
  BY <1>1, <1>2, <1>3, <1>4, <1>5, <1>6, <1>7, <1>8, <1>9, <1>10, <1>11, <1>12 DEF Next

-----------------------------------------------------------------------------
(* What a step of one request leaves alone.                                *)

Begins(r) ==
  /\ req[r] = NotStarted /\ Active(r)' /\ req'[r].next = "none" /\ req'[r].todo = <<>>
  /\ \E s \in Sessions : req'[r].session = s
  /\ UNCHANGED <<opened, stored, helpers, gone, answered, unsaved>>
Ends(r) ==
  /\ Active(r) /\ req'[r] = Ended /\ gone' = gone \cup {r}
  /\ answered' \subseteq answered \cup {<<r, req[r].session>>}
  /\ UNCHANGED <<opened, stored, helpers, crossed, unsaved>>
GoesOn(r) ==
  /\ Active(r) /\ Active(r)' /\ req'[r].session = req[r].session /\ (Past(req[r]) => Past(req'[r]))
  /\ UNCHANGED <<crossed, answered>>

Moves(r) ==
  /\ \A x \in Requests \ {r} : req'[x] = req[x] /\ (x \in gone' <=> x \in gone)
  /\ \A s \in Sessions \ {req[r].session} : stored'[s] = stored[s] /\ helpers'[s] = helpers[s]
  /\ crossed \subseteq crossed' /\ unsaved \subseteq unsaved' /\ gone \subseteq gone'
  /\ Begins(r) \/ Ends(r) \/ GoesOn(r)

Step(r) ==
  \/ CreateChat(r) \/ ContinueChat(r) \/ Disconnect(r) \/ FailingCall(r)
  \/ InsertSession(r) \/ ReadHistory(r) \/ GetOrCreateAIHelper(r) \/ SetFuncs(r)
  \/ LoadMessages(r) \/ AppendMessage(r) \/ CallSaveFunc(r)
  \/ GenerateResponse(r) \/ ReceiveAnswer(r) \/ ModelFails(r) \/ Reply(r)

LEMMA StartMoves ==
  ASSUME TypesOK, NEW r \in Requests, NEW s \in Sessions, NEW stage \in {"insertSession", "readHistory"},
         Start(r, s, stage)
  PROVE  /\ Moves(r) /\ Begins(r)
         /\ req'[r].stage = stage /\ req'[r].session = s
<1>1. req' = [req EXCEPT ![r] = [NotStarted EXCEPT !.stage = stage, !.session = s]]
  BY DEF Start
<1>2. /\ req'[r].stage = stage /\ req'[r].session = s /\ req'[r].next = "none" /\ req'[r].todo = <<>>
      /\ \A x \in Requests \ {r} : req'[x] = req[x]
  BY <1>1 DEF NotStarted, TypesOK
<1>3. Begins(r)
  BY <1>2 DEF Start, Begins, Active
<1> QED
  BY <1>2, <1>3 DEF Start, Moves

LEMMA EndMoves ==
  ASSUME TypesOK, NEW r \in Requests, FailingCall(r) \/ ModelFails(r) \/ Reply(r)
  PROVE  Moves(r) /\ Ends(r)
<1>1. Active(r) /\ End(r)
  BY DEF FailingCall, ModelFails, Reply, Active
<1>2. req'[r] = Ended /\ \A x \in Requests \ {r} : req'[x] = req[x]
  BY <1>1 DEF End, TypesOK
<1>3. Ends(r)
  BY <1>1, <1>2 DEF Ends, FailingCall, ModelFails, Reply, End
<1> QED
  BY <1>1, <1>2, <1>3 DEF Moves, End, Ends, FailingCall, ModelFails, Reply

\* The record of a request after each of its steps.
Becomes(r, stage, todo, next, seen) ==
  /\ req'[r].session = req[r].session /\ req'[r].stage = stage
  /\ req'[r].todo = todo /\ req'[r].next = next /\ req'[r].seen = seen

LEMMA Records ==
  ASSUME TypesOK, NEW r \in Requests
  PROVE  LET q == req[r]
         IN  /\ InsertSession(r) => Becomes(r, "getHelper", q.todo, q.next, q.seen)
             /\ ReadHistory(r) => Becomes(r, "getHelper", stored[q.session], q.next, q.seen)
             /\ GetOrCreateAIHelper(r) =>
                  Becomes(r, IF q.todo = <<>> THEN "setFuncs" ELSE "load", q.todo, "setFuncs", q.seen)
             /\ SetFuncs(r) => Becomes(r, "load", <<Question(r)>>, "ask", q.seen)
             /\ LoadMessages(r) => Becomes(r, "append", q.todo, q.next, Helper(r).messages)
             /\ AppendMessage(r) => Becomes(r, "save", q.todo, q.next, Nothing)
             /\ CallSaveFunc(r) =>
                  Becomes(r, IF Len(q.todo) = 1 THEN q.next ELSE "load", Tail(q.todo), q.next, q.seen)
             /\ GenerateResponse(r) => Becomes(r, "asked", q.todo, q.next, Helper(r).messages)
             /\ ReceiveAnswer(r) => Becomes(r, "load", <<Answer(r)>>, "reply", Nothing)
             /\ Disconnect(r) => Becomes(r, q.stage, q.todo, q.next, q.seen)
<1> DEFINE q == req[r]
<1>1. q \in Progress /\ req \in [Requests -> Progress]
  BY DEF TypesOK
<1>2. InsertSession(r) => Becomes(r, "getHelper", q.todo, q.next, q.seen)
  BY <1>1 DEF InsertSession, Goto, Becomes, Progress
<1>3. ReadHistory(r) => Becomes(r, "getHelper", stored[q.session], q.next, q.seen)
  BY <1>1 DEF ReadHistory, History, Becomes, Progress
<1>4. GetOrCreateAIHelper(r) =>
        Becomes(r, IF q.todo = <<>> THEN "setFuncs" ELSE "load", q.todo, "setFuncs", q.seen)
  BY <1>1 DEF GetOrCreateAIHelper, Becomes, Progress
<1>5. SetFuncs(r) => Becomes(r, "load", <<Question(r)>>, "ask", q.seen)
  BY <1>1 DEF SetFuncs, Becomes, Progress
<1>6. LoadMessages(r) => Becomes(r, "append", q.todo, q.next, Helper(r).messages)
  BY <1>1 DEF LoadMessages, Becomes, Progress
<1>7. AppendMessage(r) => Becomes(r, "save", q.todo, q.next, Nothing)
  BY <1>1 DEF AppendMessage, Becomes, Progress
<1>8. CallSaveFunc(r) =>
         Becomes(r, IF Len(q.todo) = 1 THEN q.next ELSE "load", Tail(q.todo), q.next, q.seen)
  BY <1>1 DEF CallSaveFunc, Becomes, Progress
<1>9. GenerateResponse(r) => Becomes(r, "asked", q.todo, q.next, Helper(r).messages)
  BY <1>1 DEF GenerateResponse, Becomes, Progress
<1>10. ReceiveAnswer(r) => Becomes(r, "load", <<Answer(r)>>, "reply", Nothing)
  BY <1>1 DEF ReceiveAnswer, Becomes, Progress
<1>11. Disconnect(r) => Becomes(r, q.stage, q.todo, q.next, q.seen)
  BY DEF Disconnect, Becomes
<1> QED
  BY <1>2, <1>3, <1>4, <1>5, <1>6, <1>7, <1>8, <1>9, <1>10, <1>11

LEMMA OthersRest ==
  ASSUME TypesOK, NEW r \in Requests,
         \/ Disconnect(r) \/ InsertSession(r) \/ ReadHistory(r) \/ GetOrCreateAIHelper(r) \/ SetFuncs(r)
         \/ LoadMessages(r) \/ AppendMessage(r) \/ CallSaveFunc(r) \/ GenerateResponse(r) \/ ReceiveAnswer(r)
  PROVE  /\ \A x \in Requests \ {r} : req'[x] = req[x] /\ (x \in gone' <=> x \in gone)
         /\ \A s \in Sessions \ {req[r].session} : stored'[s] = stored[s] /\ helpers'[s] = helpers[s]
         /\ crossed' = crossed /\ answered' = answered /\ unsaved \subseteq unsaved' /\ gone \subseteq gone'
<1>1. CASE Disconnect(r)
  BY <1>1 DEF Disconnect
<1>2. CASE InsertSession(r)
  BY <1>2 DEF InsertSession, Goto, TypesOK
<1>3. CASE ReadHistory(r)
  BY <1>3 DEF ReadHistory, TypesOK
<1>4. CASE GetOrCreateAIHelper(r)
  BY <1>4 DEF GetOrCreateAIHelper, TypesOK
<1>5. CASE SetFuncs(r)
  BY <1>5 DEF SetFuncs, TypesOK
<1>6. CASE LoadMessages(r)
  BY <1>6 DEF LoadMessages, TypesOK
<1>7. CASE AppendMessage(r)
  BY <1>7 DEF AppendMessage, TypesOK
<1>8. CASE CallSaveFunc(r)
  <2>1. req' = [req EXCEPT ![r] = req'[r]] /\ gone' = gone /\ helpers' = helpers
    BY <1>8 DEF CallSaveFunc, TypesOK
  <2>2. \/ stored' = [stored EXCEPT ![req[r].session] = Append(@, Head(req[r].todo))]
        \/ stored' = stored
    BY <1>8 DEF CallSaveFunc
  <2>3. crossed' = crossed /\ answered' = answered /\ unsaved \subseteq unsaved'
    BY <1>8 DEF CallSaveFunc
  <2> QED
    BY <2>1, <2>2, <2>3 DEF TypesOK
<1>9. CASE GenerateResponse(r)
  BY <1>9 DEF GenerateResponse, TypesOK
<1>10. CASE ReceiveAnswer(r)
  BY <1>10 DEF ReceiveAnswer, TypesOK
<1> QED
  BY <1>1, <1>2, <1>3, <1>4, <1>5, <1>6, <1>7, <1>8, <1>9, <1>10

LEMMA OnMoves ==
  ASSUME TypesOK, ShapesOK, NEW r \in Requests,
         \/ Disconnect(r) \/ InsertSession(r) \/ ReadHistory(r) \/ GetOrCreateAIHelper(r) \/ SetFuncs(r)
         \/ LoadMessages(r) \/ AppendMessage(r) \/ CallSaveFunc(r) \/ GenerateResponse(r) \/ ReceiveAnswer(r)
  PROVE  Moves(r) /\ GoesOn(r)
<1>1. Active(r)
  BY DEF Active, Disconnect, InsertSession, ReadHistory, GetOrCreateAIHelper, SetFuncs, LoadMessages,
         AppendMessage, CallSaveFunc, GenerateResponse, ReceiveAnswer
<1>2. Doing(r, req[r]) /\ req[r] \in Progress
  BY <1>1, ShapeFacts
<1>3. Active(r)' /\ req'[r].session = req[r].session /\ (Past(req[r]) => Past(req'[r]))
  <2>1. CASE Disconnect(r)
    BY <2>1, <1>1, Records DEF Becomes, Active, Past
  <2>2. CASE InsertSession(r)
    BY <2>2, Records DEF Becomes, Active, Past
  <2>3. CASE ReadHistory(r)
    BY <2>3, Records DEF Becomes, Active, Past
  <2>4. CASE GetOrCreateAIHelper(r)
    <3>1. ~Past(req[r])
      BY <2>4, <1>2 DEF GetOrCreateAIHelper, Doing, Adding, Past
    <3> QED
      BY <2>4, <3>1, Records DEF Becomes, Active
  <2>5. CASE SetFuncs(r)
    BY <2>5, Records DEF Becomes, Active, Past
  <2>6. CASE LoadMessages(r)
    BY <2>6, Records DEF Becomes, Active, Past
  <2>7. CASE AppendMessage(r)
    BY <2>7, Records DEF Becomes, Active, Past
  <2>8. CASE CallSaveFunc(r)
    <3>1. req[r].next \in {"setFuncs", "ask", "reply"}
      BY <2>8, <1>2 DEF CallSaveFunc, Doing, Adding
    <3> QED
      BY <2>8, <3>1, Records DEF Becomes, Active, Past
  <2>9. CASE GenerateResponse(r)
    BY <2>9, Records DEF Becomes, Active, Past
  <2>10. CASE ReceiveAnswer(r)
    BY <2>10, Records DEF Becomes, Active, Past
  <2> QED
    BY <2>1, <2>2, <2>3, <2>4, <2>5, <2>6, <2>7, <2>8, <2>9, <2>10
<1> QED
  BY <1>1, <1>3, OthersRest DEF Moves, GoesOn

LEMMA StepMoves ==
  ASSUME TypesOK, ShapesOK, NEW r \in Requests, Step(r)
  PROVE  Moves(r)
<1>1. CASE CreateChat(r) \/ ContinueChat(r)
  <2>1. \E s \in Sessions, stage \in {"insertSession", "readHistory"} : Start(r, s, stage)
    BY <1>1 DEF CreateChat, ContinueChat, TypesOK
  <2> QED
    BY <2>1, StartMoves
<1> QED
  BY <1>1, EndMoves, OnMoves DEF Step

-----------------------------------------------------------------------------
(* Shapes of requests and helpers.                                         *)

LEMMA HelperKept ==
  ASSUME TypesOK, ShapesOK, NEW r \in Requests, Moves(r), NEW s \in Sessions, HelperOK(s),
         helpers'[s] \in Helpers,
         \/ helpers'[s].saveFunc = helpers[s].saveFunc
         \/ helpers'[s].saveFunc = r /\ Active(r)' /\ req'[r].session = s /\ Past(req'[r])
         \/ helpers'[s].saveFunc = None
  PROVE  HelperOK(s)'
<1> SUFFICES ASSUME NEW f \in Requests, f = helpers'[s].saveFunc
             PROVE  f \in gone' \/ (f \in ActiveOn(s)' /\ Past(req'[f]))
  BY DEF HelperOK
<1>1. CASE f = r /\ Active(r)' /\ req'[r].session = s /\ Past(req'[r])
  BY <1>1 DEF ActiveOn
<1>2. CASE f = helpers[s].saveFunc
  <2>1. f \in gone \/ (f \in ActiveOn(s) /\ Past(req[f]))
    BY <1>2 DEF HelperOK
  <2>2. CASE f # r
    BY <2>1, <2>2 DEF Moves, ActiveOn, Active
  <2>3. CASE f = r
    BY <2>1, <2>3 DEF Moves, ActiveOn, Begins, Ends, GoesOn, Active, NotStarted
  <2> QED
    BY <2>2, <2>3
<1> QED
  BY <1>1, <1>2, NoneAssumption

\* What a step makes of the callback of a helper.
LEMMA StepHelpers ==
  ASSUME TypesOK, TypesOK', ShapesOK, NEW r \in Requests, Step(r), NEW s \in Sessions, HelperOK(s)
  PROVE  HelperOK(s)'
<1>1. Moves(r)
  BY StepMoves
<1>2. CASE helpers'[s] = helpers[s]
  BY <1>1, <1>2, HelperKept DEF HelperOK
<1>3. CASE s = req[r].session /\ GetOrCreateAIHelper(r)
  <2>1. helpers'[s] = NewHelper \/ helpers'[s] = helpers[s]
    BY <1>3 DEF GetOrCreateAIHelper, TypesOK
  <2>2. CASE helpers'[s] = NewHelper
    BY <1>1, <2>2, HelperKept, RecordTypes DEF NewHelper
  <2> QED
    BY <1>2, <2>1, <2>2
<1>4. CASE s = req[r].session /\ SetFuncs(r)
  <2>1. helpers'[s] = [helpers[s] EXCEPT !.saveFunc = r]
    BY <1>4 DEF SetFuncs, SaveFunc, TypesOK
  <2>2. helpers'[s] \in Helpers /\ helpers'[s].saveFunc = r
    BY <2>1 DEF HelperOK, Helpers
  <2>3. Active(r)' /\ req'[r].session = s /\ Past(req'[r])
    BY <1>4, Records DEF Becomes, Active, Past
  <2> QED
    BY <1>1, <2>2, <2>3, HelperKept
<1>5. CASE s = req[r].session /\ AppendMessage(r)
  <2> DEFINE memory == [all |-> req[r].seen.all \cup {Head(req[r].todo)}, last |-> Head(req[r].todo)]
  <2>1. helpers'[s] = [helpers[s] EXCEPT !.messages = memory]
    BY <1>5 DEF AppendMessage, TypesOK
  <2>2. memory \in Memories
    BY <1>5, ShapeFacts DEF AppendMessage, Adding, Progress, Memories
  <2> HIDE DEF memory
  <2>3. helpers'[s] \in Helpers /\ helpers'[s].saveFunc = helpers[s].saveFunc
    BY <2>1, <2>2 DEF HelperOK, Helpers
  <2> QED
    BY <1>1, <2>3, HelperKept
<1>6. helpers'[s] = helpers[s] \/ GetOrCreateAIHelper(r) \/ SetFuncs(r) \/ AppendMessage(r)
  BY DEF Step, CreateChat, ContinueChat, Start, Disconnect, FailingCall, InsertSession, ReadHistory, LoadMessages,
         CallSaveFunc, GenerateResponse, ReceiveAnswer, ModelFails, Reply
<1>7. s # req[r].session => helpers'[s] = helpers[s]
  BY <1>1 DEF Moves
<1> QED
  BY <1>2, <1>3, <1>4, <1>5, <1>6, <1>7

\* A request that has its helper keeps it.
HasHelper(q) == q.stage \in Adding \cup {"setFuncs", "ask", "asked", "reply"}

LEMMA OwnShape ==
  ASSUME TypesOK, TypesOK', ShapesOK, NEW r \in Requests, Step(r)
  PROVE  RequestOK(r)' /\ (HasHelper(req'[r]) => HasHelper(req[r]) \/ HelperOK(req[r].session)')
<1>1. CASE CreateChat(r) \/ ContinueChat(r)
  <2>1. PICK s \in Sessions, stage \in {"insertSession", "readHistory"} : Start(r, s, stage)
    BY <1>1 DEF CreateChat, ContinueChat, TypesOK
  <2>2. Begins(r) /\ req'[r].stage = stage /\ req'[r].session = s
    BY <2>1, StartMoves
  <2> QED
    BY <2>2 DEF Begins, RequestOK, Doing, HasHelper, Adding
<1>2. CASE FailingCall(r) \/ ModelFails(r) \/ Reply(r)
  <2>1. Ends(r)
    BY <1>2, EndMoves
  <2>2. req'[r] = Ended /\ r \in gone'
    BY <2>1 DEF Ends
  <2> QED
    BY <2>2 DEF RequestOK, HasHelper, Ended, Adding
<1>3. ASSUME GoesOn(r) PROVE req[r].session \in Sessions /\ Doing(r, req[r]) /\ req[r] \in Progress
  BY <1>3, ShapeFacts DEF GoesOn
<1>4. CASE Disconnect(r)
  <2>1. Becomes(r, req[r].stage, req[r].todo, req[r].next, req[r].seen)
    BY <1>4, Records
  <2> QED
    BY <1>3, <1>4, OnMoves, <2>1 DEF Becomes, RequestOK, Doing, HasHelper
<1>5. CASE InsertSession(r) \/ ReadHistory(r)
  <2>1. PICK todo : Becomes(r, "getHelper", todo, req[r].next, req[r].seen)
    BY <1>5, Records
  <2>2. req[r].next = "none"
    BY <1>3, <1>5, OnMoves DEF Doing, InsertSession, ReadHistory, Adding
  <2> QED
    BY <1>3, <1>5, OnMoves, <2>1, <2>2 DEF Becomes, RequestOK, Doing, HasHelper, Adding
<1>6. CASE GetOrCreateAIHelper(r)
  <2>1. Becomes(r, IF req[r].todo = <<>> THEN "setFuncs" ELSE "load", req[r].todo, "setFuncs", req[r].seen)
    BY <1>6, Records
  <2>2. HelperOK(req[r].session)'
    <3>1. PICK s \in Sessions : s = req[r].session
      BY <1>3, <1>6, OnMoves
    <3>2. helpers'[s] = NewHelper \/ HelperOK(s)
      BY <1>6, <3>1 DEF GetOrCreateAIHelper, TypesOK, ShapesOK
    <3>3. ASSUME helpers'[s] = NewHelper PROVE HelperOK(s)'
      <4>1. NewHelper.saveFunc = None
        BY DEF NewHelper
      <4> QED
        BY <3>1, <3>3, <4>1, RecordTypes, NoneAssumption DEF HelperOK
    <3>4. ASSUME HelperOK(s) PROVE HelperOK(s)'
      BY <3>1, <3>4, StepHelpers
    <3>5. HelperOK(s)'
      BY <3>2, <3>3, <3>4
    <3> QED
      BY <2>1, <3>1, <3>5 DEF Becomes
  <2> QED
    BY <1>3, <1>6, OnMoves, <2>1, <2>2 DEF Becomes, RequestOK, Doing, HasHelper, Adding
<1>7. CASE SetFuncs(r)
  <2>1. Becomes(r, "load", <<Question(r)>>, "ask", req[r].seen)
    BY <1>7, Records
  <2> QED
    BY <1>3, <1>7, OnMoves, <2>1 DEF SetFuncs, Becomes, RequestOK, Doing, HasHelper, Adding
<1>8. CASE LoadMessages(r) \/ AppendMessage(r)
  <2>1. PICK stage \in {"append", "save"} : \E seen : Becomes(r, stage, req[r].todo, req[r].next, seen)
    BY <1>8, Records
  <2>2. req[r].stage \in Adding
    BY <1>8 DEF LoadMessages, AppendMessage, Adding
  <2> QED
    BY <1>3, <1>8, OnMoves, <2>1, <2>2 DEF Becomes, RequestOK, Doing, HasHelper, Adding
<1>9. CASE CallSaveFunc(r)
  <2>1. Becomes(r, IF Len(req[r].todo) = 1 THEN req[r].next ELSE "load",
                Tail(req[r].todo), req[r].next, req[r].seen)
    BY <1>9, Records
  <2>2. req[r].stage = "save" /\ req[r].stage \in Adding
    BY <1>9 DEF CallSaveFunc, Adding
  <2>3. CASE req[r].next = "setFuncs"
    <3>1. Len(req[r].todo) = 1 => Tail(req[r].todo) = <<>>
      BY <1>3, <1>9, OnMoves, <2>2, ShapeFacts, Tails DEF Progress
    <3>2. Len(req[r].todo) # 1 => Tail(req[r].todo) # <<>>
      BY <1>3, <1>9, OnMoves, <2>2, ShapeFacts, Tails DEF Progress
    <3> QED
      BY <1>3, <1>9, OnMoves, <2>1, <2>2, <2>3, <3>1, <3>2 DEF Becomes, RequestOK, Doing, HasHelper, Adding
  <2>4. CASE req[r].next = "ask"
    <3>1. req[r].todo = <<Question(r)>>
      BY <1>3, <1>9, OnMoves, <2>2, <2>4 DEF Doing, Adding
    <3>2. Becomes(r, "ask", <<>>, "ask", req[r].seen)
      BY <2>1, <2>4, <3>1, Singles
    <3> QED
      BY <1>3, <1>9, OnMoves, <2>2, <3>2 DEF Becomes, RequestOK, Doing, HasHelper, Adding
  <2>5. CASE req[r].next = "reply"
    <3>1. req[r].todo = <<Answer(r)>>
      BY <1>3, <1>9, OnMoves, <2>2, <2>5 DEF Doing, Adding
    <3>2. Becomes(r, "reply", <<>>, "reply", req[r].seen)
      BY <2>1, <2>5, <3>1, Singles
    <3> QED
      BY <1>3, <1>9, OnMoves, <2>2, <3>2 DEF Becomes, RequestOK, Doing, HasHelper, Adding
  <2> QED
    BY <1>3, <1>9, OnMoves, <2>2, <2>3, <2>4, <2>5 DEF Doing, Adding
<1>10. CASE GenerateResponse(r)
  <2>1. Becomes(r, "asked", req[r].todo, req[r].next, Helper(r).messages)
    BY <1>10, Records
  <2> QED
    BY <1>3, <1>10, OnMoves, <2>1 DEF GenerateResponse, Becomes, RequestOK, Doing, HasHelper, Adding
<1>11. CASE ReceiveAnswer(r)
  <2>1. Becomes(r, "load", <<Answer(r)>>, "reply", Nothing)
    BY <1>11, Records
  <2> QED
    BY <1>3, <1>11, OnMoves, <2>1 DEF ReceiveAnswer, Becomes, RequestOK, Doing, HasHelper, Adding
<1> QED
  BY <1>1, <1>2, <1>4, <1>5, <1>6, <1>7, <1>8, <1>9, <1>10, <1>11 DEF Step

LEMMA NextShapes ==
  ASSUME TypesOK, TypesOK', ShapesOK, Next
  PROVE  ShapesOK'
<1>1. ASSUME NEW r \in Requests, Step(r)
      PROVE  ShapesOK'
  <2>1. Moves(r)
    BY <1>1, StepMoves
  <2>2. \A x \in Requests : RequestOK(x)'
    <3> SUFFICES ASSUME NEW x \in Requests, x # r PROVE RequestOK(x)'
      BY <1>1, OwnShape
    <3> QED
      BY <2>1 DEF Moves, RequestOK, ShapesOK
  <2>3. \A s \in Sessions : HelperOK(s) => HelperOK(s)'
    BY <1>1, StepHelpers
  <2>4. ASSUME NEW s \in Sessions PROVE (helpers[s] = None \/ HelperOK(s))'
    <3>1. CASE HelperOK(s)
      BY <2>3, <3>1
    <3>2. CASE helpers[s] = None /\ helpers'[s] # None
      <4>1. GetOrCreateAIHelper(r) \/ SetFuncs(r) \/ AppendMessage(r)
        BY <1>1, <3>2 DEF Step, CreateChat, ContinueChat, Start, Disconnect, FailingCall, InsertSession, ReadHistory,
             LoadMessages, CallSaveFunc, GenerateResponse, ReceiveAnswer, ModelFails, Reply
      <4>2. s = req[r].session
        BY <2>1, <3>2 DEF Moves
      <4>3. CASE GetOrCreateAIHelper(r)
        <5>1. helpers'[s] = NewHelper
          BY <3>2, <4>2, <4>3 DEF GetOrCreateAIHelper, TypesOK
        <5> QED
          BY <5>1, RecordTypes, NoneAssumption DEF HelperOK, NewHelper
      <4>4. CASE SetFuncs(r) \/ AppendMessage(r)
        BY <2>3, <4>2, <4>4, ShapeFacts DEF SetFuncs, AppendMessage, Adding
      <4> QED
        BY <4>1, <4>3, <4>4
    <3> QED
      BY <3>1, <3>2 DEF ShapesOK
  <2>5. ASSUME NEW x \in Requests, Active(x)',
               req'[x].stage \notin {"insertSession", "readHistory", "getHelper"}
        PROVE  HelperOK(req[x].session)'
    <3>1. HasHelper(req'[x])
      BY <2>2, <2>5 DEF RequestOK, Doing, HasHelper, Active, NotStarted, Ended
    <3>2. CASE HasHelper(req[x])
      <4>1. req'[x].session = req[x].session
        <5>1. req'[x] # Ended
          BY <2>5, RecordTypes DEF Active
        <5>2. req[x] # NotStarted
          BY <3>2 DEF HasHelper, NotStarted, Adding
        <5> QED
          BY <2>1, <5>1, <5>2 DEF Moves, Begins, Ends, GoesOn
      <4>2. HelperOK(req[x].session) /\ req[x].session \in Sessions
        BY <3>2, ShapeFacts DEF HasHelper, Active, Adding
      <4> QED
        BY <2>3, <4>1, <4>2
    <3>3. CASE ~HasHelper(req[x])
      <4>1. x = r
        BY <2>1, <3>1, <3>3 DEF Moves
      <4> QED
        BY <1>1, <3>1, <3>3, <4>1, OwnShape
    <3> QED
      BY <3>2, <3>3
  <2> QED
    BY <2>2, <2>4, <2>5 DEF ShapesOK
<1>2. CASE Restart
  <2>1. \A r \in Requests : req'[r] = IF Active(r) THEN Ended ELSE req[r]
    BY <1>2 DEF Restart
  <2>2. \A r \in Requests : RequestOK(r)'
    <3> SUFFICES ASSUME NEW r \in Requests PROVE RequestOK(r)'
      OBVIOUS
    <3>1. CASE Active(r)
      BY <1>2, <2>1, <3>1 DEF Restart, RequestOK
    <3>2. CASE ~Active(r)
      BY <1>2, <2>1, <3>2 DEF Restart, RequestOK, ShapesOK, Active, Doing, Adding
    <3> QED
      BY <3>1, <3>2
  <2>3. \A r \in Requests : ~Active(r)'
    BY <2>1, RecordTypes DEF Active
  <2>4. \A s \in Sessions : helpers'[s] = None
    BY <1>2 DEF Restart
  <2> QED
    BY <2>2, <2>3, <2>4 DEF ShapesOK
<1> QED
  BY <1>1, <1>2 DEF Next, Step

-----------------------------------------------------------------------------
(* Sessions, and requests that overlap.                                    *)

LEMMA NextSessions ==
  ASSUME TypesOK, ShapesOK, SessionsOK, Next
  PROVE  SessionsOK'
<1>1. ASSUME NEW r \in Requests, CreateChat(r) \/ ContinueChat(r)
      PROVE  SessionsOK'
  <2>1. PICK s \in Sessions, stage \in {"insertSession", "readHistory"} :
          /\ Start(r, s, stage)
          /\ \/ stage = "insertSession" /\ s \notin opened /\ ActiveOn(s) = {}
             \/ stage = "readHistory" /\ s \in opened
    BY <1>1 DEF CreateChat, ContinueChat, TypesOK
  <2>2. Moves(r) /\ Begins(r) /\ req'[r].stage = stage /\ req'[r].session = s
    BY <2>1, StartMoves
  <2>3. \A x \in Requests \ {r} : req'[x] = req[x]
    BY <2>2 DEF Moves
  <2>4. \A x \in Requests : Active(x)' =>
          (req'[x].stage = "insertSession" <=> req'[x].session \notin opened')
    BY <2>1, <2>2, <2>3 DEF SessionsOK, Active, Begins
  <2>5. \A t \in Sessions \ opened' : \A x, y \in ActiveOn(t)' : x = y
    BY <2>1, <2>2, <2>3 DEF SessionsOK, ActiveOn, Active, Begins
  <2> QED
    BY <2>2, <2>4, <2>5 DEF SessionsOK, Begins
<1>2. ASSUME NEW r \in Requests, InsertSession(r)
      PROVE  SessionsOK'
  <2> DEFINE s == req[r].session
  <2>1. Active(r) /\ Moves(r) /\ GoesOn(r) /\ req'[r].stage = "getHelper" /\ req'[r].session = s /\ s \in Sessions
    BY <1>2, OnMoves, Records, ShapeFacts DEF Becomes, GoesOn
  <2>2. opened' = opened \cup {s} /\ stored' = stored /\ helpers' = helpers /\ s \notin opened
    BY <1>2, <2>1 DEF InsertSession, SessionsOK
  <2>3. \A x \in Requests \ {r} : req'[x] = req[x] /\ (Active(x) => req[x].session # s)
    BY <2>1, <2>2 DEF Moves, SessionsOK, ActiveOn
  <2>4. \A x \in Requests : Active(x)' =>
          (req'[x].stage = "insertSession" <=> req'[x].session \notin opened')
    BY <2>1, <2>2, <2>3 DEF SessionsOK, Active
  <2>5. \A t \in Sessions \ opened' : \A x, y \in ActiveOn(t)' : x = y
    BY <2>1, <2>2, <2>3 DEF SessionsOK, ActiveOn, Active
  <2> QED
    BY <2>2, <2>4, <2>5 DEF SessionsOK
<1>3. ASSUME NEW r \in Requests, FailingCall(r) \/ ModelFails(r) \/ Reply(r)
      PROVE  SessionsOK'
  <2>1. Moves(r) /\ Ends(r) /\ ~Active(r)'
    BY <1>3, EndMoves, RecordTypes DEF Ends, Active
  <2> QED
    BY <2>1 DEF Moves, Ends, SessionsOK, ActiveOn, Active
<1>4. ASSUME NEW r \in Requests,
             \/ Disconnect(r) \/ ReadHistory(r) \/ GetOrCreateAIHelper(r) \/ SetFuncs(r)
             \/ LoadMessages(r) \/ AppendMessage(r) \/ CallSaveFunc(r) \/ GenerateResponse(r) \/ ReceiveAnswer(r)
      PROVE  SessionsOK'
  <2>1. Moves(r) /\ GoesOn(r) /\ req[r].session \in Sessions
    BY <1>4, OnMoves, ShapeFacts DEF GoesOn
  <2>2. opened' = opened
    BY <1>4 DEF Disconnect, ReadHistory, GetOrCreateAIHelper, SetFuncs, LoadMessages, AppendMessage, CallSaveFunc,
         GenerateResponse, ReceiveAnswer
  <2>3. \/ req[r].stage # "insertSession" /\ req'[r].stage # "insertSession"
        \/ req'[r].stage = req[r].stage /\ stored' = stored /\ helpers' = helpers
    <3>1. CASE Disconnect(r)
      BY <3>1, Records DEF Becomes, Disconnect
    <3>2. CASE CallSaveFunc(r)
      <4>1. req[r].next # "insertSession"
        BY <3>2, ShapeFacts DEF CallSaveFunc, Progress
      <4>2. req[r].stage = "save"
        BY <3>2 DEF CallSaveFunc
      <4>3. req'[r].stage = IF Len(req[r].todo) = 1 THEN req[r].next ELSE "load"
        BY <3>2, Records DEF Becomes
      <4> QED
        BY <4>1, <4>2, <4>3
    <3>3. CASE ReadHistory(r)
      BY <3>3, Records DEF Becomes, ReadHistory
    <3>4. CASE GetOrCreateAIHelper(r)
      <4>1. req[r].stage = "getHelper"
        BY <3>4 DEF GetOrCreateAIHelper
      <4>2. req'[r].stage = IF req[r].todo = <<>> THEN "setFuncs" ELSE "load"
        BY <3>4, Records DEF Becomes
      <4> QED
        BY <4>1, <4>2
    <3>5. CASE SetFuncs(r)
      BY <3>5, Records DEF Becomes, SetFuncs
    <3>6. CASE LoadMessages(r) \/ AppendMessage(r)
      BY <3>6, Records DEF Becomes, LoadMessages, AppendMessage
    <3>7. CASE GenerateResponse(r) \/ ReceiveAnswer(r)
      BY <3>7, Records DEF Becomes, GenerateResponse, ReceiveAnswer
    <3> QED
      BY <1>4, <3>1, <3>2, <3>3, <3>4, <3>5, <3>6, <3>7
  <2>4. \A s \in Sessions \ opened : stored'[s] = <<>> /\ helpers'[s] = None
    BY <2>1, <2>3 DEF Moves, GoesOn, SessionsOK
  <2>5. \A x \in Requests : (Active(x)' <=> Active(x)) /\ (Active(x) => req'[x].session = req[x].session)
    BY <2>1 DEF Moves, GoesOn, Active
  <2>6. \A x \in Requests : Active(x) => (req'[x].stage = "insertSession" <=> req[x].stage = "insertSession")
    BY <2>1, <2>3 DEF Moves
  <2> QED
    BY <2>2, <2>4, <2>5, <2>6 DEF SessionsOK, ActiveOn
<1>5. CASE Restart
  <2>1. \A r \in Requests : ~Active(r)'
    BY <1>5, RecordTypes DEF Restart, Active
  <2> QED
    BY <1>5, <2>1 DEF Restart, SessionsOK, ActiveOn
<1> QED
  BY <1>1, <1>2, <1>3, <1>4, <1>5 DEF Next

LEMMA NextOverlaps ==
  ASSUME TypesOK, ShapesOK, OverlapsAreKnown, Next
  PROVE  OverlapsAreKnown'
<1>1. ASSUME NEW r \in Requests, CreateChat(r) \/ ContinueChat(r)
      PROVE  OverlapsAreKnown'
  <2>1. PICK s \in Sessions, stage \in {"insertSession", "readHistory"} : Start(r, s, stage)
    BY <1>1 DEF CreateChat, ContinueChat, TypesOK
  <2>2. Moves(r) /\ Begins(r) /\ req'[r].session = s
    BY <2>1, StartMoves
  <2>3. ActiveOn(s) # {} => \A x \in ActiveOn(s) \cup {r} : <<x, s>> \in crossed'
    BY <2>1 DEF Start
  <2>4. ASSUME NEW t \in Sessions, NEW x \in ActiveOn(t)', NEW y \in ActiveOn(t)', x # y
        PROVE  <<x, t>> \in crossed'
    <3>1. CASE x # r /\ y # r
      BY <2>2, <2>4, <3>1 DEF Moves, OverlapsAreKnown, ActiveOn, Active
    <3>2. CASE x = r \/ y = r
      BY <2>2, <2>3, <2>4, <3>2 DEF Moves, ActiveOn, Active
    <3> QED
      BY <3>1, <3>2
  <2> QED
    BY <2>4 DEF OverlapsAreKnown
<1>2. ASSUME NEW r \in Requests, Moves(r), Ends(r) \/ GoesOn(r)
      PROVE  OverlapsAreKnown'
  <2>1. \A x \in Requests : Active(x)' => Active(x) /\ req'[x].session = req[x].session
    BY <1>2, RecordTypes DEF Moves, Ends, GoesOn, Active
  <2> QED
    BY <1>2, <2>1 DEF Moves, OverlapsAreKnown, ActiveOn
<1>3. CASE Restart
  <2>1. \A r \in Requests : ~Active(r)'
    BY <1>3, RecordTypes DEF Restart, Active
  <2> QED
    BY <2>1 DEF OverlapsAreKnown, ActiveOn
<1> QED
  BY <1>1, <1>2, <1>3, EndMoves, OnMoves DEF Next

-----------------------------------------------------------------------------
(* Origins: what is stored has been saved by the request it is of.         *)

\* Saving appends what is due, or nothing.
LEMMA Saving ==
  ASSUME TypesOK, ShapesOK, NEW r \in Requests, CallSaveFunc(r)
  PROVE  /\ Active(r) /\ req[r].session \in Sessions /\ Doing(r, req[r])
         /\ req[r].stage = "save" /\ req[r].stage \in Adding
         /\ req[r].todo \in Seq(Messages) /\ req[r].todo # <<>>
         /\ Head(req[r].todo) \in Messages /\ Head(req[r].todo) = req[r].todo[1] /\ 1 \in DOMAIN req[r].todo
         /\ helpers' = helpers /\ gone' = gone /\ opened' = opened
         /\ \A s \in Sessions \ {req[r].session} : stored'[s] = stored[s]
         /\ \/ /\ Helper(r).saveFunc # None /\ Helper(r).saveFunc \notin gone
               /\ stored'[req[r].session] = Append(stored[req[r].session], Head(req[r].todo))
            \/ (Helper(r).saveFunc = None \/ Helper(r).saveFunc \in gone) /\ stored' = stored
            \/ Head(req[r].todo).of \in unsaved' /\ stored' = stored
<1>1. req[r].stage = "save"
  BY DEF CallSaveFunc
<1>2. Active(r) /\ req[r].session \in Sessions /\ Doing(r, req[r]) /\ req[r].stage \in Adding
  BY <1>1, ShapeFacts DEF Active, Adding
<1>3. /\ req[r].todo \in Seq(Messages) /\ req[r].todo # <<>>
      /\ Head(req[r].todo) \in Messages
  BY <1>2, ShapeFacts DEF Progress
<1>4. Head(req[r].todo) = req[r].todo[1] /\ 1 \in DOMAIN req[r].todo
  <2>1. Len(req[r].todo) \in Nat \ {0}
    BY <1>3, EmptySeq
  <2> QED
    BY <1>3, <2>1
<1>5. helpers' = helpers /\ gone' = gone /\ opened' = opened
  BY DEF CallSaveFunc
<1>6. \A s \in Sessions \ {req[r].session} : stored'[s] = stored[s]
  BY OthersRest
<1>7. \/ /\ Helper(r).saveFunc # None /\ Helper(r).saveFunc \notin gone
         /\ stored' = [stored EXCEPT ![req[r].session] = Append(@, Head(req[r].todo))]
      \/ (Helper(r).saveFunc = None \/ Helper(r).saveFunc \in gone) /\ stored' = stored
      \/ Head(req[r].todo).of \in unsaved' /\ stored' = stored
  BY DEF CallSaveFunc, ContextLives
<1>8. stored \in [Sessions -> Seq(Messages)]
  BY DEF TypesOK
<1> QED
  BY <1>1, <1>2, <1>3, <1>4, <1>5, <1>6, <1>7, <1>8

\* A saved message stays saved.
LEMMA SavedStays ==
  ASSUME TypesOK, ShapesOK, Next, NEW m \in Messages, Saved(m)
  PROVE  Saved(m)'
<1> DEFINE x == m.of
<1>1. x \in Requests
  BY DEF Messages
<1>2. CASE req'[x] = req[x]
  BY <1>2 DEF Saved
<1>3. CASE req'[x] = Ended
  BY <1>3, RecordTypes DEF Saved
<1>4. CASE ReceiveAnswer(x)
  BY <1>1, <1>4, Records DEF Saved, Becomes, ReceiveAnswer
<1>5. CASE GenerateResponse(x)
  BY <1>1, <1>5, Records DEF Saved, Becomes, GenerateResponse
<1>6. CASE LoadMessages(x)
  BY <1>1, <1>6, Records DEF Saved, Becomes, LoadMessages
<1>7. CASE AppendMessage(x)
  BY <1>1, <1>7, Records DEF Saved, Becomes, AppendMessage
<1>8. CASE CallSaveFunc(x)
  BY <1>1, <1>8, Records DEF Saved, Becomes, CallSaveFunc
<1>9. CASE \/ CreateChat(x) \/ ContinueChat(x) \/ InsertSession(x) \/ ReadHistory(x) \/ GetOrCreateAIHelper(x)
           \/ SetFuncs(x)
  <2>1. req[x].stage \in {"new", "insertSession", "readHistory", "getHelper", "setFuncs"}
    <3>1. CASE CreateChat(x) \/ ContinueChat(x)
      BY <3>1, RecordTypes DEF CreateChat, ContinueChat, Start
    <3> QED
      BY <1>9, <3>1 DEF InsertSession, ReadHistory, GetOrCreateAIHelper, SetFuncs
  <2>2. req[x].next # "reply"
    BY <1>1, <2>1, ShapeFacts, RecordTypes DEF Active, Doing, Adding
  <2> QED
    BY <2>1, <2>2 DEF Saved
<1>10. ASSUME NEW r \in Requests, Step(r)
       PROVE  Saved(m)'
  <2>1. CASE r # x
    BY <1>1, <1>2, <1>10, <2>1, StepMoves DEF Moves
  <2>2. CASE r = x
    <3>1. CASE Disconnect(x)
      BY <1>2, <3>1 DEF Disconnect
    <3>2. CASE FailingCall(x) \/ ModelFails(x) \/ Reply(x)
      BY <1>1, <1>3, <3>2, EndMoves DEF Ends
    <3> QED
      BY <1>10, <2>2, <1>4, <1>5, <1>6, <1>7, <1>8, <1>9, <3>1, <3>2 DEF Step
  <2> QED
    BY <2>1, <2>2
<1>11. CASE Restart
  BY <1>1, <1>2, <1>3, <1>11 DEF Restart
<1> QED
  BY <1>10, <1>11 DEF Next, Step

LEMMA Appended ==
  ASSUME NEW S, NEW list \in Seq(S), NEW m
  PROVE  /\ Len(Append(list, m)) = Len(list) + 1 /\ Len(list) \in Nat
         /\ DOMAIN list = 1..Len(list) /\ DOMAIN Append(list, m) = 1..(Len(list) + 1)
         /\ \A i \in 1..Len(list) : Append(list, m)[i] = list[i]
         /\ Append(list, m)[Len(list) + 1] = m
OBVIOUS

LEMMA TailItems ==
  ASSUME NEW S, NEW list \in Seq(S), list # <<>>, NEW i \in DOMAIN Tail(list)
  PROVE  i + 1 \in DOMAIN list /\ Tail(list)[i] = list[i + 1]
<1>1. Len(list) \in Nat \ {0}
  BY EmptySeq
<1> QED
  BY <1>1

\* What a request saves is of the past, or is its own, saved with this step.
LEMMA SavedNow ==
  ASSUME TypesOK, ShapesOK, OriginsOK, NEW r \in Requests, CallSaveFunc(r), NEW m, m = Head(req[r].todo)
  PROVE  Saved(m)'
<1>1. m \in Messages /\ Doing(r, req[r]) /\ req[r].stage = "save" /\ req[r].stage \in Adding
  BY Saving
<1>2. Becomes(r, IF Len(req[r].todo) = 1 THEN req[r].next ELSE "load",
              Tail(req[r].todo), req[r].next, req[r].seen)
  BY Records
<1>3. CASE req[r].next = "setFuncs"
  <2>1. Saved(m)
    BY <1>3, Saving DEF OriginsOK, Earlier
  <2>2. Next
    BY DEF Next
  <2> QED
    BY <1>1, <2>1, <2>2, SavedStays
<1>4. CASE req[r].next = "ask"
  <2>1. req[r].todo = <<Question(r)>>
    BY <1>1, <1>4 DEF Doing, Adding
  <2>2. req'[r].stage = "ask" /\ m = Question(r)
    BY <1>2, <1>4, <2>1, Singles DEF Becomes
  <2> QED
    BY <2>2 DEF Saved, Question
<1>5. CASE req[r].next = "reply"
  <2>1. req[r].todo = <<Answer(r)>>
    BY <1>1, <1>5 DEF Doing, Adding
  <2>2. req'[r].stage = "reply" /\ m = Answer(r)
    BY <1>2, <1>5, <2>1, Singles DEF Becomes
  <2> QED
    BY <2>2 DEF Saved, Answer
<1> QED
  BY <1>1, <1>3, <1>4, <1>5 DEF Doing, Adding

LEMMA StoredOrigins ==
  ASSUME TypesOK, ShapesOK, OriginsOK, Next, NEW s \in Sessions, NEW i \in DOMAIN stored'[s]
  PROVE  Saved(stored[s][i])'
<1>1. stored[s] \in Seq(Messages)
  BY DEF TypesOK
<1>2. CASE stored'[s] = stored[s]
  <2>1. Saved(stored[s][i]) /\ stored[s][i] \in Messages
    BY <1>1, <1>2 DEF OriginsOK
  <2>2. \A m : Saved(m) /\ m \in Messages => Saved(m)'
    BY SavedStays
  <2>3. \A m : m = stored[s][i] => Saved(m)'
    BY <2>1, <2>2
  <2> QED
    BY <1>2, <2>3
<1>3. CASE stored'[s] # stored[s]
  <2>1. PICK r \in Requests : CallSaveFunc(r)
    BY <1>3 DEF Next, CreateChat, ContinueChat, Start, Disconnect, FailingCall, InsertSession, ReadHistory,
         GetOrCreateAIHelper, SetFuncs, LoadMessages, AppendMessage, GenerateResponse, ReceiveAnswer, ModelFails,
         Reply, Restart
  <2> DEFINE m == Head(req[r].todo)
  <2>2. stored'[s] = Append(stored[s], m)
    BY <1>3, <2>1, Saving
  <2>3. CASE i \in 1..Len(stored[s])
    <3>1. Saved(stored[s][i]) /\ stored[s][i] \in Messages
      BY <1>1, <2>3 DEF OriginsOK
    <3>2. \A k : Saved(k) /\ k \in Messages => Saved(k)'
      BY SavedStays
    <3>3. \A k : k = stored[s][i] => Saved(k)'
      BY <3>1, <3>2
    <3>4. stored'[s][i] = stored[s][i]
      BY <1>1, <2>2, <2>3, Appended
    <3> QED
      BY <3>3, <3>4
  <2>4. CASE i \notin 1..Len(stored[s])
    <3>1. stored'[s][i] = m
      BY <1>1, <2>2, <2>4, Appended
    <3>2. \A k : k = m => Saved(k)'
      BY <2>1, SavedNow
    <3> QED
      BY <3>1, <3>2
  <2> QED
    BY <2>3, <2>4
<1> QED
  BY <1>2, <1>3

LEMMA NextOrigins ==
  ASSUME TypesOK, ShapesOK, OriginsOK, Next
  PROVE  OriginsOK'
<1>1. \A s \in Sessions : \A i \in DOMAIN stored'[s] : Saved(stored[s][i])'
  BY StoredOrigins
<1>2. \A m \in Messages : Saved(m) => Saved(m)'
  BY SavedStays
<1>3. ASSUME NEW r \in Requests, req'[r].todo = req[r].todo, Earlier(req[r]), NEW i \in DOMAIN req'[r].todo
      PROVE  Saved(req[r].todo[i])'
  <2>1. Saved(req[r].todo[i]) /\ req[r].todo[i] \in Messages
    BY <1>3, ShapeFacts DEF OriginsOK, Progress
  <2> QED
    BY <1>2, <1>3, <2>1
<1>4. ASSUME NEW r \in Requests, Step(r), Earlier(req'[r]), NEW i \in DOMAIN req'[r].todo
      PROVE  Saved(req[r].todo[i])'
  <2>1. CASE CreateChat(r) \/ ContinueChat(r)
    BY <1>4, <2>1, StartMoves DEF CreateChat, ContinueChat, TypesOK, Begins
  <2>2. CASE FailingCall(r) \/ ModelFails(r) \/ Reply(r)
    <3>1. req'[r] = Ended
      BY <2>2, EndMoves DEF Ends
    <3> QED
      BY <1>4, <3>1, RecordTypes
  <2>3. CASE Disconnect(r) \/ InsertSession(r) \/ GetOrCreateAIHelper(r) \/ LoadMessages(r) \/ AppendMessage(r)
             \/ GenerateResponse(r)
    <3>1. req'[r].todo = req[r].todo
      BY <2>3, Records DEF Becomes
    <3>2. Earlier(req[r])
      <4>1. GetOrCreateAIHelper(r) => req[r].next = "none"
        BY ShapeFacts DEF GetOrCreateAIHelper, Active, Doing, Adding
      <4> QED
        BY <1>4, <2>3, <4>1, Records DEF Becomes, Earlier
    <3> QED
      BY <1>3, <1>4, <3>1, <3>2
  <2>4. CASE ReadHistory(r)
    <3>1. req'[r].todo = stored[req[r].session] /\ req[r].session \in Sessions
      BY <2>4, Records, ShapeFacts DEF Becomes, ReadHistory, Active
    <3>2. Saved(req'[r].todo[i]) /\ req'[r].todo[i] \in Messages
      BY <1>4, <3>1 DEF OriginsOK, TypesOK
    <3> QED
      BY <1>2, <3>2
  <2>5. CASE SetFuncs(r) \/ ReceiveAnswer(r)
    BY <1>4, <2>5, Records DEF Becomes, Earlier
  <2>6. CASE CallSaveFunc(r)
    <3>1. req'[r].todo = Tail(req[r].todo) /\ Earlier(req[r])
      BY <1>4, <2>6, Records DEF Becomes, Earlier
    <3>2. req[r].todo \in Seq(Messages) /\ req[r].todo # <<>>
      BY <2>6, Saving
    <3>3. i + 1 \in DOMAIN req[r].todo /\ req'[r].todo[i] = req[r].todo[i + 1]
      BY <1>4, <3>1, <3>2, TailItems
    <3>4. Saved(req'[r].todo[i]) /\ req'[r].todo[i] \in Messages
      BY <3>1, <3>2, <3>3 DEF OriginsOK
    <3> QED
      BY <1>2, <3>4
  <2> QED
    BY <1>4, <2>1, <2>2, <2>3, <2>4, <2>5, <2>6 DEF Step
<1>5. ASSUME NEW r \in Requests, Earlier(req'[r]), NEW i \in DOMAIN req'[r].todo
      PROVE  Saved(req[r].todo[i])'
  <2>1. ASSUME NEW x \in Requests, Step(x)
        PROVE  Saved(req[r].todo[i])'
    <3>1. CASE x = r
      BY <1>4, <1>5, <2>1, <3>1
    <3>2. CASE x # r
      <4>1. req'[r] = req[r]
        BY <2>1, <3>2, StepMoves DEF Moves
      <4> QED
        BY <1>3, <1>5, <4>1
    <3> QED
      BY <3>1, <3>2
  <2>2. CASE Restart
    <3>1. req'[r] = Ended \/ req'[r] = req[r]
      BY <2>2 DEF Restart
    <3> QED
      BY <1>3, <1>5, <3>1, RecordTypes
  <2> QED
    BY <2>1, <2>2 DEF Next, Step
<1> QED
  BY <1>1, <1>5 DEF OriginsOK

-----------------------------------------------------------------------------
(* Nothing is stored twice in a session on which no requests overlapped.   *)

\* In a session of its own, a request saves through its own callback or not at all.
LEMMA OwnCallback ==
  ASSUME TypesOK, ShapesOK, OverlapsAreKnown, NEW r \in Requests, Alone(r), HelperOK(req[r].session),
         Helper(r).saveFunc # None, Helper(r).saveFunc \notin gone
  PROVE  Helper(r).saveFunc = r /\ Past(req[r])
<1> DEFINE s == req[r].session
           f == helpers[s].saveFunc
<1>1. s \in Sessions /\ r \in ActiveOn(s)
  BY ShapeFacts DEF Alone, ActiveOn
<1>2. f \in Requests /\ f \in ActiveOn(s) /\ Past(req[f])
  BY DEF HelperOK, Helper, Helpers
<1>3. f = r
  BY <1>1, <1>2 DEF OverlapsAreKnown, Alone
<1> QED
  BY <1>2, <1>3 DEF Helper

LEMMA NextOnce ==
  ASSUME TypesOK, ShapesOK, OverlapsAreKnown, OriginsOK, StoredOnce, Next
  PROVE  StoredOnce'
<1>1. Quiet' \subseteq Quiet
  <2>1. crossed \subseteq crossed'
    <3>1. CASE Restart
      BY <3>1 DEF Restart
    <3> QED
      BY <3>1, StepMoves DEF Next, Step, Moves
  <2> QED
    BY <2>1 DEF Quiet
<1> SUFFICES ASSUME NEW s \in Quiet', NEW i \in DOMAIN stored'[s], NEW j \in DOMAIN stored'[s],
                    stored'[s][j] = stored'[s][i]
             PROVE  i = j
  BY DEF StoredOnce, Positions
<1>2. \A k, l \in DOMAIN stored[s] : stored[s][k] = stored[s][l] => k = l
  BY <1>1 DEF StoredOnce, Positions
<1>3. s \in Sessions /\ s \in Quiet
  BY <1>1 DEF Quiet
<1>4. CASE stored'[s] = stored[s]
  BY <1>2, <1>4
<1>5. CASE stored'[s] # stored[s]
  <2>1. PICK r \in Requests : CallSaveFunc(r)
    BY <1>5 DEF Next, CreateChat, ContinueChat, Start, Disconnect, FailingCall, InsertSession, ReadHistory,
         GetOrCreateAIHelper, SetFuncs, LoadMessages, AppendMessage, GenerateResponse, ReceiveAnswer, ModelFails,
         Reply, Restart
  <2> DEFINE m == Head(req[r].todo)
  <2>2. s = req[r].session /\ stored'[s] = Append(stored[s], m)
    BY <1>3, <1>5, <2>1, Saving
  <2>3. Helper(r).saveFunc # None /\ Helper(r).saveFunc \notin gone
    BY <1>3, <1>5, <2>1, <2>2, Saving
  <2>4. Past(req[r])
    <3>1. Alone(r)
      BY <1>3, <2>1, <2>2, Saving DEF Alone, Quiet
    <3>2. HelperOK(req[r].session)
      BY <2>1, ShapeFacts DEF CallSaveFunc, Adding
    <3> QED
      BY <2>3, <3>1, <3>2, OwnCallback
  <2>5. ~Saved(m)
    <3>1. Doing(r, req[r]) /\ req[r].stage = "save" /\ req[r].stage \in Adding
      BY <2>1, Saving
    <3>2. CASE req[r].next = "ask"
      <4>1. m = Question(r)
        BY <3>1, <3>2, Singles DEF Doing, Adding
      <4> QED
        BY <3>1, <3>2, <4>1 DEF Saved, Question
    <3>3. CASE req[r].next = "reply"
      <4>1. m = Answer(r)
        BY <3>1, <3>3, Singles DEF Doing, Adding
      <4> QED
        BY <3>1, <3>3, <4>1 DEF Saved, Answer
    <3> QED
      BY <2>4, <3>2, <3>3 DEF Past
  <2>6. \A k \in DOMAIN stored[s] : stored[s][k] # m
    BY <1>3, <2>5 DEF OriginsOK
  <2>7. stored[s] \in Seq(Messages)
    BY <1>3 DEF TypesOK
  <2> HIDE DEF m
  <2>8. /\ DOMAIN stored[s] = 1..Len(stored[s]) /\ DOMAIN stored'[s] = 1..(Len(stored[s]) + 1)
        /\ \A k \in 1..Len(stored[s]) : stored'[s][k] = stored[s][k]
        /\ stored'[s][Len(stored[s]) + 1] = m /\ Len(stored[s]) \in Nat
    BY <2>2, <2>7, Appended
  <2> QED
    BY <1>2, <2>6, <2>8
<1> QED
  BY <1>4, <1>5

-----------------------------------------------------------------------------
(* Requests that overlap with no other.                                    *)

LEMMA AloneKept ==
  ASSUME TypesOK, ShapesOK, OverlapsAreKnown, NEW r \in Requests, Moves(r),
         NEW x \in Requests, x # r, Alone(x)'
  PROVE  /\ Alone(x) /\ req'[x] = req[x] /\ (x \in gone' <=> x \in gone)
         /\ stored'[req[x].session] = stored[req[x].session] /\ Helper(x)' = Helper(x)
<1>1. req'[x] = req[x] /\ (x \in gone' <=> x \in gone) /\ crossed \subseteq crossed'
  BY DEF Moves
<1>2. Alone(x) /\ req[x].session \in Sessions
  BY <1>1, ShapeFacts DEF Alone, Active
<1>3. CASE Begins(r)
  BY <1>1, <1>2, <1>3 DEF Begins, Helper
<1>4. CASE Active(r)
  <2>1. req[r].session # req[x].session
    BY <1>2, <1>4 DEF OverlapsAreKnown, ActiveOn, Alone
  <2> QED
    BY <1>1, <1>2, <2>1 DEF Moves, Helper
<1> QED
  BY <1>3, <1>4 DEF Moves, Ends, GoesOn

LEMMA AloneWas ==
  ASSUME NEW r \in Requests, Alone(r)', GoesOn(r)
  PROVE  Alone(r)
BY DEF Alone, GoesOn

LEMMA OwnTurn ==
  ASSUME TypesOK, TypesOK', ShapesOK, TurnsOK, NEW r \in Requests, Step(r), Alone(r)', r \notin unsaved'
  PROVE  TurnOK(r)'
<1>1. CASE CreateChat(r) \/ ContinueChat(r)
  <2>1. PICK s \in Sessions, stage \in {"insertSession", "readHistory"} : Start(r, s, stage)
    BY <1>1 DEF CreateChat, ContinueChat, TypesOK
  <2>2. Begins(r) /\ req'[r].stage = stage
    BY <2>1, StartMoves
  <2>3. r \notin gone'
    BY <2>2, RecordTypes DEF Begins, ShapesOK, RequestOK, Doing, Adding
  <2> QED
    BY <2>2, <2>3 DEF Begins, TurnOK, Past
<1>2. CASE FailingCall(r) \/ ModelFails(r) \/ Reply(r)
  BY <1>2, EndMoves, RecordTypes DEF Ends, Alone, Active
<1>3. CASE Disconnect(r)
  BY <1>3 DEF Disconnect
<1>4. ASSUME GoesOn(r)
      PROVE  /\ TurnOK(r) /\ req'[r].session = req[r].session /\ req[r].session \in Sessions
             /\ Doing(r, req[r])
  BY <1>4, StepMoves, AloneWas, ShapeFacts DEF Moves, TurnsOK, GoesOn, Alone
<1>5. CASE InsertSession(r) \/ ReadHistory(r) \/ GetOrCreateAIHelper(r)
  <2>1. TurnOK(r) /\ gone' = gone /\ req[r].next = "none"
    BY <1>4, <1>5, OnMoves DEF InsertSession, ReadHistory, GetOrCreateAIHelper, Doing, Adding
  <2>2. req'[r].stage \in {"getHelper", "setFuncs", "load"} /\ req'[r].next \in {"none", "setFuncs"}
    BY <1>5, <2>1, Records DEF Becomes
  <2> QED
    BY <2>1, <2>2 DEF TurnOK, Past
<1>6. CASE SetFuncs(r)
  <2>1. TurnOK(r) /\ gone' = gone /\ req'[r].session = req[r].session /\ HelperOK(req[r].session)
        /\ req[r].session \in Sessions
    BY <1>4, <1>6, OnMoves, ShapeFacts DEF SetFuncs
  <2>2. helpers'[req[r].session].saveFunc = r
    BY <1>6, <2>1 DEF SetFuncs, SaveFunc, HelperOK, Helpers, TypesOK
  <2>3. req'[r].stage = "load" /\ req'[r].next = "ask"
    BY <1>6, Records DEF Becomes
  <2> QED
    BY <2>1, <2>2, <2>3 DEF TurnOK, Helper, Adding
<1>7. CASE LoadMessages(r) \/ AppendMessage(r) \/ GenerateResponse(r) \/ ReceiveAnswer(r)
  <2>1. TurnOK(r) /\ gone' = gone /\ stored' = stored /\ req'[r].session = req[r].session
        /\ req[r].session \in Sessions /\ Doing(r, req[r])
    BY <1>4, <1>7, OnMoves DEF LoadMessages, AppendMessage, GenerateResponse, ReceiveAnswer
  <2>2. helpers'[req[r].session].saveFunc = helpers[req[r].session].saveFunc
    <3>1. CASE AppendMessage(r)
      <4>1. HelperOK(req[r].session)
        BY <3>1, ShapeFacts DEF AppendMessage, Adding
      <4> QED
        BY <2>1, <3>1, <4>1 DEF AppendMessage, HelperOK, Helpers, TypesOK
    <3> QED
      BY <1>7, <3>1 DEF LoadMessages, GenerateResponse, ReceiveAnswer
  <2>3. /\ Past(req'[r]) => Past(req[r])
        /\ req'[r].stage \in {"ask", "asked"} \/ (req'[r].next = "reply" /\ req'[r].stage \in Adding)
             => req[r].stage \in {"ask", "asked"} \/ (req[r].next = "reply" /\ req[r].stage \in Adding)
        /\ req'[r].stage # "reply"
    <3>1. CASE LoadMessages(r)
      BY <3>1, Records DEF Becomes, LoadMessages, Past, Adding
    <3>2. CASE AppendMessage(r)
      BY <3>2, Records DEF Becomes, AppendMessage, Past, Adding
    <3>3. CASE GenerateResponse(r)
      BY <3>3, Records DEF Becomes, GenerateResponse, Past, Adding
    <3>4. CASE ReceiveAnswer(r)
      BY <2>1, <3>4, Records DEF Becomes, ReceiveAnswer, Past, Adding, Doing
    <3> QED
      BY <1>7, <3>1, <3>2, <3>3, <3>4
  <2> QED
    BY <2>1, <2>2, <2>3 DEF TurnOK, Helper
<1>8. CASE CallSaveFunc(r)
  <2> DEFINE s == req[r].session
             list == stored[s]
             m == Head(req[r].todo)
  <2>1. TurnOK(r) /\ gone' = gone /\ helpers' = helpers /\ req'[r].session = s /\ s \in Sessions
        /\ Doing(r, req[r]) /\ req[r].stage = "save" /\ req[r].stage \in Adding
    BY <1>4, <1>8, OnMoves, Saving
  <2>2. Becomes(r, IF Len(req[r].todo) = 1 THEN req[r].next ELSE "load",
                Tail(req[r].todo), req[r].next, req[r].seen)
    BY <1>8, Records
  <2>3. CASE req[r].next = "setFuncs"
    BY <2>1, <2>2, <2>3 DEF Becomes, TurnOK, Past
  <2>4. ASSUME Past(req[r]), m.of = r
        PROVE  stored'[s] = Append(list, m)
    BY <1>8, <2>1, <2>4, Saving, NoneAssumption DEF TurnOK
  <2>5. list \in Seq(Messages)
    BY <2>1 DEF TypesOK
  <2>6. CASE req[r].next = "ask"
    <3>1. req[r].todo = <<Question(r)>>
      BY <2>1, <2>6 DEF Doing, Adding
    <3>2. m = Question(r) /\ req'[r].stage = "ask" /\ req'[r].next = "ask"
      BY <2>2, <2>6, <3>1, Singles DEF Becomes
    <3>3. stored'[s] = Append(list, Question(r))
      BY <2>4, <2>6, <3>2 DEF Past, Question
    <3>4. Asked(r, stored'[s])
      <4>1. Len(stored'[s]) = Len(list) + 1 /\ stored'[s][Len(list) + 1] = Question(r) /\ Len(list) \in Nat
        BY <2>5, <3>3, Appended
      <4>2. stored'[s] # <<>>
        BY <4>1
      <4> QED
        BY <4>1, <4>2 DEF Asked
    <3> QED
      BY <2>1, <2>6, <3>2, <3>4 DEF TurnOK, Past, Helper
  <2>7. CASE req[r].next = "reply"
    <3>1. req[r].todo = <<Answer(r)>>
      BY <2>1, <2>7 DEF Doing, Adding
    <3>2. m = Answer(r) /\ req'[r].stage = "reply" /\ req'[r].next = "reply"
      BY <2>2, <2>7, <3>1, Singles DEF Becomes
    <3>3. stored'[s] = Append(list, Answer(r))
      BY <2>4, <2>7, <3>2 DEF Past, Answer
    <3>4. Asked(r, list)
      BY <2>1, <2>7 DEF TurnOK
    <3>5. Concluded(r, stored'[s])
      <4>1. /\ Len(stored'[s]) = Len(list) + 1 /\ stored'[s][Len(list) + 1] = Answer(r) /\ Len(list) \in Nat
            /\ \A i \in 1..Len(list) : stored'[s][i] = list[i]
        BY <2>5, <3>3, Appended
      <4>2. Len(list) \in 1..Len(list) /\ list[Len(list)] = Question(r)
        BY <2>5, <3>4, EmptySeq DEF Asked
      <4>3. PICK n \in Nat : n = Len(list)
        BY <4>1
      <4>4. Len(stored'[s]) = n + 1 /\ n > 0 /\ (n + 1) - 1 = n
        BY <4>1, <4>2, <4>3
      <4>5. stored'[s][n] = Question(r) /\ stored'[s][n + 1] = Answer(r)
        BY <4>1, <4>2, <4>3
      <4> QED
        BY <4>4, <4>5 DEF Concluded
    <3> QED
      BY <2>1, <2>7, <3>2, <3>5 DEF TurnOK, Past, Helper, Adding
  <2> QED
    BY <2>1, <2>3, <2>6, <2>7 DEF Doing, Adding
<1> QED
  BY <1>1, <1>2, <1>3, <1>5, <1>6, <1>7, <1>8 DEF Step

LEMMA ConcludedExchange ==
  ASSUME NEW S, NEW list \in Seq(S), NEW r, Concluded(r, list)
  PROVE  Exchange(r, list)
<1>1. PICK n \in Nat : n = Len(list)
  OBVIOUS
<1>2. n - 1 \in 1..n /\ n \in 1..n /\ (n - 1) + 1 = n
  BY <1>1 DEF Concluded
<1> QED
  BY <1>1, <1>2 DEF Concluded, Exchange

\* What was stored in turn stays.
LEMMA ExchangeStays ==
  ASSUME TypesOK, ShapesOK, Next, NEW r \in Requests, NEW s \in Sessions, Exchange(r, stored[s])
  PROVE  Exchange(r, stored'[s])
<1>1. CASE stored'[s] = stored[s]
  BY <1>1
<1>2. CASE stored'[s] # stored[s]
  <2>1. PICK x \in Requests : CallSaveFunc(x)
    BY <1>2 DEF Next, CreateChat, ContinueChat, Start, Disconnect, FailingCall, InsertSession, ReadHistory,
         GetOrCreateAIHelper, SetFuncs, LoadMessages, AppendMessage, GenerateResponse, ReceiveAnswer, ModelFails,
         Reply, Restart
  <2>2. stored'[s] = Append(stored[s], Head(req[x].todo))
    BY <1>2, <2>1, Saving
  <2>3. stored[s] \in Seq(Messages)
    BY DEF TypesOK
  <2>4. /\ Len(stored'[s]) = Len(stored[s]) + 1 /\ Len(stored[s]) \in Nat
        /\ \A i \in 1..Len(stored[s]) : stored'[s][i] = stored[s][i]
    BY <2>2, <2>3, Appended
  <2>5. PICK i \in 1..Len(stored[s]) :
          /\ i + 1 \in 1..Len(stored[s])
          /\ stored[s][i] = Question(r) /\ stored[s][i + 1] = Answer(r)
    BY DEF Exchange
  <2>6. i \in 1..Len(stored'[s]) /\ i + 1 \in 1..Len(stored'[s])
    BY <2>4, <2>5
  <2>7. stored'[s][i] = Question(r) /\ stored'[s][i + 1] = Answer(r)
    BY <2>4, <2>5
  <2> QED
    BY <2>6, <2>7 DEF Exchange
<1> QED
  BY <1>1, <1>2

LEMMA NextTurns ==
  ASSUME TypesOK, TypesOK', ShapesOK, OverlapsAreKnown, TurnsOK, Next
  PROVE  TurnsOK'
<1>1. ASSUME NEW r \in Requests, Step(r)
      PROVE  TurnsOK'
  <2>1. Moves(r)
    BY <1>1, StepMoves
  <2>2. ASSUME NEW x \in Requests, x \notin unsaved', Alone(x)'
        PROVE  TurnOK(x)'
    <3>1. CASE x = r
      BY <1>1, <2>2, <3>1, OwnTurn
    <3>2. CASE x # r
      <4>1. /\ Alone(x) /\ req'[x] = req[x] /\ (x \in gone' <=> x \in gone)
            /\ stored'[req[x].session] = stored[req[x].session] /\ Helper(x)' = Helper(x)
        BY <2>1, <2>2, <3>2, AloneKept
      <4>2. TurnOK(x)
        BY <2>1, <2>2, <4>1 DEF TurnsOK, Moves
      <4> QED
        BY <4>1, <4>2 DEF TurnOK
    <3> QED
      BY <3>1, <3>2
  <2>3. ASSUME NEW x \in Requests, x \notin unsaved', NEW s \in Sessions, <<x, s>> \in answered' \ crossed'
        PROVE  Exchange(x, stored'[s])
    <3>1. x \notin unsaved /\ <<x, s>> \notin crossed
      BY <2>1, <2>3 DEF Moves
    <3>2. Exchange(x, stored[s])
      <4>1. CASE <<x, s>> \in answered
        BY <2>3, <3>1, <4>1 DEF TurnsOK
      <4>2. CASE <<x, s>> \notin answered
        <5>1. Reply(r) /\ x = r /\ s = req[r].session
          <6>1. answered' = answered \/ Reply(r)
            BY <1>1 DEF Step, CreateChat, ContinueChat, Start, Disconnect, FailingCall, InsertSession,
               ReadHistory, GetOrCreateAIHelper, SetFuncs, LoadMessages, AppendMessage, CallSaveFunc, GenerateResponse,
               ReceiveAnswer, ModelFails
          <6> QED
            BY <2>3, <4>2, <6>1 DEF Reply
        <5>2. Alone(r) /\ req[r].stage = "reply"
          BY <3>1, <5>1 DEF Reply, Alone, Active
        <5>3. Concluded(r, stored[s])
          BY <3>1, <5>1, <5>2 DEF TurnsOK, TurnOK
        <5> QED
          BY <2>3, <5>1, <5>3, ConcludedExchange DEF TypesOK
      <4> QED
        BY <4>1, <4>2
    <3> QED
      BY <3>2, ExchangeStays
  <2> QED
    BY <2>2, <2>3 DEF TurnsOK
<1>2. CASE Restart
  <2>1. \A r \in Requests : ~Alone(r)'
    BY <1>2, RecordTypes DEF Restart, Alone, Active
  <2> QED
    BY <1>2, <2>1 DEF Restart, TurnsOK
<1> QED
  BY <1>1, <1>2 DEF Next, Step

-----------------------------------------------------------------------------
(* What the helper has of a session.                                       *)

LEMMA NoItems == ToSet(<<>>) = {}
BY DEF ToSet

LEMMA Items ==
  ASSUME NEW S, NEW list \in Seq(S)
  PROVE  /\ ToSet(list) \subseteq S
         /\ \A m : ToSet(Append(list, m)) = ToSet(list) \cup {m}
         /\ list # <<>> => ToSet(list) = ToSet(Tail(list)) \cup {Head(list)}
<1>1. ToSet(list) \subseteq S
  BY DEF ToSet
<1>2. ASSUME NEW m PROVE ToSet(Append(list, m)) = ToSet(list) \cup {m}
  BY Appended DEF ToSet
<1>3. ASSUME list # <<>> PROVE ToSet(list) = ToSet(Tail(list)) \cup {Head(list)}
  <2>1. Len(list) \in Nat \ {0} /\ DOMAIN list = 1..Len(list) /\ Head(list) = list[1]
    BY <1>3, EmptySeq
  <2>2. DOMAIN Tail(list) = 1..(Len(list) - 1) /\ \A i \in 1..(Len(list) - 1) : Tail(list)[i] = list[i + 1]
    BY <1>3, <2>1
  <2>3. \A i \in 1..Len(list) : i = 1 \/ (i - 1 \in 1..(Len(list) - 1) /\ Tail(list)[i - 1] = list[i])
    BY <2>1, <2>2
  <2>4. ToSet(list) \subseteq ToSet(Tail(list)) \cup {Head(list)}
    <3> SUFFICES ASSUME NEW i \in 1..Len(list) PROVE list[i] \in ToSet(Tail(list)) \cup {Head(list)}
      BY <2>1 DEF ToSet
    <3>1. CASE i = 1
      BY <2>1, <3>1
    <3>2. CASE i # 1
      BY <2>2, <2>3, <3>2 DEF ToSet
    <3> QED
      BY <3>1, <3>2
  <2>5. ToSet(Tail(list)) \cup {Head(list)} \subseteq ToSet(list)
    <3>1. \A i \in 1..(Len(list) - 1) : i + 1 \in 1..Len(list)
      BY <2>1
    <3> QED
      BY <2>1, <2>2, <3>1 DEF ToSet
  <2> QED
    BY <2>4, <2>5
<1> QED
  BY <1>1, <1>2, <1>3

LEMMA OwnMemory ==
  ASSUME TypesOK, TypesOK', ShapesOK, SessionsOK, OverlapsAreKnown, MemoriesOK,
         NEW r \in Requests, Step(r), Alone(r)'
  PROVE  MemoryOK(r)'
<1>1. CASE CreateChat(r) \/ ContinueChat(r)
  <2>1. PICK s \in Sessions, stage \in {"insertSession", "readHistory"} : Start(r, s, stage)
    BY <1>1 DEF CreateChat, ContinueChat, TypesOK
  <2>2. Begins(r) /\ req'[r].stage = stage
    BY <2>1, StartMoves
  <2> QED
    BY <2>2 DEF Begins, MemoryOK, Adding
<1>2. CASE FailingCall(r) \/ ModelFails(r) \/ Reply(r)
  BY <1>2, EndMoves, RecordTypes DEF Ends, Alone, Active
<1> DEFINE q == req[r]
           s == req[r].session
           list == stored[s]
           memory == helpers[s].messages
<1>3. ASSUME GoesOn(r)
      PROVE  /\ Alone(r) /\ MemoryOK(r) /\ req'[r].session = s /\ s \in Sessions /\ Doing(r, q)
             /\ q.todo \in Seq(Messages) /\ list \in Seq(Messages)
  BY <1>3, AloneWas, ShapeFacts DEF MemoriesOK, GoesOn, TypesOK, Progress
<1>4. CASE Disconnect(r)
  <2>1. MemoryOK(r) /\ stored' = stored /\ helpers' = helpers /\ req' = req
    BY <1>3, <1>4, OnMoves DEF Disconnect
  <2> QED
    BY <2>1 DEF MemoryOK, Helper
<1>5. CASE InsertSession(r)
  <2>1. s \in Sessions /\ stored' = stored /\ q.next = "none" /\ list = <<>>
    BY <1>3, <1>5, OnMoves DEF InsertSession, SessionsOK, Alone, Doing, Adding
  <2>2. req'[r].stage = "getHelper" /\ req'[r].next = "none" /\ req'[r].session = s
    BY <1>5, <2>1, Records DEF Becomes
  <2> QED
    BY <2>1, <2>2, NoItems DEF MemoryOK, Adding
<1>6. CASE ReadHistory(r)
  <2>1. s \in Sessions /\ stored' = stored /\ q.next = "none"
    BY <1>3, <1>6, OnMoves DEF ReadHistory, Doing, Adding
  <2>2. req'[r].stage = "getHelper" /\ req'[r].next = "none" /\ req'[r].session = s /\ req'[r].todo = list
    BY <1>6, <2>1, Records DEF Becomes
  <2> QED
    BY <2>1, <2>2 DEF MemoryOK, Adding
<1>7. CASE GetOrCreateAIHelper(r)
  <2>1. s \in Sessions /\ stored' = stored /\ ToSet(list) \subseteq ToSet(q.todo)
    BY <1>3, <1>7, OnMoves DEF GetOrCreateAIHelper, MemoryOK
  <2>2. req'[r].stage = (IF q.todo = <<>> THEN "setFuncs" ELSE "load") /\ req'[r].next = "setFuncs"
        /\ req'[r].session = s /\ req'[r].todo = q.todo
    BY <1>7, Records DEF Becomes
  <2>3. CASE q.todo = <<>>
    <3>1. ToSet(list) = {}
      BY <2>1, <2>3, NoItems
    <3> QED
      BY <2>1, <2>2, <2>3, <3>1 DEF MemoryOK, Adding
  <2>4. CASE q.todo # <<>>
    BY <2>1, <2>2, <2>4 DEF MemoryOK, Adding
  <2> QED
    BY <2>3, <2>4
<1>8. CASE SetFuncs(r)
  <2>1. s \in Sessions /\ stored' = stored /\ ToSet(list) \subseteq memory.all /\ HelperOK(s)
    BY <1>3, <1>8, OnMoves, ShapeFacts DEF SetFuncs, MemoryOK, Helper
  <2>2. helpers'[s].messages = memory
    BY <1>8, <2>1 DEF SetFuncs, HelperOK, Helpers, TypesOK
  <2>3. req'[r].stage = "load" /\ req'[r].next = "ask" /\ req'[r].session = s
    BY <1>8, Records DEF Becomes
  <2> QED
    BY <2>1, <2>2, <2>3 DEF MemoryOK, Adding, Helper
<1>9. CASE LoadMessages(r)
  <2>1. MemoryOK(r) /\ q.stage = "load" /\ s \in Sessions /\ stored' = stored /\ helpers' = helpers
    BY <1>3, <1>9, OnMoves DEF LoadMessages
  <2>2. /\ req'[r].stage = "append" /\ req'[r].next = q.next /\ req'[r].session = s
        /\ req'[r].todo = q.todo /\ req'[r].seen = memory
    BY <1>9, Records DEF Becomes, Helper
  <2> QED
    BY <2>1, <2>2 DEF MemoryOK, Adding, Helper
<1>10. CASE AppendMessage(r)
  <2> DEFINE m == Head(q.todo)
             all == memory.all \cup {m}
  <2>1. MemoryOK(r) /\ q.stage = "append" /\ s \in Sessions /\ stored' = stored /\ HelperOK(s)
    BY <1>3, <1>10, OnMoves, ShapeFacts DEF AppendMessage, Adding
  <2>2. /\ req'[r].stage = "save" /\ req'[r].next = q.next /\ req'[r].session = s /\ req'[r].todo = q.todo
    BY <1>10, Records DEF Becomes
  <2>3. q.seen = memory
    BY <2>1 DEF MemoryOK, Helper
  <2>4. helpers'[s].messages = [all |-> all, last |-> m]
    BY <1>10, <2>1, <2>3 DEF AppendMessage, HelperOK, Helpers, TypesOK
  <2>5. helpers'[s].messages.all = all /\ helpers'[s].messages.last = m
    BY <2>4
  <2>6. /\ q.next = "setFuncs" => ToSet(list) \subseteq memory.all \cup ToSet(q.todo)
        /\ q.next = "ask" => ToSet(list) \subseteq memory.all
    BY <2>1 DEF MemoryOK, Adding, Helper
  <2> QED
    BY <2>1, <2>2, <2>5, <2>6 DEF MemoryOK, Adding, Helper
<1>11. CASE CallSaveFunc(r)
  <2> DEFINE m == Head(q.todo)
  <2>1. /\ Alone(r) /\ MemoryOK(r) /\ s \in Sessions /\ Doing(r, q) /\ q.stage = "save" /\ q.stage \in Adding
        /\ helpers' = helpers /\ q.todo \in Seq(Messages) /\ q.todo # <<>> /\ list \in Seq(Messages)
    BY <1>3, <1>11, OnMoves, Saving
  <2>2. /\ req'[r].stage = (IF Len(q.todo) = 1 THEN q.next ELSE "load") /\ req'[r].next = q.next
        /\ req'[r].session = s /\ req'[r].todo = Tail(q.todo)
    BY <1>11, Records DEF Becomes
  <2>3. m \in memory.all /\ memory.last = m
    BY <2>1 DEF MemoryOK, Helper
  <2>4. CASE q.next = "setFuncs"
    <3>1. stored'[s] = list
      <4>1. HelperOK(s)
        BY <2>1, ShapeFacts
      <4>2. Helper(r).saveFunc = None \/ Helper(r).saveFunc \in gone
        BY <2>1, <2>4, <4>1, OwnCallback DEF Past
      <4> QED
        BY <1>11, <2>1, <4>2, Saving
    <3>2. ToSet(list) \subseteq memory.all \cup ToSet(q.todo)
      BY <2>1, <2>4 DEF MemoryOK, Helper
    <3>3. ToSet(q.todo) = ToSet(Tail(q.todo)) \cup {m}
      BY <2>1, Items
    <3>4. ToSet(list) \subseteq memory.all \cup ToSet(Tail(q.todo))
      BY <2>3, <3>2, <3>3
    <3>5. CASE Len(q.todo) = 1
      <4>1. ToSet(Tail(q.todo)) = {}
        BY <2>1, <3>5, Tails, NoItems
      <4> QED
        BY <2>1, <2>2, <2>4, <3>1, <3>4, <3>5, <4>1 DEF MemoryOK, Adding, Helper
    <3>6. CASE Len(q.todo) # 1
      BY <2>1, <2>2, <2>4, <3>1, <3>4, <3>6 DEF MemoryOK, Adding, Helper
    <3> QED
      BY <3>5, <3>6
  <2>5. CASE q.next = "ask"
    <3>1. q.todo = <<Question(r)>>
      BY <2>1, <2>5 DEF Doing, Adding
    <3>2. m = Question(r) /\ req'[r].stage = "ask"
      BY <2>2, <2>5, <3>1, Singles
    <3>3. stored'[s] = list \/ stored'[s] = Append(list, m)
      BY <1>11, Saving
    <3>4. ToSet(list) \subseteq memory.all
      BY <2>1, <2>5 DEF MemoryOK, Helper
    <3>5. ToSet(stored'[s]) \subseteq memory.all
      <4>1. ToSet(Append(list, m)) = ToSet(list) \cup {m}
        BY <2>1, Items
      <4> QED
        BY <2>3, <3>3, <3>4, <4>1
    <3> QED
      BY <2>1, <2>2, <2>3, <3>2, <3>5 DEF MemoryOK, Adding, Helper
  <2>6. CASE q.next = "reply"
    <3>1. q.todo = <<Answer(r)>>
      BY <2>1, <2>6 DEF Doing, Adding
    <3>2. req'[r].stage = "reply"
      BY <2>2, <2>6, <3>1, Singles
    <3> QED
      BY <3>2 DEF MemoryOK, Adding
  <2> QED
    BY <2>1, <2>4, <2>5, <2>6 DEF Doing, Adding
<1>12. CASE GenerateResponse(r)
  <2>1. MemoryOK(r) /\ q.stage = "ask" /\ stored' = stored
    BY <1>3, <1>12, OnMoves DEF GenerateResponse
  <2>2. req'[r].stage = "asked" /\ req'[r].session = s /\ req'[r].seen = memory
    BY <1>12, Records DEF Becomes, Helper
  <2> QED
    BY <2>1, <2>2 DEF MemoryOK, Adding, Helper
<1>13. CASE ReceiveAnswer(r)
  <2>1. req'[r].stage = "load" /\ req'[r].next = "reply"
    BY <1>13, Records DEF Becomes
  <2> QED
    BY <2>1 DEF MemoryOK, Adding
<1> QED
  BY <1>1, <1>2, <1>4, <1>5, <1>6, <1>7, <1>8, <1>9, <1>10, <1>11, <1>12, <1>13 DEF Step

LEMMA NextMemories ==
  ASSUME TypesOK, TypesOK', ShapesOK, SessionsOK, OverlapsAreKnown, MemoriesOK, Next
  PROVE  MemoriesOK'
<1>1. ASSUME NEW r \in Requests, Step(r), NEW x \in Requests, Alone(x)'
      PROVE  MemoryOK(x)'
  <2>1. CASE x = r
    BY <1>1, <2>1, OwnMemory
  <2>2. CASE x # r
    <3>1. /\ Alone(x) /\ req'[x] = req[x]
          /\ stored'[req[x].session] = stored[req[x].session] /\ Helper(x)' = Helper(x)
      BY <1>1, <2>2, StepMoves, AloneKept
    <3> QED
      BY <3>1 DEF MemoriesOK, MemoryOK
  <2> QED
    BY <2>1, <2>2
<1>2. CASE Restart
  BY <1>2, RecordTypes DEF Restart, MemoriesOK, Alone, Active
<1> QED
  BY <1>1, <1>2 DEF Next, Step, MemoriesOK

-----------------------------------------------------------------------------
(* The history that is added again.                                        *)

LEMMA HistoryGrows ==
  ASSUME TypesOK, ShapesOK, Next, NEW s \in Sessions
  PROVE  ToSet(stored[s]) \subseteq ToSet(stored'[s])
<1>1. CASE stored'[s] # stored[s]
  <2>1. PICK r \in Requests : CallSaveFunc(r)
    BY <1>1 DEF Next, CreateChat, ContinueChat, Start, Disconnect, FailingCall, InsertSession, ReadHistory,
         GetOrCreateAIHelper, SetFuncs, LoadMessages, AppendMessage, GenerateResponse, ReceiveAnswer, ModelFails,
         Reply, Restart
  <2>2. stored'[s] = Append(stored[s], Head(req[r].todo)) /\ stored[s] \in Seq(Messages)
    BY <1>1, <2>1, Saving DEF TypesOK
  <2> QED
    BY <2>2, Items
<1> QED
  BY <1>1

LEMMA OwnHistory ==
  ASSUME TypesOK, ShapesOK, HistoriesOK, NEW r \in Requests, Step(r), Active(r)', Earlier(req'[r])
  PROVE  ToSet(req'[r].todo) \subseteq ToSet(stored'[req'[r].session])
<1>1. Next
  BY DEF Next, Step
<1>2. ASSUME GoesOn(r)
      PROVE  /\ req'[r].session = req[r].session /\ req[r].session \in Sessions
             /\ Earlier(req[r]) => ToSet(req[r].todo) \subseteq ToSet(stored'[req'[r].session])
  BY <1>1, <1>2, ShapeFacts, HistoryGrows DEF GoesOn, HistoriesOK
<1>3. CASE CreateChat(r) \/ ContinueChat(r)
  BY <1>3, StartMoves, NoItems DEF CreateChat, ContinueChat, TypesOK, Begins
<1>4. CASE FailingCall(r) \/ ModelFails(r) \/ Reply(r)
  BY <1>4, EndMoves, RecordTypes DEF Ends, Active
<1>5. CASE Disconnect(r) \/ InsertSession(r) \/ GetOrCreateAIHelper(r) \/ LoadMessages(r) \/ AppendMessage(r)
           \/ GenerateResponse(r)
  <2>1. req'[r].todo = req[r].todo
    BY <1>5, Records DEF Becomes
  <2>2. GetOrCreateAIHelper(r) => req[r].next = "none"
    BY ShapeFacts DEF GetOrCreateAIHelper, Active, Doing, Adding
  <2>3. Earlier(req[r])
    BY <1>5, <2>2, Records DEF Becomes, Earlier
  <2> QED
    BY <1>2, <1>5, <2>1, <2>3, OnMoves
<1>6. CASE ReadHistory(r)
  <2>1. req'[r].todo = stored[req[r].session]
    BY <1>6, Records DEF Becomes
  <2>2. stored' = stored
    BY <1>6 DEF ReadHistory
  <2> QED
    BY <1>2, <1>6, <2>1, <2>2, OnMoves
<1>7. CASE SetFuncs(r) \/ ReceiveAnswer(r)
  BY <1>7, Records DEF Becomes, Earlier
<1>8. CASE CallSaveFunc(r)
  <2>1. req'[r].todo = Tail(req[r].todo) /\ Earlier(req[r])
    BY <1>8, Records DEF Becomes, Earlier
  <2>2. req[r].todo \in Seq(Messages) /\ req[r].todo # <<>>
    BY <1>8, Saving
  <2>3. ToSet(Tail(req[r].todo)) \subseteq ToSet(req[r].todo)
    BY <2>2, Items
  <2> QED
    BY <1>2, <1>8, <2>1, <2>3, OnMoves
<1> QED
  BY <1>3, <1>4, <1>5, <1>6, <1>7, <1>8 DEF Step

LEMMA NextHistories ==
  ASSUME TypesOK, ShapesOK, HistoriesOK, Next
  PROVE  HistoriesOK'
<1>1. ASSUME NEW r \in Requests, Step(r), NEW x \in Requests, Active(x)', Earlier(req'[x])
      PROVE  ToSet(req'[x].todo) \subseteq ToSet(stored'[req'[x].session])
  <2>1. CASE x = r
    BY <1>1, <2>1, OwnHistory
  <2>2. CASE x # r
    <3>1. req'[x] = req[x]
      BY <1>1, <2>2, StepMoves DEF Moves
    <3>2. Active(x) /\ req[x].session \in Sessions
      BY <1>1, <3>1, ShapeFacts DEF Active
    <3> QED
      BY <1>1, <3>1, <3>2, HistoryGrows DEF HistoriesOK
  <2> QED
    BY <2>1, <2>2
<1>2. CASE Restart
  BY <1>2, RecordTypes DEF Restart, HistoriesOK, Active
<1> QED
  BY <1>1, <1>2 DEF Next, Step, HistoriesOK

-----------------------------------------------------------------------------
(* The theorems.                                                           *)

LEMMA InitIInv == Init => IInv
<1> SUFFICES ASSUME Init PROVE IInv
  OBVIOUS
<1>1. \A r \in Requests : req[r] = NotStarted /\ ~Active(r)
  BY RecordTypes DEF Init, Active
<1>2. TypesOK
  BY RecordTypes DEF Init, TypesOK
<1>3. ShapesOK
  BY <1>1 DEF Init, ShapesOK, RequestOK
<1>4. SessionsOK /\ OverlapsAreKnown /\ TurnsOK /\ MemoriesOK /\ HistoriesOK
  BY <1>1 DEF Init, SessionsOK, OverlapsAreKnown, ActiveOn, TurnsOK, MemoriesOK, Alone, HistoriesOK
<1>5. \A s \in Sessions : DOMAIN stored[s] = {}
  BY DEF Init
<1>6. OriginsOK /\ StoredOnce
  BY <1>1, <1>5, RecordTypes DEF OriginsOK, StoredOnce, Quiet
<1> QED
  BY <1>2, <1>3, <1>4, <1>6 DEF IInv

LEMMA NextIInv == IInv /\ [Next]_vars => IInv'
<1>1. ASSUME IInv, Next PROVE IInv'
  <2>1. TypesOK'
    BY <1>1, NextTypes DEF IInv
  <2> QED
    BY <1>1, <2>1, NextShapes, NextSessions, NextOverlaps, NextOrigins, NextOnce, NextTurns, NextMemories,
       NextHistories DEF IInv
<1>2. ASSUME IInv, UNCHANGED vars PROVE IInv'
  <2>1. (TypesOK /\ ShapesOK /\ SessionsOK /\ OverlapsAreKnown)'
    BY <1>2 DEF IInv, vars, TypesOK, ShapesOK, RequestOK, HelperOK, SessionsOK, OverlapsAreKnown, ActiveOn, Active
  <2>2. (OriginsOK /\ StoredOnce)'
    BY <1>2 DEF IInv, vars, OriginsOK, Saved, StoredOnce, Quiet, Positions
  <2>3. (TurnsOK /\ MemoriesOK /\ HistoriesOK)'
    BY <1>2 DEF IInv, vars, TurnsOK, TurnOK, MemoriesOK, MemoryOK, HistoriesOK, Alone, Active, Helper
  <2> QED
    BY <2>1, <2>2, <2>3 DEF IInv
<1> QED
  BY <1>1, <1>2

\* The invariant holds in every state: the shape of each request and of its session's helper, where the
\* messages come from, and, for requests that overlap with no other, what is stored and what the helper has.
THEOREM SessionInvariant == Spec => []IInv
<1> QED
  BY InitIInv, NextIInv, PTL DEF Spec

\* No message is stored twice in a session whose requests never overlapped, although each of them adds the
\* history again: by then the callback is of a request that has ended (service/chat.go:107, ai/helper.go).
THEOREM MessagesStoredOnce == Spec => []StoredOnce
<1>1. IInv => StoredOnce
  BY DEF IInv
<1> QED
  BY <1>1, SessionInvariant, PTL

\* An answer that a client has got is stored behind its question, unless requests overlapped, a save failed
\* or the client left before.
THEOREM AnswersAreStored == Spec => []AnsweredIsStored
<1>1. IInv => AnsweredIsStored
  <2> SUFFICES ASSUME IInv, NEW r \in Requests \ unsaved, NEW s \in Sessions, <<r, s>> \in answered \ crossed
               PROVE  \E i \in Positions(s, Question(r)) : i + 1 \in Positions(s, Answer(r))
    BY DEF AnsweredIsStored
  <2>1. Exchange(r, stored[s])
    BY DEF IInv, TurnsOK
  <2>2. DOMAIN stored[s] = 1..Len(stored[s])
    BY DEF IInv, TypesOK
  <2> QED
    BY <2>1, <2>2 DEF Exchange, Positions
<1> QED
  BY <1>1, SessionInvariant, PTL

\* The model is sent all that the session has stored, with the question at the end, by a request that overlaps
\* with no other.
THEOREM PromptsAreComplete == Spec => []PromptIsComplete
<1>1. IInv => PromptIsComplete
  <2> SUFFICES ASSUME IInv, NEW r \in Requests, req[r].stage = "asked", ~Crossed(r)
               PROVE  /\ req[r].seen.last = Question(r)
                      /\ ToSet(stored[req[r].session]) \subseteq req[r].seen.all
    BY DEF PromptIsComplete
  <2>1. Active(r) /\ req[r].session \in Sessions
    BY ShapeFacts DEF IInv, Active
  <2>2. Alone(r)
    BY <2>1 DEF Alone, Crossed
  <2> QED
    BY <2>2 DEF IInv, MemoriesOK, MemoryOK
<1> QED
  BY <1>1, SessionInvariant, PTL

-----------------------------------------------------------------------------
(* Each session implements a conversation.                                 *)

Mixed(s) == {r \in Requests : <<r, s>> \in crossed}
Delivered(s) == {r \in Requests : <<r, s>> \in answered}

\* What a request that overlaps with no other adds: its question, once, and behind it its answer.
LEMMA AddsInTurn ==
  ASSUME IInv, NEW r \in Requests, CallSaveFunc(r), NEW s \in Sessions, s = req[r].session, stored'[s] # stored[s]
  PROVE  Conversation(s)!Next
<1> USE DEF IInv
<1> DEFINE m == Head(req[r].todo)
           list == stored[s]
<1>1. /\ Active(r) /\ Doing(r, req[r]) /\ req[r].stage = "save" /\ m \in Messages /\ list \in Seq(Messages)
      /\ stored'[s] = Append(list, m) /\ Helper(r).saveFunc # None /\ Helper(r).saveFunc \notin gone
      /\ HelperOK(s)
  BY Saving, ShapeFacts DEF TypesOK
<1>2. ActiveOn(s)' = ActiveOn(s) /\ UNCHANGED <<crossed, unsaved, answered>>
  <2>1. UNCHANGED <<crossed, unsaved, answered>>
    BY <1>1 DEF CallSaveFunc
  <2>2. Moves(r) /\ GoesOn(r)
    BY OnMoves
  <2> QED
    BY <2>1, <2>2 DEF Moves, GoesOn, ActiveOn, Active
<1>3. Conversation(s)!Add(m)
  BY <1>1, <1>2 DEF Conversation!Add
<1>4. Conversation(s)!Said = ToSet(list)
  BY DEF Conversation!Said, ToSet
<1>5. CASE Alone(r)
  <2>1. Helper(r).saveFunc = r /\ Past(req[r])
    BY <1>1, <1>5, OwnCallback
  <2>2. Conversation(s)!Alone(r)
    BY <1>1, <1>5 DEF Conversation!Alone, Alone, OverlapsAreKnown, ActiveOn
  <2>3. \A k : ~Saved(k) => k \notin ToSet(list)
    BY DEF OriginsOK, ToSet
  <2>4. CASE req[r].next = "ask"
    <3>1. m = Question(r)
      BY <1>1, <2>4, Singles DEF Doing, Adding
    <3>2. ~Saved(Question(r)) /\ ~Saved(Answer(r))
      BY <1>1, <2>4 DEF Saved, Question, Answer
    <3>3. Conversation(s)!Question(r) = Question(r) /\ Conversation(s)!Answer(r) = Answer(r)
      BY DEF Conversation!Question, Conversation!Answer, Question, Answer
    <3>4. Conversation(s)!Ask(r)
      BY <1>3, <1>4, <2>2, <2>3, <3>1, <3>2, <3>3 DEF Conversation!Ask
    <3> QED
      BY <3>4 DEF Conversation!Next
  <2>5. CASE req[r].next = "reply"
    <3>1. m = Answer(r)
      BY <1>1, <2>5, Singles DEF Doing, Adding
    <3>2. ~Saved(Answer(r))
      BY <1>1, <2>5 DEF Saved, Answer
    <3>3. Conversation(s)!Question(r) = Question(r) /\ Conversation(s)!Answer(r) = Answer(r)
      BY DEF Conversation!Question, Conversation!Answer, Question, Answer
    <3>4. r \in unsaved \/ Asked(r, list)
      BY <1>1, <1>5, <2>5 DEF TurnsOK, TurnOK, Adding
    <3>5. Conversation(s)!Respond(r)
      BY <1>3, <1>4, <2>2, <2>3, <3>1, <3>2, <3>3, <3>4 DEF Conversation!Respond, Conversation!Last, Asked
    <3> QED
      BY <3>5 DEF Conversation!Next
  <2> QED
    BY <2>1, <2>4, <2>5 DEF Past
<1>6. CASE ~Alone(r)
  <2>1. r \in ActiveOn(s) \cap Mixed(s)
    BY <1>1, <1>6 DEF Alone, ActiveOn, Mixed
  <2>2. m \in ToSet(list) \cup {Question(r), Answer(r)}
    <3>1. CASE Earlier(req[r])
      <4>1. m \in ToSet(req[r].todo)
        BY Saving, Items
      <4> QED
        BY <1>1, <3>1, <4>1 DEF HistoriesOK
    <3>2. CASE Past(req[r])
      BY <1>1, <3>2, Singles DEF Past, Doing, Adding
    <3> QED
      BY <1>1, <3>1, <3>2 DEF Earlier, Past, Doing, Adding
  <2>3. Conversation(s)!Interrupt(r)
    BY <1>3, <1>4, <2>1, <2>2 DEF Conversation!Interrupt, Conversation!Question, Conversation!Answer, Question,
       Answer, Mixed
  <2> QED
    BY <2>3 DEF Conversation!Next
<1> QED
  BY <1>5, <1>6

\* A request comes to a session: nothing of it has been added anywhere.
LEMMA Comes ==
  ASSUME IInv, NEW r \in Requests, NEW t \in Sessions, NEW stage \in {"insertSession", "readHistory"},
         Start(r, t, stage), NEW s \in Sessions
  PROVE  [Conversation(s)!Next]_(Conversation(s)!vars)
<1> USE DEF IInv
<1>1. Moves(r) /\ Begins(r) /\ req'[r].session = t
  BY StartMoves
<1>2. /\ r \notin ActiveOn(s)
      /\ ActiveOn(s)' = IF s = t THEN ActiveOn(s) \cup {r} ELSE ActiveOn(s)
      /\ Mixed(s)' = IF s = t /\ ActiveOn(s) # {} THEN Mixed(s) \cup ActiveOn(s) \cup {r} ELSE Mixed(s)
      /\ UNCHANGED <<stored, unsaved, answered>>
  <2>1. r \notin ActiveOn(s) /\ UNCHANGED <<stored, unsaved, answered>>
    BY <1>1, RecordTypes DEF Start, ActiveOn, Active
  <2>2. ActiveOn(s)' = IF s = t THEN ActiveOn(s) \cup {r} ELSE ActiveOn(s)
    BY <1>1, <2>1 DEF Moves, Begins, ActiveOn, Active
  <2>3. crossed' = crossed \cup (IF ActiveOn(t) = {} THEN {} ELSE {<<x, t>> : x \in ActiveOn(t) \cup {r}})
    BY DEF Start
  <2>4. Mixed(s)' = IF s = t /\ ActiveOn(s) # {} THEN Mixed(s) \cup ActiveOn(s) \cup {r} ELSE Mixed(s)
    BY <2>3 DEF Mixed, ActiveOn
  <2> QED
    BY <2>1, <2>2, <2>4
<1>3. CASE s # t
  BY <1>2, <1>3 DEF Conversation!vars, Mixed, Delivered
<1>4. CASE s = t
  <2>1. ~Saved(Question(r)) /\ ~Saved(Answer(r))
    BY RecordTypes DEF Start, Saved, Question, Answer
  <2>2. Question(r) \notin Conversation(s)!Said /\ Answer(r) \notin Conversation(s)!Said
    BY <2>1 DEF Conversation!Said, OriginsOK
  <2>3. Conversation(s)!Come(r)
    BY <1>2, <1>4, <2>2 DEF Conversation!Come, Conversation!Question, Conversation!Answer, Question, Answer, Mixed,
       Delivered
  <2> QED
    BY <2>3 DEF Conversation!Next
<1> QED
  BY <1>3, <1>4

\* A request leaves its session, with its answer or without.
LEMMA Goes ==
  ASSUME IInv, NEW r \in Requests, FailingCall(r) \/ ModelFails(r) \/ Reply(r), NEW s \in Sessions
  PROVE  [Conversation(s)!Next]_(Conversation(s)!vars)
<1> USE DEF IInv
<1>1. Moves(r) /\ Ends(r) /\ ~Active(r)'
  BY EndMoves, RecordTypes DEF Ends, Active
<1>2. ActiveOn(s)' = ActiveOn(s) \ {r} /\ UNCHANGED <<stored, crossed, unsaved>>
  BY <1>1 DEF Moves, Ends, ActiveOn, Active
<1>3. CASE answered' = answered
  BY <1>2, <1>3 DEF Conversation!Leave, Conversation!Next, Mixed, Delivered
<1>4. CASE answered' # answered
  <2>1. Reply(r) /\ answered' = answered \cup {<<r, req[r].session>>}
    BY <1>4 DEF FailingCall, ModelFails, Reply
  <2>2. CASE s # req[r].session
    <3>1. Delivered(s)' = Delivered(s) /\ ActiveOn(s)' = ActiveOn(s)
      BY <1>2, <2>1, <2>2 DEF Delivered, ActiveOn
    <3> QED
      BY <1>2, <3>1 DEF Conversation!vars, Mixed, Delivered
  <2>3. CASE s = req[r].session
    <3>1. Delivered(s)' = Delivered(s) \cup {r} /\ r \in ActiveOn(s) /\ req[r].stage = "reply"
      BY <1>1, <2>1, <2>3 DEF Delivered, ActiveOn, Ends, Reply
    <3>2. r \in Mixed(s) \cup unsaved \/ Concluded(r, stored[s])
      BY <2>3, <3>1 DEF TurnsOK, TurnOK, Alone, ActiveOn, Mixed
    <3>3. Conversation(s)!Deliver(r)
      BY <1>2, <3>1, <3>2 DEF Conversation!Deliver, Conversation!Question, Conversation!Answer, Conversation!Last,
         Question, Answer, Concluded, Mixed, Delivered
    <3> QED
      BY <3>3 DEF Conversation!Next
  <2> QED
    BY <2>2, <2>3
<1> QED
  BY <1>3, <1>4

\* A step of a request under way adds a message, loses one, or is not seen.
LEMMA TalksOn ==
  ASSUME IInv, NEW r \in Requests, NEW s \in Sessions,
         \/ Disconnect(r) \/ InsertSession(r) \/ ReadHistory(r) \/ GetOrCreateAIHelper(r) \/ SetFuncs(r)
         \/ LoadMessages(r) \/ AppendMessage(r) \/ CallSaveFunc(r) \/ GenerateResponse(r) \/ ReceiveAnswer(r)
  PROVE  [Conversation(s)!Next]_(Conversation(s)!vars)
<1> USE DEF IInv
<1>1. Moves(r) /\ GoesOn(r)
  BY OnMoves
<1>2. ActiveOn(s)' = ActiveOn(s) /\ unsaved \subseteq unsaved' /\ UNCHANGED <<crossed, answered>>
  BY <1>1 DEF Moves, GoesOn, ActiveOn, Active
<1>3. CASE stored'[s] = stored[s]
  BY <1>2, <1>3 DEF Conversation!Lose, Conversation!Next, Mixed, Delivered
<1>4. CASE stored'[s] # stored[s]
  <2>1. CallSaveFunc(r)
    BY <1>4 DEF Disconnect, InsertSession, ReadHistory, GetOrCreateAIHelper, SetFuncs, LoadMessages, AppendMessage,
       GenerateResponse, ReceiveAnswer
  <2>2. s = req[r].session
    BY <1>4, <2>1, Saving
  <2> QED
    BY <1>4, <2>1, <2>2, AddsInTurn
<1> QED
  BY <1>3, <1>4

LEMMA StartsEmpty ==
  ASSUME Init, NEW s \in Sessions
  PROVE  Conversation(s)!Init
<1>1. ActiveOn(s) = {}
  BY RecordTypes DEF Init, ActiveOn, Active
<1> QED
  BY <1>1 DEF Init, Conversation!Init

LEMMA StepConverses ==
  ASSUME IInv, [Next]_vars, NEW s \in Sessions
  PROVE  [Conversation(s)!Next]_(Conversation(s)!vars)
<1>1. ASSUME NEW r \in Requests, Step(r)
      PROVE  [Conversation(s)!Next]_(Conversation(s)!vars)
  <2>1. CASE CreateChat(r) \/ ContinueChat(r)
    <3>1. PICK t \in Sessions, stage \in {"insertSession", "readHistory"} : Start(r, t, stage)
      BY <2>1 DEF CreateChat, ContinueChat, IInv, TypesOK
    <3> QED
      BY <3>1, Comes
  <2> QED
    BY <1>1, <2>1, Goes, TalksOn DEF Step
<1>2. CASE Restart
  <2>1. ActiveOn(s)' \subseteq ActiveOn(s)
    BY <1>2, RecordTypes DEF Restart, ActiveOn, Active
  <2> QED
    BY <1>2, <2>1 DEF Restart, Conversation!Leave, Conversation!Next
<1>3. CASE UNCHANGED vars
  BY <1>3 DEF vars, Conversation!vars, ActiveOn, Active
<1> QED
  BY <1>1, <1>2, <1>3 DEF Next, Step

\* Each session is a conversation of its own, whatever overlaps, fails or is restarted: its history only
\* grows, by what its own requests add, and a request that overlaps with no other adds its question once
\* and right behind it its answer once, before its client gets the answer (service/chat.go, ai/helper.go).
THEOREM SessionsAreConversations == Spec => ImplementsConversations
<1>1. Init => \A s \in Sessions : Conversation(s)!Init
  BY StartsEmpty
<1>2. IInv /\ [Next]_vars => [\A s \in Sessions : [Conversation(s)!Next]_(Conversation(s)!vars)]_vars
  BY StepConverses
<1> QED
  BY <1>1, <1>2, SessionInvariant, PTL DEF Spec, ImplementsConversations

\* The same, as the specification of each conversation.
THEOREM EachConversation == Spec => \A s \in Sessions : Conversation(s)!Spec
<1> SUFFICES ASSUME NEW s \in Sessions PROVE Spec => Conversation(s)!Spec
  OBVIOUS
<1>1. Init => Conversation(s)!Init
  BY StartsEmpty
<1>2. IInv /\ [Next]_vars => [Conversation(s)!Next]_(Conversation(s)!vars)
  BY StepConverses
<1> QED
  BY <1>1, <1>2, SessionInvariant, PTL DEF Spec, Conversation!Spec
=============================================================================
