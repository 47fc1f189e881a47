---------------------------- MODULE ChatSession ----------------------------
(***************************************************************************)
(* Chat sessions: service/chat.go, ai/helper.go and ai/manager.go.  A      *)
(* session has one helper in memory, shared by all requests on it, which   *)
(* keeps the messages and a save callback that closes over the context of  *)
(* the request that set it: net/http cancels that context when the request *)
(* ends or its client goes, and a save under a cancelled context fails,    *)
(* unnoticed.  The helper's fields are read and written without its lock.  *)
(* What AddMessage publishes goes to the queue of FolderCache.             *)
(***************************************************************************)
EXTENDS Naturals, Sequences, SequencesExt, FiniteSets

CONSTANTS
  Requests,     \* chat requests of one user, each made at most once
  Sessions,
  None,
  MaxAtOnce,    \* bound on the requests under way at a time
  MaxHistory,   \* bound on the messages stored when a request begins
  MaxFaults, MaxRestarts

ASSUME NoneAssumption == None \notin Requests

VARIABLES
  opened,       \* sessions with a row
  stored,       \* stored[s]: rows of chat_messages of s, by created_at
  helpers,      \* helpers[s]: the session's AIHelper, None if there is none; of its messages,
                \* which repeat the history, only the set and the last
  req,          \* req[r]: how far request r has come
  gone,         \* requests whose context is cancelled
  faults, restarts,
  crossed,      \* history: requests that overlapped with another on their session, with it
  unsaved,      \* history: requests that lost a message to a failing save or a lost client
  answered      \* history: requests that ended with an answer, with their sessions

vars == <<opened, stored, helpers, req, gone, faults, restarts, crossed, unsaved, answered>>

Question(r) == [of |-> r, isUser |-> TRUE]
Answer(r) == [of |-> r, isUser |-> FALSE]
Nothing == [all |-> {}, last |-> None]
NewHelper == [messages |-> Nothing, saveFunc |-> None]
NotStarted == [stage |-> "new", session |-> None, todo |-> <<>>, next |-> "none", seen |-> Nothing]
Ended == [NotStarted EXCEPT !.stage = "end"]

Init ==
  /\ opened = {} /\ stored = [s \in Sessions |-> <<>>] /\ helpers = [s \in Sessions |-> None]
  /\ req = [r \in Requests |-> NotStarted]
  /\ gone = {} /\ faults = 0 /\ restarts = 0
  /\ crossed = {} /\ unsaved = {} /\ answered = {}

Active(r) == req[r].stage \notin {"new", "end"}
ActiveOn(s) == {r \in Requests : Active(r) /\ req[r].session = s}
Helper(r) == helpers[req[r].session]
Goto(r, stage) == req' = [req EXCEPT ![r].stage = stage]

\* The handler returns, and with it ServeHTTP.
End(r) == req' = [req EXCEPT ![r] = Ended] /\ gone' = gone \cup {r}

-----------------------------------------------------------------------------
(* The four requests                                                       *)

Start(r, s, stage) ==
  /\ req[r] = NotStarted /\ Cardinality({x \in Requests : Active(x)}) < MaxAtOnce
  /\ req' = [req EXCEPT ![r] = [NotStarted EXCEPT !.stage = stage, !.session = s]]
  /\ crossed' = crossed \cup (IF ActiveOn(s) = {} THEN {} ELSE {<<x, s>> : x \in ActiveOn(s) \cup {r}})
  /\ UNCHANGED <<opened, stored, helpers, gone, faults, restarts, unsaved, answered>>

CreateChat(r) == \E s \in Sessions \ opened : ActiveOn(s) = {} /\ Start(r, s, "insertSession")
ContinueChat(r) == \E s \in opened : Len(stored[s]) <= MaxHistory /\ Start(r, s, "readHistory")

\* Disconnected: the client has closed the connection.
Disconnect(r) ==
  /\ Active(r) /\ r \notin gone
  /\ faults < MaxFaults /\ faults' = faults + 1
  /\ gone' = gone \cup {r} /\ unsaved' = unsaved \cup {r}
  /\ UNCHANGED <<opened, stored, helpers, req, restarts, crossed, answered>>

\* A database call that reports its error ends the request.
FailingCall(r) ==
  /\ req[r].stage \in {"insertSession", "readHistory"}
  /\ \/ r \in gone /\ UNCHANGED faults
     \/ faults < MaxFaults /\ faults' = faults + 1
  /\ End(r)
  /\ UNCHANGED <<opened, stored, helpers, restarts, crossed, unsaved, answered>>

InsertSession(r) ==
  /\ req[r].stage = "insertSession" /\ r \notin gone
  /\ opened' = opened \cup {req[r].session}
  /\ Goto(r, "getHelper")
  /\ UNCHANGED <<stored, helpers, gone, faults, restarts, crossed, unsaved, answered>>

NoHistory(s) == <<>>           \* Mutant of History: the helper is trusted to have it
History(s) == stored[s]

ReadHistory(r) ==
  /\ req[r].stage = "readHistory" /\ r \notin gone
  /\ req' = [req EXCEPT ![r].todo = History(req[r].session), ![r].stage = "getHelper"]
  /\ UNCHANGED <<opened, stored, helpers, gone, faults, restarts, crossed, unsaved, answered>>

\* Under the manager's lock.  History is added to what the helper has already.
GetOrCreateAIHelper(r) ==
  /\ req[r].stage = "getHelper"
  /\ helpers' = [helpers EXCEPT ![req[r].session] = IF @ = None THEN NewHelper ELSE @]
  /\ req' = [req EXCEPT ![r].stage = IF req[r].todo = <<>> THEN "setFuncs" ELSE "load",
                        ![r].next = "setFuncs"]
  /\ UNCHANGED <<opened, stored, gone, faults, restarts, crossed, unsaved, answered>>

FirstFunc(old, r) == IF old = None THEN r ELSE old    \* Mutant of SaveFunc: set only once
SaveFunc(old, r) == r

SetFuncs(r) ==
  /\ req[r].stage = "setFuncs"
  /\ helpers' = [helpers EXCEPT ![req[r].session].saveFunc = SaveFunc(@, r)]
  /\ req' = [req EXCEPT ![r].todo = <<Question(r)>>, ![r].next = "ask", ![r].stage = "load"]
  /\ UNCHANGED <<opened, stored, gone, faults, restarts, crossed, unsaved, answered>>

-----------------------------------------------------------------------------
(* AddMessage, for the head of todo: messages is read and written in two   *)
(* steps, so that two of them may lose one; then the save callback, of     *)
(* whichever request it is by now.                                         *)

LoadMessages(r) ==
  /\ req[r].stage = "load"
  /\ req' = [req EXCEPT ![r].seen = Helper(r).messages, ![r].stage = "append"]
  /\ UNCHANGED <<opened, stored, helpers, gone, faults, restarts, crossed, unsaved, answered>>

AppendMessage(r) ==
  /\ req[r].stage = "append"
  /\ helpers' = [helpers EXCEPT ![req[r].session].messages =
                    [all |-> req[r].seen.all \cup {Head(req[r].todo)}, last |-> Head(req[r].todo)]]
  /\ req' = [req EXCEPT ![r].seen = Nothing, ![r].stage = "save"]
  /\ UNCHANGED <<opened, stored, gone, faults, restarts, crossed, unsaved, answered>>

AnyContext(r) == TRUE          \* Mutant of ContextLives: the callback does not depend on the request
ContextLives(r) == r \notin gone

CallSaveFunc(r) ==
  /\ req[r].stage = "save"
  /\ LET s == req[r].session
         f == Helper(r).saveFunc
         m == Head(req[r].todo)
     IN \/ /\ f # None /\ ContextLives(f)
           /\ stored' = [stored EXCEPT ![s] = Append(@, m)] /\ UNCHANGED <<faults, unsaved>>
        \/ /\ f = None \/ ~ContextLives(f)
           /\ UNCHANGED <<stored, faults, unsaved>>
        \/ /\ f # None /\ faults < MaxFaults /\ faults' = faults + 1
           /\ unsaved' = unsaved \cup {m.of} /\ UNCHANGED stored
  /\ req' = [req EXCEPT ![r].todo = Tail(@),
                        ![r].stage = IF Len(req[r].todo) = 1 THEN req[r].next ELSE "load"]
  /\ UNCHANGED <<opened, helpers, gone, restarts, crossed, answered>>

-----------------------------------------------------------------------------
(* The model's turn                                                        *)

\* seen: the messages as they are sent.
GenerateResponse(r) ==
  /\ req[r].stage = "ask"
  /\ req' = [req EXCEPT ![r].seen = Helper(r).messages, ![r].stage = "asked"]
  /\ UNCHANGED <<opened, stored, helpers, gone, faults, restarts, crossed, unsaved, answered>>

QuestionAgain(r) ==            \* Mutant of ReceiveAnswer: the answer is added with its question
  /\ req[r].stage = "asked"
  /\ req' = [req EXCEPT ![r].todo = <<Question(r), Answer(r)>>, ![r].next = "reply", ![r].seen = Nothing,
                        ![r].stage = "load"]
  /\ UNCHANGED <<opened, stored, helpers, gone, faults, restarts, crossed, unsaved, answered>>
ReceiveAnswer(r) ==
  /\ req[r].stage = "asked"
  /\ req' = [req EXCEPT ![r].todo = <<Answer(r)>>, ![r].next = "reply", ![r].seen = Nothing,
                        ![r].stage = "load"]
  /\ UNCHANGED <<opened, stored, helpers, gone, faults, restarts, crossed, unsaved, answered>>

\* The question stays in the helper and in the database.
ModelFails(r) ==
  /\ req[r].stage = "asked"
  /\ \/ r \in gone /\ UNCHANGED faults
     \/ faults < MaxFaults /\ faults' = faults + 1
  /\ End(r)
  /\ UNCHANGED <<opened, stored, helpers, restarts, crossed, unsaved, answered>>

Reply(r) ==
  /\ req[r].stage = "reply"
  /\ answered' = answered \cup {<<r, req[r].session>>}
  /\ End(r)
  /\ UNCHANGED <<opened, stored, helpers, faults, restarts, crossed, unsaved>>

\* Helpers and requests live in memory.
Restart ==
  /\ restarts < MaxRestarts /\ restarts' = restarts + 1
  /\ helpers' = [s \in Sessions |-> None]
  /\ req' = [r \in Requests |-> IF Active(r) THEN Ended ELSE req[r]]
  /\ gone' = gone \cup {r \in Requests : Active(r)}
  /\ UNCHANGED <<opened, stored, faults, crossed, unsaved, answered>>

Next ==
  \/ \E r \in Requests :
       \/ CreateChat(r) \/ ContinueChat(r) \/ Disconnect(r) \/ FailingCall(r)
       \/ InsertSession(r) \/ ReadHistory(r) \/ GetOrCreateAIHelper(r) \/ SetFuncs(r)
       \/ LoadMessages(r) \/ AppendMessage(r) \/ CallSaveFunc(r)
       \/ GenerateResponse(r) \/ ReceiveAnswer(r) \/ ModelFails(r) \/ Reply(r)
  \/ Restart

Spec == Init /\ [][Next]_vars

-----------------------------------------------------------------------------
(* Properties                                                              *)

Positions(s, m) == {i \in DOMAIN stored[s] : stored[s][i] = m}

Crossed(r) == \E s \in Sessions : <<r, s>> \in crossed
Quiet == {s \in Sessions : ~\E r \in Requests : <<r, s>> \in crossed}

\* No message of a session is stored twice, unless two requests on the session
\* overlapped at some time, although every request adds the whole history again
\* through the callback of the request before it: its context is cancelled by then.
StoredOnce ==
  \A s \in Quiet : \A i, j \in DOMAIN stored[s] :
    j \in Positions(s, stored[s][i]) => i = j

\* Who got an answer finds it in the history, right behind the question, if the
\* client stayed, no save failed and no other request on the session overlapped
\* with this one; others may have overlapped before and after.
AnsweredIsStored ==
  \A r \in Requests \ unsaved, s \in Sessions :
    <<r, s>> \in answered \ crossed =>
      \E i \in Positions(s, Question(r)) : i + 1 \in Positions(s, Answer(r))

\* The model is sent everything that the session has stored, after a restart as
\* well, and the question at the end, where a prompt enriched with a file's
\* contents replaces it; for a request that overlaps with no other.
PromptIsComplete ==
  \A r \in Requests : req[r].stage = "asked" /\ ~Crossed(r) =>
    /\ req[r].seen.last = Question(r)
    /\ ToSet(stored[req[r].session]) \subseteq req[r].seen.all

\* Each session is a conversation of its own: its history only grows, and, whatever
\* fails or is restarted, a request that overlaps with no other adds its question and
\* right behind it its answer and nothing else, though it hands the whole history to
\* the save callback again (service/chat.go, ai/helper.go).  What overlapping requests
\* add is their own or is in the session's history already: no session hears another.
Conversation(s) == INSTANCE Conversation WITH
  rows <- stored[s], talking <- ActiveOn(s), mixed <- {r \in Requests : <<r, s>> \in crossed},
  lost <- unsaved, delivered <- {r \in Requests : <<r, s>> \in answered}

ImplementsConversations ==
  /\ \A s \in Sessions : Conversation(s)!Init
  /\ [][\A s \in Sessions : [Conversation(s)!Next]_(Conversation(s)!vars)]_vars
=============================================================================
