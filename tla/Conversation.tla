---------------------------- MODULE Conversation ----------------------------
(***************************************************************************)
(* What a chat session promises, whatever becomes of the process and its   *)
(* clients: its history only grows, and a request that has the session to  *)
(* itself adds its question and then its answer, each once and nothing     *)
(* else.  What requests that overlap add is theirs or was said before.     *)
(***************************************************************************)
EXTENDS Naturals, Sequences

CONSTANT Requests

VARIABLES
  rows,       \* the history
  talking,    \* requests under way
  mixed,      \* requests that overlapped with another
  lost,       \* requests that lost a message or their client
  delivered   \* requests whose client got the answer

vars == <<rows, talking, mixed, lost, delivered>>

Question(r) == [of |-> r, isUser |-> TRUE]
Answer(r) == [of |-> r, isUser |-> FALSE]

Init == rows = <<>> /\ talking = {} /\ mixed = {} /\ delivered = {}

Said == {rows[i] : i \in DOMAIN rows}
Last == rows[Len(rows)]
Alone(r) == talking = {r} /\ r \notin mixed
Add(m) == rows' = Append(rows, m) /\ UNCHANGED <<talking, mixed, lost, delivered>>

Come(r) ==
  /\ r \notin talking /\ Question(r) \notin Said /\ Answer(r) \notin Said
  /\ talking' = talking \cup {r}
  /\ mixed' = mixed \cup (IF talking = {} THEN {} ELSE talking')
  /\ UNCHANGED <<rows, lost, delivered>>

Ask(r) == Alone(r) /\ Question(r) \notin Said /\ Answer(r) \notin Said /\ Add(Question(r))

Respond(r) ==
  /\ Alone(r) /\ Answer(r) \notin Said
  /\ r \in lost \/ (rows # <<>> /\ Last = Question(r))
  /\ Add(Answer(r))

\* Requests that overlap add their messages in any order, and those before them again.
Interrupt(r) ==
  /\ r \in talking \cap mixed
  /\ \E m \in Said \cup {Question(r), Answer(r)} : Add(m)

Deliver(r) ==
  /\ r \in talking
  /\ r \in mixed \cup lost \/ (Len(rows) > 1 /\ rows[Len(rows) - 1] = Question(r) /\ Last = Answer(r))
  /\ talking' = talking \ {r} /\ delivered' = delivered \cup {r}
  /\ UNCHANGED <<rows, mixed, lost>>

\* Without an answer; what they have added stays.
Leave == talking' \subseteq talking /\ UNCHANGED <<rows, mixed, lost, delivered>>

Lose == lost \subseteq lost' /\ UNCHANGED <<rows, talking, mixed, delivered>>

Next ==
  \/ \E r \in Requests : Come(r) \/ Ask(r) \/ Respond(r) \/ Interrupt(r) \/ Deliver(r)
  \/ Leave \/ Lose

Spec == Init /\ [][Next]_vars
=============================================================================
