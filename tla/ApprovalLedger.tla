--------------------------- MODULE ApprovalLedger ---------------------------
(***************************************************************************)
(* What the approval pipeline promises, without its queues, its registry   *)
(* and its payload keys: admins give verdicts on pairs of a user and a     *)
(* project, and a batch of that user for that project is executed on the   *)
(* strength of an approval that has not been used before.  Nothing is      *)
(* promised about when, or which of the pair's batches it is.              *)
(***************************************************************************)
EXTENDS Naturals, Sequences

CONSTANTS
  Pairs,     \* the pairs a verdict can be about
  Requests,  \* the change requests that can be executed
  PairOf     \* the pair a request belongs to

VARIABLES
  verdicts,  \* the verdicts given, in order; a token is an index into it
  executed   \* the executions: which token executed which request

Init == verdicts = << >> /\ executed = {}

GiveVerdict(k, approved) ==
  /\ verdicts' = Append(verdicts, [key |-> k, approved |-> approved])
  /\ UNCHANGED executed

Spent(t) == \E e \in executed : e.token = t

Execute(t, r) ==
  /\ verdicts[t].approved
  /\ verdicts[t].key = PairOf[r]
  /\ ~Spent(t)
  /\ executed' = executed \cup {[token |-> t, request |-> r]}
  /\ UNCHANGED verdicts

Next == \/ \E k \in Pairs, approved \in BOOLEAN : GiveVerdict(k, approved)
        \/ \E t \in DOMAIN verdicts, r \in Requests : Execute(t, r)

Spec == Init /\ [][Next]_<<verdicts, executed>>
=============================================================================
