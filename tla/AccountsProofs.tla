--------------------------- MODULE AccountsProofs ---------------------------
(* Proofs about Accounts, for every value of its constants.                *)
EXTENDS Accounts, SequenceTheorems, TLAPS

(***************************************************************************)
(* The inductive invariant.  Requests come in three families: those that   *)
(* send a code, those that use one, and those that do neither.             *)
(***************************************************************************)

SendSuffixes ==
  {<<"getByEmail", "checkRateLimit", "sendEmail", "setCode", "setRateLimit">>,
   <<"emailExists", "checkRateLimit", "sendEmail", "setCode", "setRateLimit">>,
   <<"checkRateLimit", "sendEmail", "setCode", "setRateLimit">>,
   <<"sendEmail", "setCode", "setRateLimit">>, <<"setCode", "setRateLimit">>, <<"setRateLimit">>}
UseSuffixes ==
  {<<"emailExists", "getCode", "deleteCode", "create", "createProfile">>,
   <<"getCode", "deleteCode", "create", "createProfile">>,
   <<"deleteCode", "create", "createProfile">>, <<"create", "createProfile">>, <<"createProfile">>,
   <<"getByEmail", "getCode", "deleteCode", "signIn">>, <<"getCode", "deleteCode", "signIn">>,
   <<"deleteCode", "signIn">>, <<"signIn">>,
   <<"getByEmail", "getCode", "deleteCode", "update">>, <<"getCode", "deleteCode", "update">>,
   <<"deleteCode", "update">>, <<"update">>}
SessionSuffixes ==
  {<<"admit", "blacklistAccess", "blacklistRefresh">>, <<"blacklistAccess", "blacklistRefresh">>,
   <<"blacklistRefresh">>, <<"admit">>}
OtherSuffixes == {<<>>, <<"checkPassword", "signIn">>, <<"signIn">>} \cup SessionSuffixes

Subjects == (Kinds \cup {"mail"}) \X Emails
CallRecords == [kind : Kinds \cup {None}, email : Emails \cup {None}, code : Nat, session : Nat,
                todo : SendSuffixes \cup UseSuffixes \cup OtherSuffixes, subjects : SUBSET Subjects]

Key(c) == <<c.kind, c.email>>
Mail(c) == <<"mail", c.email>>
KeyOf(n) == <<mailed[n].kind, mailed[n].email>>

IsSend(c) == /\ c.kind \in Kinds /\ c.email \in Emails /\ c.todo \in SendSuffixes
             /\ c.subjects = {Key(c), Mail(c)}
IsUse(c) == /\ c.kind \in Kinds /\ c.email \in Emails /\ c.todo \in UseSuffixes
            /\ c.subjects = {Key(c)} /\ c.code \in DOMAIN mailed
IsOther(c) == /\ c.kind = None /\ c.todo \in OtherSuffixes /\ c.subjects = {}
              /\ c.todo \in SessionSuffixes => c.session \in DOMAIN sessions
WellFormed(c) == c \in CallRecords /\ (IsSend(c) \/ IsUse(c) \/ IsOther(c))

Sending(c, steps) == IsSend(c) /\ Head(c.todo) \in steps
Using(c, steps) == IsUse(c) /\ Head(c.todo) \in steps
Holder(c) == Sending(c, {"setCode"}) \/ Using(c, {"deleteCode", "create", "update", "signIn"})

TypesOK ==
  /\ \A h \in Handlers : WellFormed(call[h])
  /\ DOMAIN call = Handlers
  /\ mailed \in Seq([kind : Kinds, email : Emails]) /\ Len(mailed) <= MaxMails
  /\ codes \in [Keys -> Nat] /\ uses \in [Codes -> Nat] /\ window \in [Emails -> Nat]
  /\ spent \subseteq DOMAIN mailed
  /\ \A c \in Codes : c \notin DOMAIN mailed => uses[c] = 0
  /\ sessions \in Seq([email : Emails \cup {None}, second : Nat]) /\ second \in Nat

\* Requests that overlap on a subject are known.
OverlapsAreKnown ==
  \A h, g \in Handlers : h # g => call[h].subjects \cap call[g].subjects \subseteq disturbed

\* A stored code went out in a mail of its kind, and so did the code in a request's hands once
\* it was compared.
HoldsCode(c) == Holder(c) => c.code \in DOMAIN mailed /\ KeyOf(c.code) = Key(c)
CodesAreMailed ==
  /\ \A h \in Handlers : HoldsCode(call[h])
  /\ \A k \in Keys : codes[k] # 0 => codes[k] \in DOMAIN mailed /\ KeyOf(codes[k]) = k

\* A code that is stored, or about to be stored or used, has let nothing through yet.
Unspoilt(c) ==
  Key(c) \notin disturbed =>
    /\ Holder(c) => uses[c.code] = 0
    /\ Using(c, {"create", "update", "signIn"}) => codes[Key(c)] # c.code
UsesAreFew ==
  /\ \A h \in Handlers : Unspoilt(call[h])
  /\ \A n \in DOMAIN mailed : KeyOf(n) \notin disturbed =>
       uses[n] <= 1 /\ (codes[KeyOf(n)] = n => uses[n] = 0)

\* The newest code is stored, unless it is about to be.
Stand(k) == IF Newest(k) \in spent THEN 0 ELSE Newest(k)
HoldsNewest(c) ==
  Key(c) \notin disturbed =>
    /\ Sending(c, {"setCode"}) => c.code = Newest(Key(c)) /\ c.code \notin spent /\ codes[Key(c)] # c.code
    /\ Using(c, {"deleteCode"}) => c.code = Newest(Key(c))
NewestIsStored ==
  /\ \A h \in Handlers : HoldsNewest(call[h])
  /\ \A k \in Keys : Newest(k) = 0 \/ (Newest(k) \in DOMAIN mailed /\ KeyOf(Newest(k)) = k)
  /\ \A k \in Keys \ disturbed :
       \/ \E h \in Handlers : Sending(call[h], {"setCode"}) /\ Key(call[h]) = k
       \/ codes[k] = Stand(k)

\* After a mail the limit stands, or is about to be set.
HasWindow(c) == Sending(c, {"sendEmail"}) /\ Mail(c) \notin disturbed => window[c.email] = 0
WindowsAreLimited ==
  /\ \A h \in Handlers : HasWindow(call[h])
  /\ \A e \in Emails : <<"mail", e>> \notin disturbed =>
       /\ window[e] <= 1
       /\ window[e] = 1 => \/ e \in limits
                           \/ \E h \in Handlers : /\ Sending(call[h], {"setCode", "setRateLimit"})
                                                  /\ call[h].email = e

\* A token on the blacklist is one of a session whose logout has begun.
LogoutsAreKnown ==
  /\ loggedOut \subseteq DOMAIN sessions
  /\ \A x \in blacklist : \E j \in loggedOut : x[2] = sessions[j]

Inv == /\ TypesOK /\ OverlapsAreKnown /\ CodesAreMailed /\ UsesAreFew
       /\ NewestIsStored /\ WindowsAreLimited /\ LogoutsAreKnown

-----------------------------------------------------------------------------
(* Lists of calls.                                                         *)

LEMMA Tails ==
  /\ \A a : Len(<<a>>) = 1 /\ Head(<<a>>) = a
  /\ \A a, b : Head(<<a, b>>) = a /\ Tail(<<a, b>>) = <<b>>
  /\ \A a, b, c : Head(<<a, b, c>>) = a /\ Tail(<<a, b, c>>) = <<b, c>>
  /\ \A a, b, c, d : Head(<<a, b, c, d>>) = a /\ Tail(<<a, b, c, d>>) = <<b, c, d>>
  /\ \A a, b, c, d, e :
       Head(<<a, b, c, d, e>>) = a /\ Tail(<<a, b, c, d, e>>) = <<b, c, d, e>>
OBVIOUS

\* The calls that come right before those that the invariant speaks of.
Follows(t) ==
  /\ Head(Tail(t)) = "sendEmail" => Head(t) = "checkRateLimit"
  /\ Head(Tail(t)) = "setCode" => Head(t) = "sendEmail"
  /\ Head(Tail(t)) = "setRateLimit" => Head(t) = "setCode"
  /\ Head(Tail(t)) = "deleteCode" => Head(t) = "getCode"
  /\ Head(Tail(t)) \in {"create", "update"} => Head(t) = "deleteCode"

LEMMA SendFacts ==
  ASSUME NEW t \in SendSuffixes
  PROVE  /\ t # <<>>
         /\ Head(t) \in {"getByEmail", "emailExists", "checkRateLimit", "sendEmail", "setCode", "setRateLimit"}
         /\ Len(t) # 1 => Tail(t) \in SendSuffixes /\ Follows(t)
<1> DEFINE goal(x) == Tail(x) \in SendSuffixes /\ Follows(x)
<1>1. goal(<<"getByEmail", "checkRateLimit", "sendEmail", "setCode", "setRateLimit">>)
  BY Tails DEF SendSuffixes, Follows
<1>2. goal(<<"emailExists", "checkRateLimit", "sendEmail", "setCode", "setRateLimit">>)
  BY Tails DEF SendSuffixes, Follows
<1>3. goal(<<"checkRateLimit", "sendEmail", "setCode", "setRateLimit">>)
  BY Tails DEF SendSuffixes, Follows
<1>4. goal(<<"sendEmail", "setCode", "setRateLimit">>) /\ goal(<<"setCode", "setRateLimit">>)
  BY Tails DEF SendSuffixes, Follows
<1>5. Len(t) # 1 => goal(t)
  <2> HIDE DEF goal
  <2> QED
    BY <1>1, <1>2, <1>3, <1>4, Tails DEF SendSuffixes
<1>6. t # <<>>
  BY DEF SendSuffixes
<1>7. Head(t) \in {"getByEmail", "emailExists", "checkRateLimit", "sendEmail", "setCode", "setRateLimit"}
  BY Tails DEF SendSuffixes
<1> QED
  BY <1>5, <1>6, <1>7

LEMMA UseFacts ==
  ASSUME NEW t \in UseSuffixes
  PROVE  /\ t # <<>>
         /\ Head(t) \in {"getByEmail", "emailExists", "getCode", "deleteCode", "create", "createProfile",
                         "update", "signIn"}
         /\ Len(t) # 1 => /\ Tail(t) \in UseSuffixes /\ Follows(t)
                          /\ Head(Tail(t)) = "signIn" => Head(t) = "deleteCode"
<1> DEFINE goal(x) == /\ Tail(x) \in UseSuffixes /\ Follows(x)
                      /\ Head(Tail(x)) = "signIn" => Head(x) = "deleteCode"
<1>1. goal(<<"emailExists", "getCode", "deleteCode", "create", "createProfile">>)
  BY Tails DEF UseSuffixes, Follows
<1>2. goal(<<"getCode", "deleteCode", "create", "createProfile">>)
  BY Tails DEF UseSuffixes, Follows
<1>3. goal(<<"deleteCode", "create", "createProfile">>) /\ goal(<<"create", "createProfile">>)
  BY Tails DEF UseSuffixes, Follows
<1>4. goal(<<"getByEmail", "getCode", "deleteCode", "signIn">>)
  BY Tails DEF UseSuffixes, Follows
<1>5. goal(<<"getCode", "deleteCode", "signIn">>) /\ goal(<<"deleteCode", "signIn">>)
  BY Tails DEF UseSuffixes, Follows
<1>6. goal(<<"getByEmail", "getCode", "deleteCode", "update">>)
  BY Tails DEF UseSuffixes, Follows
<1>7. goal(<<"getCode", "deleteCode", "update">>) /\ goal(<<"deleteCode", "update">>)
  BY Tails DEF UseSuffixes, Follows
<1>8. Len(t) # 1 => goal(t)
  <2> HIDE DEF goal
  <2> QED
    BY <1>1, <1>2, <1>3, <1>4, <1>5, <1>6, <1>7, Tails DEF UseSuffixes
<1>9. t # <<>>
  BY DEF UseSuffixes
<1>10. Head(t) \in {"getByEmail", "emailExists", "getCode", "deleteCode", "create", "createProfile",
                    "update", "signIn"}
  BY Tails DEF UseSuffixes
<1> QED
  BY <1>8, <1>9, <1>10

LEMMA OtherFacts ==
  ASSUME NEW t \in OtherSuffixes, t # <<>>
  PROVE  /\ Head(t) \in {"checkPassword", "signIn", "admit", "blacklistAccess", "blacklistRefresh"}
         /\ Head(t) \in {"admit", "blacklistAccess", "blacklistRefresh"} => t \in SessionSuffixes
         /\ Len(t) # 1 => /\ Tail(t) \in OtherSuffixes
                          /\ Tail(t) \in SessionSuffixes => t \in SessionSuffixes
<1>1. /\ Tail(<<"checkPassword", "signIn">>) = <<"signIn">>
      /\ Tail(<<"admit", "blacklistAccess", "blacklistRefresh">>) = <<"blacklistAccess", "blacklistRefresh">>
      /\ Tail(<<"blacklistAccess", "blacklistRefresh">>) = <<"blacklistRefresh">>
  BY Tails
<1>2. <<"signIn">> \notin SessionSuffixes
  BY DEF SessionSuffixes
<1>3. Len(t) # 1 => /\ Tail(t) \in OtherSuffixes
                    /\ Tail(t) \in SessionSuffixes => t \in SessionSuffixes
  BY <1>1, <1>2, Tails DEF OtherSuffixes, SessionSuffixes
<1>4. Head(t) \in {"checkPassword", "signIn", "admit", "blacklistAccess", "blacklistRefresh"}
  BY Tails DEF OtherSuffixes, SessionSuffixes
<1>5. Head(t) \in {"admit", "blacklistAccess", "blacklistRefresh"} => t \in SessionSuffixes
  BY Tails DEF OtherSuffixes, SessionSuffixes
<1> QED
  BY <1>3, <1>4, <1>5

-----------------------------------------------------------------------------
(* What is left of a request after a call.                                 *)

RestOf(c) == IF Len(c.todo) = 1 THEN Idle ELSE [c EXCEPT !.todo = Tail(@)]

LEMMA IdleFacts == WellFormed(Idle) /\ IsOther(Idle) /\ Idle.todo = <<>> /\ Idle.subjects = {}
<1>1. <<>> \notin SessionSuffixes
  BY DEF SessionSuffixes
<1> QED
  BY <1>1 DEF WellFormed, IsOther, CallRecords, Idle, OtherSuffixes

\* A request is of one family only, by what it has begun.
LEMMA Families ==
  ASSUME NEW c, WellFormed(c), c.todo # <<>>
  PROVE  /\ Head(c.todo) \in {"checkRateLimit", "sendEmail", "setCode", "setRateLimit"} => IsSend(c)
         /\ Head(c.todo) \in {"getCode", "deleteCode", "create", "createProfile", "update"} => IsUse(c)
         /\ Head(c.todo) \in {"admit", "blacklistAccess", "blacklistRefresh"}
              => IsOther(c) /\ c.session \in DOMAIN sessions
         /\ Head(c.todo) = "signIn" => IsUse(c) \/ IsOther(c)
BY SendFacts, UseFacts, OtherFacts DEF WellFormed, IsSend, IsUse, IsOther

LEMMA TwoSubjects ==
  ASSUME NEW c, IsSend(c)
  PROVE  c.subjects # {Key(c)}
<1> SUFFICES ASSUME c.subjects = {Key(c)} PROVE FALSE
  OBVIOUS
<1>1. <<"mail", c.email>> = <<c.kind, c.email>>
  BY DEF IsSend, Key, Mail
<1>2. c.kind # "mail"
  BY DEF IsSend, Kinds
<1> QED
  BY <1>1, <1>2

LEMMA OneFamily ==
  ASSUME NEW c, IsSend(c)
  PROVE  ~IsUse(c)
BY TwoSubjects DEF IsUse

LEMMA RestFacts ==
  ASSUME NEW c, WellFormed(c), c.todo # <<>>
  PROVE  /\ WellFormed(RestOf(c)) /\ RestOf(c).subjects \subseteq c.subjects
         /\ \/ RestOf(c) = Idle
            \/ /\ RestOf(c).kind = c.kind /\ RestOf(c).email = c.email /\ RestOf(c).code = c.code
               /\ RestOf(c).subjects = c.subjects /\ RestOf(c).todo = Tail(c.todo)
         /\ Sending(RestOf(c), {"sendEmail"}) => Sending(c, {"checkRateLimit"})
         /\ Sending(RestOf(c), {"setCode"}) => Sending(c, {"sendEmail"})
         /\ Sending(RestOf(c), {"setRateLimit"}) => Sending(c, {"setCode"})
         /\ Using(RestOf(c), {"deleteCode"}) => Using(c, {"getCode"})
         /\ Using(RestOf(c), {"create", "update", "signIn"}) => Using(c, {"deleteCode"})
<1>1. CASE Len(c.todo) = 1
  <2>1. RestOf(c) = Idle
    BY <1>1 DEF RestOf
  <2>2. ~IsSend(Idle) /\ ~IsUse(Idle)
    BY IdleFacts, SendFacts, UseFacts DEF IsSend, IsUse
  <2> QED
    BY <2>1, <2>2, IdleFacts DEF Sending, Using
<1>2. CASE Len(c.todo) # 1
  <2>1. RestOf(c) = [c EXCEPT !.todo = Tail(c.todo)] /\ c \in CallRecords
    BY <1>2 DEF RestOf, WellFormed
  <2>2. CASE IsSend(c)
    <3>1. Tail(c.todo) \in SendSuffixes /\ Follows(c.todo)
      BY <1>2, <2>2, SendFacts DEF IsSend
    <3>2. RestOf(c) \in CallRecords /\ IsSend(RestOf(c)) /\ RestOf(c).todo = Tail(c.todo)
      BY <2>1, <2>2, <3>1 DEF CallRecords, IsSend, Key, Mail
    <3>3. ~IsUse(RestOf(c))
      BY <3>2, OneFamily
    <3> QED
      BY <2>1, <2>2, <3>1, <3>2, <3>3 DEF WellFormed, Sending, Using, Follows, CallRecords
  <2>3. CASE IsUse(c)
    <3>1. /\ Tail(c.todo) \in UseSuffixes /\ Follows(c.todo)
          /\ Head(Tail(c.todo)) = "signIn" => Head(c.todo) = "deleteCode"
      BY <1>2, <2>3, UseFacts DEF IsUse
    <3>2. RestOf(c) \in CallRecords /\ IsUse(RestOf(c)) /\ RestOf(c).todo = Tail(c.todo)
      BY <2>1, <2>3, <3>1 DEF CallRecords, IsUse, Key
    <3>3. ~IsSend(RestOf(c))
      BY <3>2, OneFamily
    <3> QED
      BY <2>1, <2>3, <3>1, <3>2, <3>3 DEF WellFormed, Sending, Using, Follows, CallRecords
  <2>4. CASE IsOther(c)
    <3>1. Tail(c.todo) \in OtherSuffixes /\ (Tail(c.todo) \in SessionSuffixes => c.todo \in SessionSuffixes)
      BY <1>2, <2>4, OtherFacts DEF IsOther
    <3>2. RestOf(c) \in CallRecords /\ IsOther(RestOf(c)) /\ RestOf(c).todo = Tail(c.todo)
      BY <2>1, <2>4, <3>1 DEF CallRecords, IsOther
    <3>3. ~IsUse(RestOf(c)) /\ ~IsSend(RestOf(c))
      BY <3>2 DEF IsUse, IsSend, IsOther
    <3> QED
      BY <2>1, <2>4, <3>2, <3>3 DEF WellFormed, Sending, Using, CallRecords
  <2> QED
    BY <2>2, <2>3, <2>4 DEF WellFormed
<1> QED
  BY <1>1, <1>2

-----------------------------------------------------------------------------
(* Steps that change a request and what history tells of it, no more.      *)

\* Two requests on one subject that nobody disturbed are one.
LEMMA Alone ==
  ASSUME OverlapsAreKnown, NEW h \in Handlers, NEW g \in Handlers, NEW s, s \notin disturbed,
         s \in call[h].subjects, s \in call[g].subjects
  PROVE  g = h
BY DEF OverlapsAreKnown

\* A request is about its own code.
LEMMA OwnSubjects ==
  ASSUME NEW c, NEW steps
  PROVE  /\ Sending(c, steps) => Key(c) \in c.subjects /\ Mail(c) \in c.subjects
         /\ Using(c, steps) => Key(c) \in c.subjects
         /\ Holder(c) => Key(c) \in c.subjects
BY DEF Sending, Using, Holder, IsSend, IsUse

LEMMA IdleOwesNothing == HoldsCode(Idle) /\ Unspoilt(Idle) /\ HoldsNewest(Idle) /\ HasWindow(Idle)
<1>1. ~IsSend(Idle) /\ ~IsUse(Idle)
  BY IdleFacts, SendFacts, UseFacts DEF IsSend, IsUse
<1> QED
  BY <1>1 DEF HoldsCode, Unspoilt, HoldsNewest, HasWindow, Holder, Sending, Using

\* Whatever a step does to sessions, tokens stay known and sessions stay.
Pair == [email : Emails \cup {None}, second : Nat]
SessionsStay == /\ sessions' \in Seq(Pair) /\ second' \in Nat
                /\ DOMAIN sessions \subseteq DOMAIN sessions'
                /\ LogoutsAreKnown'

LEMMA NoSession ==
  ASSUME Inv, UNCHANGED <<sessions, second, blacklist, loggedOut>>
  PROVE  SessionsStay
BY DEF Inv, TypesOK, LogoutsAreKnown, SessionsStay, Pair

LEMMA CallChange ==
  ASSUME Inv, NEW h \in Handlers, NEW c, WellFormed(c),
         call' = [call EXCEPT ![h] = c], SessionsStay,
         UNCHANGED <<codes, limits, mailed, spent, uses, window>>,
         disturbed \subseteq disturbed',
         \A g \in Handlers : g # h => c.subjects \cap call[g].subjects \subseteq disturbed',
         Sending(call[h], {"setCode", "setRateLimit"}) => call[h].subjects \subseteq disturbed',
         HoldsCode(c),
         c.subjects \subseteq disturbed' \/ (Unspoilt(c) /\ HoldsNewest(c) /\ HasWindow(c))
  PROVE  Inv'
<1> USE DEF Inv
<1>1. /\ call'[h] = c /\ DOMAIN call' = Handlers
      /\ \A g \in Handlers : g # h => call'[g] = call[g]
  BY DEF TypesOK
<1>2. \A x : (WellFormed(x) => WellFormed(x)') /\ (IsSend(x)' <=> IsSend(x)) /\ (IsUse(x)' <=> IsUse(x))
  BY DEF WellFormed, IsSend, IsUse, IsOther, SessionsStay
<1>3. \A x, steps : (Sending(x, steps)' <=> Sending(x, steps)) /\ (Using(x, steps)' <=> Using(x, steps))
  BY <1>2 DEF Sending, Using
<1>4. \A x : Holder(x)' <=> Holder(x)
  BY <1>3 DEF Holder
<1>5. \A k : Newest(k)' = Newest(k) /\ Stand(k)' = Stand(k)
  BY DEF Newest, Stand
<1>6. \A n : KeyOf(n)' = KeyOf(n)
  BY DEF KeyOf
<1>7. TypesOK'
  BY <1>1, <1>2 DEF TypesOK, SessionsStay, Pair
<1>8. OverlapsAreKnown'
  BY <1>1 DEF OverlapsAreKnown
<1>9. CodesAreMailed'
  <2>1. \A x : HoldsCode(x)' <=> HoldsCode(x)
    BY <1>4, <1>6 DEF HoldsCode
  <2> QED
    BY <1>1, <1>6, <2>1 DEF CodesAreMailed
<1>10. UsesAreFew'
  <2>1. \A x : Unspoilt(x) => Unspoilt(x)'
    BY <1>3, <1>4 DEF Unspoilt
  <2>2. c.subjects \subseteq disturbed' => Unspoilt(c)'
    BY <1>2, OwnSubjects, <1>3, <1>4 DEF Unspoilt
  <2> QED
    BY <1>1, <1>6, <2>1, <2>2 DEF UsesAreFew
<1>11. NewestIsStored'
  <2>1. \A x : HoldsNewest(x) => HoldsNewest(x)'
    BY <1>3, <1>5 DEF HoldsNewest
  <2>2. c.subjects \subseteq disturbed' => HoldsNewest(c)'
    BY <1>3, OwnSubjects DEF HoldsNewest
  <2>3. \A g \in Handlers : HoldsNewest(call[g])'
    BY <1>1, <2>1, <2>2 DEF NewestIsStored
  <2>4. ASSUME NEW k \in Keys \ disturbed', NEW g \in Handlers, Sending(call[g], {"setCode"}), Key(call[g]) = k
        PROVE  g # h
    BY <2>4, OwnSubjects DEF Sending
  <2>5. \A k \in Keys \ disturbed' :
           \/ \E g \in Handlers : Sending(call[g], {"setCode"})' /\ Key(call[g])' = k
           \/ codes[k] = Stand(k)
    BY <1>1, <1>3, <2>4 DEF NewestIsStored, Key
  <2> QED
    BY <1>5, <1>6, <2>3, <2>5 DEF NewestIsStored
<1>12. WindowsAreLimited'
  <2>1. \A x : HasWindow(x) => HasWindow(x)'
    BY <1>3 DEF HasWindow
  <2>2. c.subjects \subseteq disturbed' => HasWindow(c)'
    BY <1>3, OwnSubjects DEF HasWindow
  <2>3. \A g \in Handlers : HasWindow(call[g])'
    BY <1>1, <2>1, <2>2 DEF WindowsAreLimited
  <2>4. ASSUME NEW e \in Emails, <<"mail", e>> \notin disturbed', NEW g \in Handlers,
               Sending(call[g], {"setCode", "setRateLimit"}), call[g].email = e
        PROVE  g # h
    BY <2>4, OwnSubjects DEF Mail
  <2> QED
    BY <1>1, <1>3, <2>3, <2>4 DEF WindowsAreLimited
<1>13. LogoutsAreKnown'
  BY DEF SessionsStay
<1> QED
  BY <1>7, <1>8, <1>9, <1>10, <1>11, <1>12, <1>13

LEMMA ReturnInv ==
  ASSUME Inv, NEW h \in Handlers, Return(h),
         SessionsStay, UNCHANGED <<codes, limits, mailed, spent, uses, window>>,
         disturbed \subseteq disturbed',
         Sending(call[h], {"setCode", "setRateLimit"}) => call[h].subjects \subseteq disturbed'
  PROVE  Inv'
<1>1. call' = [call EXCEPT ![h] = Idle]
  BY DEF Return
<1>2. \A g \in Handlers : g # h => Idle.subjects \cap call[g].subjects \subseteq disturbed'
  BY IdleFacts
<1> QED
  BY <1>1, <1>2, IdleFacts, IdleOwesNothing, CallChange, Zenon

\* A request that goes on after a call, where the call before it has seen to what comes next.
LEMMA ContinueInv ==
  ASSUME Inv, NEW h \in Handlers, call[h].todo # <<>>, Continue(h),
         SessionsStay, UNCHANGED <<codes, limits, mailed, spent, uses, window, disturbed>>,
         ~Sending(call[h], {"sendEmail", "setCode", "setRateLimit"}), ~Using(call[h], {"deleteCode"}),
         Using(call[h], {"getCode"}) => codes[Key(call[h])] = call[h].code,
         Sending(call[h], {"checkRateLimit"}) => call[h].email \notin limits
  PROVE  Inv'
<1> DEFINE c == call[h]
           r == RestOf(c)
<1> USE DEF Inv
<1>1. WellFormed(c) /\ call' = [call EXCEPT ![h] = r]
  BY DEF TypesOK, Continue, Go, RestOf
<1>2. /\ WellFormed(r) /\ r.subjects \subseteq c.subjects
      /\ r = Idle \/ (r.kind = c.kind /\ r.email = c.email /\ r.code = c.code /\ r.subjects = c.subjects)
      /\ Sending(r, {"sendEmail"}) => Sending(c, {"checkRateLimit"})
      /\ Sending(r, {"setCode"}) => Sending(c, {"sendEmail"})
      /\ Using(r, {"deleteCode"}) => Using(c, {"getCode"})
      /\ Using(r, {"create", "update", "signIn"}) => Using(c, {"deleteCode"})
  BY <1>1, RestFacts
<1>3. CASE r = Idle
  <2>1. Return(h)
    BY <1>1, <1>3 DEF Return
  <2>2. Sending(c, {"setCode", "setRateLimit"}) => c.subjects \subseteq disturbed'
    BY DEF Sending
  <2> QED
    BY <2>1, <2>2, ReturnInv
<1>4. CASE r # Idle
  <2> HIDE DEF c, r
  <2>1. Key(r) = Key(c) /\ Mail(r) = Mail(c) /\ r.code = c.code /\ r.email = c.email /\ r.subjects = c.subjects
    BY <1>2, <1>4 DEF Key, Mail
  <2>2. ~Sending(r, {"setCode"}) /\ ~Using(r, {"create", "update", "signIn"})
    BY <1>2 DEF c, Sending
  <2>3. Holder(r) => Using(c, {"getCode"}) /\ Using(r, {"deleteCode"})
    BY <1>2, <2>2 DEF Holder, Using
  <2>4. HoldsCode(r) /\ Unspoilt(r) /\ HoldsNewest(r)
    <3> SUFFICES ASSUME Using(c, {"getCode"})
                 PROVE  HoldsCode(r) /\ Unspoilt(r) /\ HoldsNewest(r)
      BY <1>2, <2>2, <2>3 DEF HoldsCode, Unspoilt, HoldsNewest
    <3> DEFINE k == Key(c)
    <3>1. k \in Keys /\ c.code \in DOMAIN mailed /\ k \in c.subjects /\ codes[k] = c.code
      BY DEF Using, IsUse, Key, Keys, c
    <3>2. c.code # 0
      BY <3>1 DEF TypesOK
    <3>3. KeyOf(c.code) = k
      BY <3>1, <3>2 DEF CodesAreMailed
    <3>4. k \notin disturbed => uses[c.code] = 0
      BY <3>1, <3>3 DEF UsesAreFew
    <3>5. k \notin disturbed => c.code = Newest(k)
      <4> SUFFICES ASSUME k \notin disturbed PROVE c.code = Newest(k)
        OBVIOUS
      <4>1. ASSUME NEW g \in Handlers, Sending(call[g], {"setCode"}), Key(call[g]) = k
            PROVE  FALSE
        <5>1. g = h
          BY <4>1, <3>1, OwnSubjects, Alone DEF c
        <5> QED
          BY <4>1, <5>1 DEF Sending
      <4>2. codes[k] = Stand(k)
        BY <4>1, <3>1 DEF NewestIsStored
      <4> QED
        BY <4>2, <3>1, <3>2 DEF Stand
    <3> QED
      BY <2>1, <2>2, <3>1, <3>3, <3>4, <3>5 DEF HoldsCode, Unspoilt, HoldsNewest
  <2>5. HasWindow(r)
    <3> SUFFICES ASSUME Sending(c, {"checkRateLimit"}), Mail(c) \notin disturbed
                 PROVE  window[c.email] = 0
      BY <1>2, <2>1 DEF HasWindow
    <3>1. c.email \in Emails /\ Mail(c) \in c.subjects /\ c.email \notin limits
      BY OwnSubjects DEF Sending, IsSend, c
    <3>2. ASSUME NEW g \in Handlers, Sending(call[g], {"setCode", "setRateLimit"}), call[g].email = c.email
          PROVE  FALSE
      <4>1. g = h
        BY <3>1, <3>2, OwnSubjects, Alone DEF c, Mail
      <4> QED
        BY <3>2, <4>1 DEF Sending
    <3>3. window[c.email] <= 1 /\ window[c.email] # 1 /\ window[c.email] \in Nat
      BY <3>1, <3>2 DEF WindowsAreLimited, Mail, TypesOK
    <3> QED
      BY <3>3
  <2>6. \A g \in Handlers : g # h => r.subjects \cap call[g].subjects \subseteq disturbed'
    BY <2>1 DEF OverlapsAreKnown, c
  <2>7. Sending(call[h], {"setCode", "setRateLimit"}) => call[h].subjects \subseteq disturbed'
    BY DEF Sending
  <2> QED
    BY <1>1, <1>2, <2>4, <2>5, <2>6, <2>7, CallChange, Zenon
<1> QED
  BY <1>3, <1>4

-----------------------------------------------------------------------------
(* Requests that begin.                                                    *)

LEMMA BeginInv ==
  ASSUME Inv, NEW h \in Handlers, NEW c, WellFormed(c),
         Head(c.todo) \in {"getByEmail", "emailExists", "checkPassword", "admit"},
         Begin(h, c)
  PROVE  Inv'
<1>1. /\ call' = [call EXCEPT ![h] = c] /\ call[h] = Idle
      /\ disturbed' = disturbed \cup (c.subjects \cap UNION {call[g].subjects : g \in Handlers})
      /\ SessionsStay /\ UNCHANGED <<codes, limits, mailed, spent, uses, window>>
  BY NoSession DEF Begin, redisVars
<1>2. /\ disturbed \subseteq disturbed'
      /\ \A g \in Handlers : g # h => c.subjects \cap call[g].subjects \subseteq disturbed'
  BY <1>1
<1>3. ~Sending(call[h], {"setCode", "setRateLimit"})
  BY <1>1, IdleFacts, SendFacts DEF Sending, IsSend
<1>4. HoldsCode(c) /\ Unspoilt(c) /\ HoldsNewest(c) /\ HasWindow(c)
  BY DEF HoldsCode, Unspoilt, HoldsNewest, HasWindow, Holder, Sending, Using
<1> QED
  BY <1>1, <1>2, <1>3, <1>4, CallChange, Zenon

LEMMA SendRequestsInv ==
  ASSUME Inv, NEW h \in Handlers, LSendCode(h) \/ RSendCode(h) \/ SendResetPasswordCode(h)
  PROVE  Inv'
<1>1. /\ LSendCodeCalls \in SendSuffixes /\ Head(LSendCodeCalls) = "getByEmail"
      /\ RSendCodeCalls \in SendSuffixes /\ Head(RSendCodeCalls) = "emailExists"
      /\ SendResetPasswordCodeCalls \in SendSuffixes /\ Head(SendResetPasswordCodeCalls) = "getByEmail"
  BY Tails DEF LSendCodeCalls, RSendCodeCalls, SendResetPasswordCodeCalls, SendSuffixes
<1>2. ASSUME NEW kind \in Kinds, NEW e \in Emails, NEW todo \in SendSuffixes
      PROVE  WellFormed(Send(kind, e, todo)) /\ Send(kind, e, todo).todo = todo
  <2>0. <<kind, e>> \in Subjects /\ <<"mail", e>> \in Subjects
    BY DEF Subjects
  <2>1. /\ Send(kind, e, todo) \in CallRecords
        /\ Send(kind, e, todo).todo = todo
    BY <2>0 DEF Send, Idle, CallRecords
  <2>2. IsSend(Send(kind, e, todo))
    BY DEF Send, Idle, IsSend, Key, Mail
  <2> QED
    BY <2>1, <2>2 DEF WellFormed
<1>3. PICK kind \in Kinds, e \in Emails, todo \in SendSuffixes :
        Head(todo) \in {"getByEmail", "emailExists"} /\ Begin(h, Send(kind, e, todo))
  BY <1>1 DEF LSendCode, RSendCode, SendResetPasswordCode, Kinds
<1> QED
  BY <1>2, <1>3, BeginInv

LEMMA UseRequestsInv ==
  ASSUME Inv, NEW h \in Handlers, Register(h) \/ LoginByCode(h) \/ ResetPassword(h)
  PROVE  Inv'
<1>1. /\ RegisterCalls \in UseSuffixes /\ Head(RegisterCalls) = "emailExists"
      /\ LoginByCodeCalls \in UseSuffixes /\ Head(LoginByCodeCalls) = "getByEmail"
      /\ ResetPasswordCalls \in UseSuffixes /\ Head(ResetPasswordCalls) = "getByEmail"
  BY Tails DEF RegisterCalls, LoginByCodeCalls, ResetPasswordCalls, UseSuffixes
<1>2. ASSUME NEW kind \in Kinds, NEW e \in Emails, NEW n \in DOMAIN mailed, NEW todo \in UseSuffixes
      PROVE  WellFormed(Use(kind, e, n, todo)) /\ Use(kind, e, n, todo).todo = todo
  <2>0. n \in Nat
    BY DEF Inv, TypesOK
  <2>3. <<kind, e>> \in Subjects
    BY DEF Subjects
  <2>1. /\ Use(kind, e, n, todo) \in CallRecords
        /\ Use(kind, e, n, todo).todo = todo
    BY <2>0, <2>3 DEF Use, Idle, CallRecords
  <2>2. IsUse(Use(kind, e, n, todo))
    BY DEF Use, Idle, IsUse, Key
  <2> QED
    BY <2>1, <2>2 DEF WellFormed
<1>3. PICK kind \in Kinds, e \in Emails, n \in DOMAIN mailed, todo \in UseSuffixes :
        Head(todo) \in {"getByEmail", "emailExists"} /\ Begin(h, Use(kind, e, n, todo))
  BY <1>1 DEF Register, LoginByCode, ResetPassword, Kinds
<1> QED
  BY <1>2, <1>3, BeginInv

LEMMA OtherRequestsInv ==
  ASSUME Inv, NEW h \in Handlers, Login(h) \/ Logout(h) \/ VerifyToken(h)
  PROVE  Inv'
<1>1. /\ LoginCalls \in OtherSuffixes \ SessionSuffixes /\ Head(LoginCalls) = "checkPassword"
      /\ LogoutCalls \in SessionSuffixes /\ Head(LogoutCalls) = "admit"
      /\ VerifyTokenCalls \in SessionSuffixes /\ Head(VerifyTokenCalls) = "admit"
  BY Tails DEF LoginCalls, LogoutCalls, VerifyTokenCalls, OtherSuffixes, SessionSuffixes
<1>2. CASE Login(h)
  <2>1. PICK e \in Emails, n \in DOMAIN mailed \cup {NoPassword} :
          Begin(h, [Idle EXCEPT !.email = e, !.code = n, !.todo = LoginCalls])
    BY <1>2 DEF Login
  <2> DEFINE c == [Idle EXCEPT !.email = e, !.code = n, !.todo = LoginCalls]
  <2>2. n \in Nat
    BY DEF Inv, TypesOK, NoPassword
  <2>3. c \in CallRecords /\ IsOther(c) /\ c.todo = LoginCalls
    BY <1>1, <2>2 DEF Idle, CallRecords, IsOther
  <2>4. WellFormed(c)
    BY <2>3 DEF WellFormed
  <2> HIDE DEF c
  <2>5. Begin(h, c)
    BY <2>1 DEF c
  <2> QED
    BY <1>1, <2>3, <2>4, <2>5, BeginInv
<1>3. CASE Logout(h) \/ VerifyToken(h)
  <2>1. PICK i \in DOMAIN sessions, todo \in SessionSuffixes :
          Head(todo) = "admit" /\ Begin(h, [Idle EXCEPT !.session = i, !.todo = todo])
    BY <1>1, <1>3 DEF Logout, VerifyToken
  <2> DEFINE c == [Idle EXCEPT !.session = i, !.todo = todo]
  <2>2. i \in Nat
    BY DEF Inv, TypesOK
  <2>3. c \in CallRecords /\ IsOther(c) /\ c.todo = todo
    BY <2>2 DEF Idle, CallRecords, IsOther, OtherSuffixes
  <2>4. WellFormed(c)
    BY <2>3 DEF WellFormed
  <2> HIDE DEF c
  <2>5. Begin(h, c)
    BY <2>1 DEF c
  <2> QED
    BY <2>1, <2>3, <2>4, <2>5, BeginInv
<1> QED
  BY <1>2, <1>3

-----------------------------------------------------------------------------
(* Calls that read, and calls that fail.                                   *)

LEMMA QuietCallsInv ==
  ASSUME Inv, NEW h \in Handlers,
         \/ GetByEmail(h) \/ EmailExists(h) \/ CheckPassword(h) \/ CheckRateLimit(h) \/ GetCode(h)
         \/ CreateProfile(h) \/ Admit(h)
  PROVE  Inv'
<1> USE DEF GetByEmail, EmailExists, CheckPassword, CheckRateLimit, GetCode, CreateProfile, Admit
<1>1. call[h].todo # <<>>
  BY DEF At
<1>2. SessionsStay /\ UNCHANGED <<codes, limits, mailed, spent, uses, window, disturbed>>
  BY NoSession DEF redisVars, history
<1>3. Head(call[h].todo) \in {"getByEmail", "emailExists", "checkPassword", "checkRateLimit", "getCode",
                              "createProfile", "admit"}
  BY DEF At
<1>4. ~Sending(call[h], {"sendEmail", "setCode", "setRateLimit"}) /\ ~Using(call[h], {"deleteCode"})
      /\ ~Sending(call[h], {"setCode", "setRateLimit"})
  BY <1>3 DEF Sending, Using
<1>5. \/ Return(h)
      \/ Continue(h) /\ (Head(call[h].todo) = "getCode" => codes[CodeKey(h)] = call[h].code)
                     /\ (Head(call[h].todo) = "checkRateLimit" => LimitKey(call[h]) \notin limits)
  BY DEF At, ContinueIf
<1>6. CASE Return(h)
  BY <1>2, <1>4, <1>6, ReturnInv
<1>7. CASE Continue(h) /\ (Head(call[h].todo) = "getCode" => codes[CodeKey(h)] = call[h].code)
                       /\ (Head(call[h].todo) = "checkRateLimit" => LimitKey(call[h]) \notin limits)
  <2>1. Using(call[h], {"getCode"}) => codes[Key(call[h])] = call[h].code
    BY <1>7 DEF Using, CodeKey, Key
  <2>2. Sending(call[h], {"checkRateLimit"}) => call[h].email \notin limits
    BY <1>7 DEF Sending, LimitKey
  <2> QED
    BY <1>1, <1>2, <1>4, <1>7, <2>1, <2>2, ContinueInv
<1> QED
  BY <1>5, <1>6, <1>7

\* A failing call disturbs its subjects, so that nothing more is owed.
LEMMA FailInv ==
  ASSUME Inv, NEW h \in Handlers, Fail(h)
  PROVE  Inv'
<1> DEFINE r == RestOf(call[h])
<1>1. /\ call[h].todo # <<>> /\ disturbed' = disturbed \cup call[h].subjects
      /\ SessionsStay /\ UNCHANGED <<codes, limits, mailed, spent, uses, window>>
      /\ Head(call[h].todo) # "signIn"
  BY NoSession DEF Fail, redisVars
<1>2. CASE Return(h)
  BY <1>1, <1>2, ReturnInv
<1>3. CASE Continue(h) /\ Unchecked(h)
  <2>1. WellFormed(call[h]) /\ call' = [call EXCEPT ![h] = r]
    BY <1>3 DEF Inv, TypesOK, Continue, Go, RestOf
  <2>2. /\ WellFormed(r) /\ r.subjects \subseteq call[h].subjects
        /\ r = Idle \/ (r.kind = call[h].kind /\ r.email = call[h].email /\ r.code = call[h].code)
        /\ Sending(r, {"setCode"}) => Sending(call[h], {"sendEmail"})
        /\ Using(r, {"deleteCode"}) => Using(call[h], {"getCode"})
        /\ Using(r, {"create", "update", "signIn"}) => Using(call[h], {"deleteCode"})
    BY <1>1, <2>1, RestFacts
  <2>3. Head(call[h].todo) \in {"setRateLimit", "createProfile", "blacklistAccess", "blacklistRefresh", "deleteCode"}
    BY <1>3 DEF Unchecked, At
  <2>4. HoldsCode(r)
    <3>1. HoldsCode(call[h])
      BY DEF Inv, CodesAreMailed
    <3>2. Holder(r) => Using(call[h], {"deleteCode"})
      BY <2>2, <2>3 DEF Holder, Sending, Using
    <3>3. Using(call[h], {"deleteCode"}) => Holder(call[h])
      BY DEF Holder, Using
    <3>4. CASE r = Idle
      BY <3>4, IdleOwesNothing
    <3>5. CASE r # Idle
      BY <3>1, <3>2, <3>3, <3>5, <2>2 DEF HoldsCode, Key
    <3> QED
      BY <3>4, <3>5
  <2>5. \A g \in Handlers : g # h => r.subjects \cap call[g].subjects \subseteq disturbed'
    BY <1>1, <2>2
  <2>6. r.subjects \subseteq disturbed' /\ disturbed \subseteq disturbed' /\ call[h].subjects \subseteq disturbed'
    BY <1>1, <2>2
  <2> HIDE DEF r
  <2> QED
    BY <1>1, <2>1, <2>2, <2>4, <2>5, <2>6, CallChange, Zenon
<1> QED
  BY <1>2, <1>3 DEF Fail, ContinueIf

-----------------------------------------------------------------------------
(* Sessions and tokens.                                                    *)

LEMMA NoCallInv ==
  ASSUME Inv, UNCHANGED <<call, codes, limits, mailed, spent, uses, window, disturbed>>, SessionsStay
  PROVE  Inv'
<1> USE DEF Inv
<1>1. \A x : WellFormed(x) => WellFormed(x)'
  BY DEF WellFormed, IsSend, IsUse, IsOther, SessionsStay
<1>2. \A x, steps : (Sending(x, steps)' <=> Sending(x, steps)) /\ (Using(x, steps)' <=> Using(x, steps))
  BY DEF Sending, Using, IsSend, IsUse
<1>3. \A x : Holder(x)' <=> Holder(x)
  BY <1>2 DEF Holder
<1>4. /\ \A k : Newest(k)' = Newest(k) /\ Stand(k)' = Stand(k)
      /\ \A n : KeyOf(n)' = KeyOf(n)
  BY DEF Newest, Stand, KeyOf
<1>5. TypesOK' /\ OverlapsAreKnown'
  BY <1>1 DEF TypesOK, OverlapsAreKnown, SessionsStay, Pair
<1>6. CodesAreMailed'
  BY <1>3, <1>4 DEF CodesAreMailed, HoldsCode
<1>7. UsesAreFew'
  BY <1>2, <1>3, <1>4 DEF UsesAreFew, Unspoilt
<1>8. NewestIsStored'
  BY <1>2, <1>4 DEF NewestIsStored, HoldsNewest
<1>9. WindowsAreLimited'
  BY <1>2 DEF WindowsAreLimited, HasWindow
<1> QED
  BY <1>5, <1>6, <1>7, <1>8, <1>9 DEF SessionsStay

LEMMA NewSession ==
  ASSUME Inv, NEW e \in Emails \cup {None}, GenerateTokenPair(e), UNCHANGED <<second, blacklist, loggedOut>>
  PROVE  SessionsStay
<1> DEFINE s == [email |-> e, second |-> second]
<1>1. /\ sessions \in Seq(Pair) /\ s \in Pair /\ second \in Nat
      /\ sessions' = Append(sessions, s)
  BY DEF Inv, TypesOK, Pair, GenerateTokenPair
<1>2. /\ sessions' \in Seq(Pair)
      /\ DOMAIN sessions \subseteq DOMAIN sessions'
      /\ \A i \in DOMAIN sessions : sessions'[i] = sessions[i]
  BY <1>1
<1>3. LogoutsAreKnown'
  BY <1>2 DEF Inv, LogoutsAreKnown
<1> QED
  BY <1>1, <1>2, <1>3 DEF SessionsStay

LEMMA RefreshTokenInv ==
  ASSUME Inv, RefreshToken
  PROVE  Inv'
<1>1. PICK i \in DOMAIN sessions : GenerateTokenPair(sessions[i].email)
  BY DEF RefreshToken
<1>2. sessions[i].email \in Emails \cup {None}
  <2>1. sessions \in Seq(Pair)
    BY DEF Inv, TypesOK, Pair
  <2>2. sessions[i] \in Pair
    BY <2>1
  <2> QED
    BY <2>2 DEF Pair
<1>3. /\ UNCHANGED <<second, blacklist, loggedOut>>
      /\ UNCHANGED <<call, codes, limits, mailed, spent, uses, window, disturbed>>
  BY DEF RefreshToken, redisVars, history
<1> QED
  BY <1>1, <1>2, <1>3, NewSession, NoCallInv

LEMMA TickInv ==
  ASSUME Inv, Tick \/ UNCHANGED vars
  PROVE  Inv'
<1>1. SessionsStay
  BY DEF Inv, TypesOK, LogoutsAreKnown, SessionsStay, Pair, Tick, vars, redisVars, history
<1> QED
  BY <1>1, NoCallInv DEF Tick, vars, redisVars, history

LEMMA BlacklistInv ==
  ASSUME Inv, NEW h \in Handlers, BlacklistAccess(h) \/ BlacklistRefresh(h)
  PROVE  Inv'
<1>1. PICK type \in {"access", "refresh"}, step \in {"blacklistAccess", "blacklistRefresh"} :
        BlacklistToken(h, step, type)
  BY DEF BlacklistAccess, BlacklistRefresh
<1>2. /\ call[h].todo # <<>> /\ Continue(h)
      /\ Head(call[h].todo) \in {"blacklistAccess", "blacklistRefresh"}
      /\ UNCHANGED <<codes, limits, mailed, spent, uses, window, disturbed>>
  BY <1>1 DEF BlacklistToken, At
<1>3. IsOther(call[h]) /\ call[h].session \in DOMAIN sessions
  BY <1>2, Families DEF Inv, TypesOK
<1>4. GetTokenJTI(type, call[h].session)[2] = sessions[call[h].session]
  BY DEF GetTokenJTI
<1>5. SessionsStay
  BY <1>1, <1>3, <1>4 DEF BlacklistToken, Inv, TypesOK, LogoutsAreKnown, SessionsStay, Pair
<1>6. ~IsSend(call[h]) /\ ~IsUse(call[h])
  BY <1>3 DEF IsOther, IsSend, IsUse
<1> QED
  BY <1>2, <1>5, <1>6, ContinueInv DEF Sending, Using

-----------------------------------------------------------------------------
(* Calls that change what is stored.                                       *)

LEMMA MailedKeys ==
  ASSUME TypesOK, NEW n \in DOMAIN mailed
  PROVE  KeyOf(n) \in Keys /\ n \in Codes /\ n # 0
<1> DEFINE R == [kind : Kinds, email : Emails]
<1>1. mailed \in Seq(R) /\ Len(mailed) <= MaxMails
  BY DEF TypesOK
<1>2. mailed[n] \in R /\ n \in 1..Len(mailed)
  <2> HIDE DEF R
  <2> QED
    BY <1>1
<1> QED
  BY <1>1, <1>2, BoundsAssumption DEF KeyOf, Keys, Codes

LEMMA NextToSend ==
  ASSUME NEW t \in SendSuffixes
  PROVE  /\ Head(t) = "sendEmail" => Len(t) # 1 /\ Head(Tail(t)) = "setCode"
         /\ Head(t) = "setCode" => Len(t) # 1 /\ Head(Tail(t)) = "setRateLimit"
<1>1. Head(t) = "sendEmail" => t = <<"sendEmail", "setCode", "setRateLimit">>
  BY Tails DEF SendSuffixes
<1>2. Head(t) = "setCode" => t = <<"setCode", "setRateLimit">>
  BY Tails DEF SendSuffixes
<1> QED
  BY <1>1, <1>2, Tails

\* What a call leaves alone: the other requests, and which family each is of.
LEMMA Frame ==
  ASSUME TypesOK, OverlapsAreKnown, NEW h \in Handlers, NEW c, WellFormed(c), c.todo # <<>>,
         c.subjects = call[h].subjects, Go(h, c),
         UNCHANGED disturbed,
         DOMAIN mailed \subseteq DOMAIN mailed', DOMAIN sessions \subseteq DOMAIN sessions'
  PROVE  /\ call'[h] = RestOf(c) /\ DOMAIN call' = Handlers
         /\ \A g \in Handlers : g # h => call'[g] = call[g]
         /\ \A g \in Handlers : WellFormed(call'[g]) /\ WellFormed(call[g])'
         /\ OverlapsAreKnown'
         /\ \A x : WellFormed(x) => /\ \A steps : /\ Sending(x, steps)' <=> Sending(x, steps)
                                                  /\ Using(x, steps)' <=> Using(x, steps)
                                    /\ Holder(x)' <=> Holder(x)
<1>1. call' = [call EXCEPT ![h] = RestOf(c)]
  BY DEF Go, RestOf
<1>2. /\ call'[h] = RestOf(c) /\ DOMAIN call' = Handlers
      /\ \A g \in Handlers : g # h => call'[g] = call[g]
  BY <1>1 DEF TypesOK
<1>3. WellFormed(RestOf(c)) /\ RestOf(c).subjects \subseteq call[h].subjects
  BY RestFacts
<1>4. \A g \in Handlers : WellFormed(call'[g])
  BY <1>2, <1>3 DEF TypesOK
<1>5. \A x : (IsSend(x)' <=> IsSend(x)) /\ (IsUse(x) => IsUse(x)') /\ (IsOther(x) => IsOther(x)')
  BY DEF IsSend, IsUse, IsOther
<1>6. \A x : WellFormed(x) => WellFormed(x)'
  BY <1>5 DEF WellFormed
<1>7. ASSUME NEW x, WellFormed(x), IsUse(x)'
      PROVE  IsUse(x)
  <2>1. ~IsOther(x)
    BY <1>7 DEF IsOther, IsUse, WellFormed, Kinds
  <2>2. ~IsSend(x)
    BY <1>7, TwoSubjects DEF IsUse, Key
  <2> QED
    BY <1>7, <2>1, <2>2 DEF WellFormed
<1>8. ASSUME NEW x, WellFormed(x)
      PROVE  /\ \A steps : (Sending(x, steps)' <=> Sending(x, steps)) /\ (Using(x, steps)' <=> Using(x, steps))
             /\ Holder(x)' <=> Holder(x)
  BY <1>5, <1>7, <1>8 DEF Sending, Using, Holder
<1>9. \A g \in Handlers : WellFormed(call[g])'
  BY <1>4, <1>6
<1>10. OverlapsAreKnown'
  BY <1>2, <1>3 DEF OverlapsAreKnown
<1> QED
  BY <1>2, <1>4, <1>8, <1>9, <1>10

LEMMA SetCodeInv ==
  ASSUME Inv, NEW h \in Handlers, SetCode(h)
  PROVE  Inv'
<1> DEFINE c == call[h]
           k == Key(c)
           r == RestOf(c)
<1> USE DEF Inv
<1>1. /\ c.todo # <<>> /\ Head(c.todo) = "setCode" /\ Go(h, c) /\ WellFormed(c)
      /\ codes' = [codes EXCEPT ![k] = c.code]
      /\ UNCHANGED <<limits, blacklist, mailed, sessions, spent, uses, window, loggedOut, second, disturbed>>
  BY DEF SetCode, At, Continue, Stored, CodeKey, Key, TypesOK, history
<1>2. Sending(c, {"setCode"}) /\ IsSend(c)
  BY <1>1, Families DEF Sending
<1>3. k \in Keys /\ c.email \in Emails /\ k \in c.subjects /\ Mail(c) \in c.subjects
  BY <1>2, OwnSubjects DEF IsSend, Key, Keys
<1>4. /\ call'[h] = r /\ DOMAIN call' = Handlers
      /\ \A g \in Handlers : g # h => call'[g] = call[g]
      /\ \A g \in Handlers : WellFormed(call'[g]) /\ WellFormed(call[g])'
      /\ OverlapsAreKnown'
      /\ \A g \in Handlers : /\ \A steps : /\ Sending(call[g], steps)' <=> Sending(call'[g], steps)
                                           /\ Using(call[g], steps)' <=> Using(call'[g], steps)
                             /\ Holder(call[g])' <=> Holder(call'[g])
  BY <1>1, Frame
<1>5. /\ Sending(r, {"setRateLimit"}) /\ r.email = c.email
      /\ ~Sending(r, {"sendEmail"}) /\ ~Sending(r, {"setCode"}) /\ ~Holder(r)
      /\ ~Using(r, {"deleteCode"}) /\ ~Using(r, {"create", "update", "signIn"})
  <2>1. Len(c.todo) # 1 /\ Head(Tail(c.todo)) = "setRateLimit" /\ Tail(c.todo) \in SendSuffixes
    BY <1>2, NextToSend, SendFacts DEF Sending, IsSend
  <2>2. r.todo = Tail(c.todo) /\ r.email = c.email /\ r.kind = c.kind /\ r.subjects = c.subjects
    BY <2>1, <1>1 DEF RestOf, WellFormed, CallRecords
  <2>3. IsSend(r)
    BY <1>2, <2>1, <2>2 DEF IsSend, Key, Mail
  <2>4. ~IsUse(r)
    BY <2>3, OneFamily
  <2> QED
    BY <2>1, <2>2, <2>3, <2>4 DEF Sending, Using, Holder
<1>6. c.code \in DOMAIN mailed /\ KeyOf(c.code) = k
  BY <1>2 DEF CodesAreMailed, HoldsCode, Holder
<1>7. k \notin disturbed => /\ uses[c.code] = 0 /\ c.code = Newest(k) /\ c.code \notin spent
  BY <1>2 DEF UsesAreFew, Unspoilt, Holder, NewestIsStored, HoldsNewest
<1>8. /\ codes'[k] = c.code
      /\ \A x \in Keys : x # k => codes'[x] = codes[x]
  BY <1>1, <1>3 DEF TypesOK
<1>9. ASSUME NEW g \in Handlers, g # h, Key(call[g]) \in call[g].subjects, Key(call[g]) \notin disturbed
      PROVE  Key(call[g]) # k
  BY <1>3, <1>9, Alone
<1>10. /\ \A x : Newest(x)' = Newest(x) /\ Stand(x)' = Stand(x)
       /\ \A n : KeyOf(n)' = KeyOf(n)
  BY <1>1 DEF Newest, Stand, KeyOf
<1> HIDE DEF c, k, r
<1>11. TypesOK'
  BY <1>1, <1>3, <1>4, <1>6 DEF TypesOK
<1>12. CodesAreMailed'
  <2>1. \A g \in Handlers : HoldsCode(call[g])'
    BY <1>4, <1>5, <1>10, <1>1 DEF CodesAreMailed, HoldsCode, Key
  <2>2. \A x \in Keys : codes'[x] # 0 => codes'[x] \in DOMAIN mailed' /\ KeyOf(codes[x])' = x
    BY <1>1, <1>6, <1>8, <1>10 DEF CodesAreMailed
  <2> QED
    BY <2>1, <2>2 DEF CodesAreMailed
<1>13. UsesAreFew'
  <2>1. ASSUME NEW g \in Handlers PROVE Unspoilt(call[g])'
    <3>1. CASE g = h
      BY <3>1, <1>4, <1>5 DEF Unspoilt
    <3>2. CASE g # h
      <4>1. call'[g] = call[g] /\ Unspoilt(call[g])
        BY <3>2, <1>4 DEF UsesAreFew
      <4>2. Using(call[g], {"create", "update", "signIn"}) /\ Key(call[g]) \notin disturbed
              => codes'[Key(call[g])] # call[g].code
        <5> SUFFICES ASSUME Using(call[g], {"create", "update", "signIn"}), Key(call[g]) \notin disturbed
                     PROVE  codes'[Key(call[g])] # call[g].code
          OBVIOUS
        <5>1. Key(call[g]) \in call[g].subjects /\ Key(call[g]) \in Keys
          BY OwnSubjects DEF Using, IsUse, Key, Keys
        <5>2. Key(call[g]) # k
          BY <5>1, <1>9, <3>2
        <5> QED
          BY <5>1, <5>2, <4>1, <1>8 DEF Unspoilt
      <4> QED
        BY <4>1, <4>2, <1>4, <1>1 DEF Unspoilt, Key
    <3> QED
      BY <3>1, <3>2
  <2>2. ASSUME NEW n \in DOMAIN mailed', KeyOf(n)' \notin disturbed'
        PROVE  uses'[n] <= 1 /\ (codes'[KeyOf(n)'] = n => uses'[n] = 0)
    <3>1. KeyOf(n) \in Keys
      BY <1>1, <2>2, MailedKeys
    <3> QED
      BY <2>2, <3>1, <1>1, <1>7, <1>8, <1>10 DEF UsesAreFew
  <2> QED
    BY <2>1, <2>2 DEF UsesAreFew
<1>14. NewestIsStored'
  <2>1. ASSUME NEW g \in Handlers PROVE HoldsNewest(call[g])'
    <3>1. CASE g = h
      BY <3>1, <1>4, <1>5 DEF HoldsNewest
    <3>2. CASE g # h
      <4>1. call'[g] = call[g] /\ HoldsNewest(call[g])
        BY <3>2, <1>4 DEF NewestIsStored
      <4>2. Sending(call[g], {"setCode"}) /\ Key(call[g]) \notin disturbed
              => codes'[Key(call[g])] = codes[Key(call[g])]
        <5> SUFFICES ASSUME Sending(call[g], {"setCode"}), Key(call[g]) \notin disturbed
                     PROVE  codes'[Key(call[g])] = codes[Key(call[g])]
          OBVIOUS
        <5>1. Key(call[g]) \in call[g].subjects /\ Key(call[g]) \in Keys
          BY OwnSubjects DEF Sending, IsSend, Key, Keys
        <5> QED
          BY <5>1, <1>8, <1>9, <3>2
      <4> QED
        BY <4>1, <4>2, <1>4, <1>1, <1>10 DEF HoldsNewest, Key
    <3> QED
      BY <3>1, <3>2
  <2>2. \A x \in Keys : Newest(x)' = 0 \/ (Newest(x)' \in DOMAIN mailed' /\ KeyOf(Newest(x))' = x)
    BY <1>1, <1>10 DEF NewestIsStored
  <2>3. ASSUME NEW x \in Keys \ disturbed'
        PROVE  \/ \E g \in Handlers : Sending(call[g], {"setCode"})' /\ Key(call[g])' = x
               \/ codes'[x] = Stand(x)'
    <3>1. CASE x = k
      BY <3>1, <2>3, <1>1, <1>7, <1>8, <1>10 DEF Stand
    <3>2. CASE x # k
      BY <3>2, <2>3, <1>1, <1>4, <1>8, <1>10 DEF NewestIsStored, Key, c, k
    <3> QED
      BY <3>1, <3>2
  <2> QED
    BY <2>1, <2>2, <2>3 DEF NewestIsStored
<1>15. WindowsAreLimited'
  <2>1. \A g \in Handlers : HasWindow(call[g])'
    BY <1>1, <1>4, <1>5 DEF WindowsAreLimited, HasWindow, Mail, Sending
  <2>2. ASSUME NEW e \in Emails, NEW g \in Handlers, Sending(call[g], {"setCode", "setRateLimit"}), call[g].email = e
        PROVE  \E x \in Handlers : Sending(call[x], {"setCode", "setRateLimit"})' /\ call'[x].email = e
    BY <2>2, <1>4, <1>5 DEF Sending, c
  <2> QED
    BY <1>1, <2>1, <2>2 DEF WindowsAreLimited
<1>16. LogoutsAreKnown'
  BY <1>1 DEF LogoutsAreKnown
<1> QED
  BY <1>4, <1>11, <1>12, <1>13, <1>14, <1>15, <1>16

LEMMA SetRateLimitInv ==
  ASSUME Inv, NEW h \in Handlers, SetRateLimit(h)
  PROVE  Inv'
<1> DEFINE c == call[h]
           r == RestOf(c)
<1> USE DEF Inv
<1>1. /\ c.todo # <<>> /\ Head(c.todo) = "setRateLimit" /\ Go(h, c) /\ WellFormed(c)
      /\ limits' = limits \cup {c.email}
      /\ UNCHANGED <<codes, blacklist, mailed, sessions, spent, uses, window, loggedOut, second, disturbed>>
  BY DEF SetRateLimit, At, Continue, LimitKey, TypesOK, history
<1>2. /\ call'[h] = r /\ DOMAIN call' = Handlers
      /\ \A g \in Handlers : g # h => call'[g] = call[g]
      /\ \A g \in Handlers : WellFormed(call'[g]) /\ WellFormed(call[g])'
      /\ OverlapsAreKnown'
      /\ \A g \in Handlers : /\ \A steps : /\ Sending(call[g], steps)' <=> Sending(call'[g], steps)
                                           /\ Using(call[g], steps)' <=> Using(call'[g], steps)
                             /\ Holder(call[g])' <=> Holder(call'[g])
  BY <1>1, Frame
<1>3. /\ ~Sending(r, {"sendEmail"}) /\ ~Sending(r, {"setCode"}) /\ ~Holder(r)
      /\ ~Using(r, {"deleteCode"}) /\ ~Using(r, {"create", "update", "signIn"})
      /\ ~Sending(c, {"setCode"})
  <2>1. ~Sending(c, {"checkRateLimit"}) /\ ~Sending(c, {"sendEmail"}) /\ ~Sending(c, {"setCode"})
        /\ ~Using(c, {"getCode"}) /\ ~Using(c, {"deleteCode"})
    BY <1>1 DEF Sending, Using
  <2>2. /\ ~Sending(r, {"sendEmail"}) /\ ~Sending(r, {"setCode"})
        /\ ~Using(r, {"deleteCode"}) /\ ~Using(r, {"create", "update", "signIn"})
    BY <1>1, <2>1, RestFacts
  <2> QED
    BY <2>1, <2>2 DEF Holder, Using
<1>4. /\ \A x : Newest(x)' = Newest(x) /\ Stand(x)' = Stand(x)
      /\ \A n : KeyOf(n)' = KeyOf(n)
  BY <1>1 DEF Newest, Stand, KeyOf
<1> HIDE DEF r
<1>5. TypesOK'
  BY <1>1, <1>2 DEF TypesOK
<1>6. CodesAreMailed'
  <2>1. \A g \in Handlers : HoldsCode(call[g])'
    BY <1>1, <1>2, <1>3, <1>4 DEF CodesAreMailed, HoldsCode, Key
  <2> QED
    BY <2>1, <1>1, <1>4 DEF CodesAreMailed
<1>7. UsesAreFew'
  <2>1. \A g \in Handlers : Unspoilt(call[g])'
    BY <1>1, <1>2, <1>3 DEF UsesAreFew, Unspoilt, Key
  <2> QED
    BY <2>1, <1>1, <1>4 DEF UsesAreFew
<1>8. NewestIsStored'
  <2>1. \A g \in Handlers : HoldsNewest(call[g])'
    BY <1>1, <1>2, <1>3, <1>4 DEF NewestIsStored, HoldsNewest, Key
  <2>2. \A k \in Keys : Newest(k)' = 0 \/ (Newest(k)' \in DOMAIN mailed' /\ KeyOf(Newest(k))' = k)
    BY <1>1, <1>4 DEF NewestIsStored
  <2>3. \A k \in Keys \ disturbed' :
          \/ \E g \in Handlers : Sending(call[g], {"setCode"})' /\ Key(call[g])' = k
          \/ codes'[k] = Stand(k)'
    BY <1>1, <1>2, <1>3, <1>4 DEF NewestIsStored, Key
  <2> QED
    BY <2>1, <2>2, <2>3 DEF NewestIsStored
<1>9. WindowsAreLimited'
  <2>1. \A g \in Handlers : HasWindow(call[g])'
    BY <1>1, <1>2, <1>3 DEF WindowsAreLimited, HasWindow, Mail
  <2>2. ASSUME NEW e \in Emails, NEW g \in Handlers, Sending(call[g], {"setCode", "setRateLimit"}), call[g].email = e
        PROVE  \/ e \in limits'
               \/ \E x \in Handlers : Sending(call[x], {"setCode", "setRateLimit"})' /\ call'[x].email = e
    BY <2>2, <1>1, <1>2
  <2> QED
    BY <1>1, <2>1, <2>2 DEF WindowsAreLimited
<1>10. LogoutsAreKnown'
  BY <1>1 DEF LogoutsAreKnown
<1> QED
  BY <1>2, <1>5, <1>6, <1>7, <1>8, <1>9, <1>10

LEMMA DeleteCodeInv ==
  ASSUME Inv, NEW h \in Handlers, DeleteCode(h)
  PROVE  Inv'
<1> DEFINE c == call[h]
           k == Key(c)
           r == RestOf(c)
<1> USE DEF Inv
<1>1. /\ c.todo # <<>> /\ Head(c.todo) = "deleteCode" /\ Go(h, c) /\ WellFormed(c)
      /\ codes' = [codes EXCEPT ![k] = 0] /\ spent' = spent \cup {c.code}
      /\ UNCHANGED <<limits, blacklist, mailed, sessions, uses, window, loggedOut, second, disturbed>>
  BY DEF DeleteCode, At, Continue, CodeKey, Key, TypesOK
<1>2. Using(c, {"deleteCode"}) /\ IsUse(c)
  BY <1>1, Families DEF Using
<1>3. k \in Keys /\ k \in c.subjects
  BY <1>2, OwnSubjects DEF IsUse, Key, Keys
<1>4. /\ call'[h] = r /\ DOMAIN call' = Handlers
      /\ \A g \in Handlers : g # h => call'[g] = call[g]
      /\ \A g \in Handlers : WellFormed(call'[g]) /\ WellFormed(call[g])'
      /\ OverlapsAreKnown'
      /\ \A g \in Handlers : /\ \A steps : /\ Sending(call[g], steps)' <=> Sending(call'[g], steps)
                                           /\ Using(call[g], steps)' <=> Using(call'[g], steps)
                             /\ Holder(call[g])' <=> Holder(call'[g])
  BY <1>1, Frame
<1>5. /\ ~Sending(r, {"sendEmail"}) /\ ~Sending(r, {"setCode"}) /\ ~Using(r, {"deleteCode"})
      /\ Holder(r) => r.code = c.code /\ Key(r) = k
      /\ \A steps : ~Sending(c, steps)
  <2>1. ~Using(c, {"getCode"}) /\ \A steps : ~Sending(c, steps)
    BY <1>1, <1>2, OneFamily DEF Sending, Using
  <2>2. ~Sending(r, {"sendEmail"}) /\ ~Sending(r, {"setCode"}) /\ ~Using(r, {"deleteCode"})
    BY <1>1, <2>1, RestFacts
  <2>3. ~Holder(Idle)
    BY IdleFacts, SendFacts, UseFacts DEF Holder, Sending, Using, IsSend, IsUse
  <2>4. r # Idle => r.code = c.code /\ Key(r) = k
    BY <1>1, RestFacts DEF Key
  <2> QED
    BY <2>1, <2>2, <2>3, <2>4
<1>6. c.code \in DOMAIN mailed /\ KeyOf(c.code) = k /\ c.code # 0
  BY <1>2, MailedKeys DEF CodesAreMailed, HoldsCode, Holder, Using
<1>7. k \notin disturbed => uses[c.code] = 0 /\ c.code = Newest(k)
  BY <1>2 DEF UsesAreFew, Unspoilt, Holder, Using, NewestIsStored, HoldsNewest
<1>8. /\ codes'[k] = 0
      /\ \A x \in Keys : x # k => codes'[x] = codes[x]
  BY <1>1, <1>3 DEF TypesOK
<1>9. ASSUME NEW g \in Handlers, g # h, Key(call[g]) \in call[g].subjects, Key(call[g]) \notin disturbed
      PROVE  Key(call[g]) # k
  BY <1>3, <1>9, Alone
<1>10. /\ \A x : Newest(x)' = Newest(x)
       /\ \A n : KeyOf(n)' = KeyOf(n)
  BY <1>1 DEF Newest, KeyOf
<1>11. \A x \in Keys : x # k => Stand(x)' = Stand(x)
  <2>1. ASSUME NEW x \in Keys, x # k PROVE Newest(x) # c.code
    BY <2>1, <1>6 DEF NewestIsStored
  <2> QED
    BY <2>1, <1>1, <1>10 DEF Stand
<1> HIDE DEF c, k, r
<1>12. TypesOK'
  BY <1>1, <1>3, <1>4, <1>6 DEF TypesOK
<1>13. CodesAreMailed'
  <2>1. \A g \in Handlers : HoldsCode(call[g])'
    BY <1>1, <1>4, <1>5, <1>6, <1>10 DEF CodesAreMailed, HoldsCode, Key
  <2>2. \A x \in Keys : codes'[x] # 0 => codes'[x] \in DOMAIN mailed' /\ KeyOf(codes[x])' = x
    BY <1>1, <1>8, <1>10 DEF CodesAreMailed
  <2> QED
    BY <2>1, <2>2 DEF CodesAreMailed
<1>14. UsesAreFew'
  <2>1. ASSUME NEW g \in Handlers PROVE Unspoilt(call[g])'
    <3>1. CASE g = h
      <4>1. Using(r, {"create", "update", "signIn"}) => Holder(r)
        BY DEF Using, Holder
      <4> QED
        BY <3>1, <4>1, <1>1, <1>4, <1>5, <1>6, <1>7, <1>8 DEF Unspoilt, Key
    <3>2. CASE g # h
      <4>1. call'[g] = call[g] /\ Unspoilt(call[g])
        BY <3>2, <1>4 DEF UsesAreFew
      <4>2. Using(call[g], {"create", "update", "signIn"}) /\ Key(call[g]) \notin disturbed
              => codes'[Key(call[g])] = codes[Key(call[g])]
        <5> SUFFICES ASSUME Using(call[g], {"create", "update", "signIn"}), Key(call[g]) \notin disturbed
                     PROVE  codes'[Key(call[g])] = codes[Key(call[g])]
          OBVIOUS
        <5>1. Key(call[g]) \in call[g].subjects /\ Key(call[g]) \in Keys
          BY OwnSubjects DEF Using, IsUse, Key, Keys
        <5> QED
          BY <5>1, <1>8, <1>9, <3>2
      <4> QED
        BY <4>1, <4>2, <1>4, <1>1 DEF Unspoilt, Key
    <3> QED
      BY <3>1, <3>2
  <2>2. ASSUME NEW n \in DOMAIN mailed', KeyOf(n)' \notin disturbed'
        PROVE  uses'[n] <= 1 /\ (codes'[KeyOf(n)'] = n => uses'[n] = 0)
    <3>1. KeyOf(n) \in Keys /\ n # 0
      BY <1>1, <2>2, MailedKeys
    <3> QED
      BY <2>2, <3>1, <1>1, <1>8, <1>10 DEF UsesAreFew
  <2> QED
    BY <2>1, <2>2 DEF UsesAreFew
<1>15. NewestIsStored'
  <2>1. ASSUME NEW g \in Handlers PROVE HoldsNewest(call[g])'
    <3>1. CASE g = h
      BY <3>1, <1>4, <1>5 DEF HoldsNewest
    <3>2. CASE g # h
      <4>1. call'[g] = call[g] /\ HoldsNewest(call[g]) /\ HoldsCode(call[g])
        BY <3>2, <1>4 DEF NewestIsStored, CodesAreMailed
      <4>2. Sending(call[g], {"setCode"}) /\ Key(call[g]) \notin disturbed
              => codes'[Key(call[g])] = codes[Key(call[g])] /\ call[g].code # c.code
        <5> SUFFICES ASSUME Sending(call[g], {"setCode"}), Key(call[g]) \notin disturbed
                     PROVE  codes'[Key(call[g])] = codes[Key(call[g])] /\ call[g].code # c.code
          OBVIOUS
        <5>1. Key(call[g]) \in call[g].subjects /\ Key(call[g]) \in Keys /\ KeyOf(call[g].code) = Key(call[g])
          BY <4>1, OwnSubjects DEF Sending, IsSend, Key, Keys, HoldsCode, Holder
        <5> QED
          BY <5>1, <1>6, <1>8, <1>9, <3>2
      <4> QED
        BY <4>1, <4>2, <1>4, <1>1, <1>10 DEF HoldsNewest, Key
    <3> QED
      BY <3>1, <3>2
  <2>2. \A x \in Keys : Newest(x)' = 0 \/ (Newest(x)' \in DOMAIN mailed' /\ KeyOf(Newest(x))' = x)
    BY <1>1, <1>10 DEF NewestIsStored
  <2>3. ASSUME NEW x \in Keys \ disturbed'
        PROVE  \/ \E g \in Handlers : Sending(call[g], {"setCode"})' /\ Key(call[g])' = x
               \/ codes'[x] = Stand(x)'
    <3>1. CASE x = k
      BY <3>1, <2>3, <1>1, <1>7, <1>8, <1>10 DEF Stand
    <3>2. CASE x # k
      BY <3>2, <2>3, <1>1, <1>4, <1>5, <1>8, <1>11 DEF NewestIsStored, Key, c
    <3> QED
      BY <3>1, <3>2
  <2> QED
    BY <2>1, <2>2, <2>3 DEF NewestIsStored
<1>16. WindowsAreLimited'
  <2>1. \A g \in Handlers : HasWindow(call[g])'
    BY <1>1, <1>4, <1>5 DEF WindowsAreLimited, HasWindow, Mail
  <2>2. ASSUME NEW e \in Emails, NEW g \in Handlers, Sending(call[g], {"setCode", "setRateLimit"}), call[g].email = e
        PROVE  \E x \in Handlers : Sending(call[x], {"setCode", "setRateLimit"})' /\ call'[x].email = e
    BY <2>2, <1>4, <1>5 DEF c
  <2> QED
    BY <1>1, <2>1, <2>2 DEF WindowsAreLimited
<1>17. LogoutsAreKnown'
  BY <1>1 DEF LogoutsAreKnown
<1> QED
  BY <1>4, <1>12, <1>13, <1>14, <1>15, <1>16, <1>17

\* The three calls that a code lets through, and a login with a password.
LEMMA UseInv ==
  ASSUME Inv, NEW h \in Handlers, call[h].todo # <<>>, Continue(h), Used(h),
         Head(call[h].todo) \in {"create", "update", "signIn"},
         SessionsStay, UNCHANGED <<codes, limits, mailed, spent, window, disturbed>>
  PROVE  Inv'
<1> DEFINE c == call[h]
           k == Key(c)
           r == RestOf(c)
<1> USE DEF Inv
<1>1. WellFormed(c) /\ call' = [call EXCEPT ![h] = r] /\ (IsUse(c) \/ IsOther(c))
  BY Families DEF TypesOK, Continue, Go, RestOf
<1>2. CASE IsOther(c)
  <2>1. uses' = uses /\ ~IsSend(c) /\ ~IsUse(c)
    BY <1>2 DEF Used, IsOther, IsSend, IsUse
  <2> QED
    BY <2>1, ContinueInv DEF Sending, Using
<1>3. CASE IsUse(c) /\ uses' = uses
  <2>1. ~Sending(c, {"sendEmail", "setCode", "setRateLimit"}) /\ ~Sending(c, {"checkRateLimit"})
    BY <1>3, OneFamily DEF Sending
  <2>2. ~Using(c, {"deleteCode"}) /\ ~Using(c, {"getCode"})
    BY DEF Using
  <2> QED
    BY <1>3, <2>1, <2>2, ContinueInv
<1>4. CASE IsUse(c) /\ uses' = [uses EXCEPT ![c.code] = @ + 1]
  <2>1. Using(c, {"create", "update", "signIn"}) /\ Holder(c)
    BY <1>4 DEF Using, Holder
  <2>2. k \in Keys /\ k \in c.subjects
    BY <1>4, <2>1, OwnSubjects DEF IsUse, Key, Keys
  <2>3. c.code \in DOMAIN mailed /\ KeyOf(c.code) = k /\ c.code \in Codes
    BY <2>1, MailedKeys DEF CodesAreMailed, HoldsCode
  <2>4. k \notin disturbed => uses[c.code] = 0 /\ codes[k] # c.code
    BY <2>1 DEF UsesAreFew, Unspoilt
  <2>5. /\ call'[h] = r /\ DOMAIN call' = Handlers
        /\ \A g \in Handlers : g # h => call'[g] = call[g]
        /\ \A g \in Handlers : WellFormed(call'[g]) /\ WellFormed(call[g])'
        /\ OverlapsAreKnown'
        /\ \A g \in Handlers : /\ \A steps : /\ Sending(call[g], steps)' <=> Sending(call'[g], steps)
                                             /\ Using(call[g], steps)' <=> Using(call'[g], steps)
                               /\ Holder(call[g])' <=> Holder(call'[g])
    BY <1>1, Frame DEF Continue, SessionsStay
  <2>6. /\ ~Sending(r, {"sendEmail"}) /\ ~Sending(r, {"setCode"}) /\ ~Holder(r)
        /\ ~Using(r, {"deleteCode"}) /\ ~Using(r, {"create", "update", "signIn"})
        /\ \A steps : ~Sending(c, steps)
    <3>1. ~Using(c, {"getCode"}) /\ ~Using(c, {"deleteCode"}) /\ \A steps : ~Sending(c, steps)
      BY <1>4, OneFamily DEF Sending, Using
    <3>2. /\ ~Sending(r, {"sendEmail"}) /\ ~Sending(r, {"setCode"})
          /\ ~Using(r, {"deleteCode"}) /\ ~Using(r, {"create", "update", "signIn"})
      BY <1>1, <3>1, RestFacts
    <3> QED
      BY <3>1, <3>2 DEF Holder, Using
  <2>7. /\ uses'[c.code] = uses[c.code] + 1 /\ uses' \in [Codes -> Nat]
        /\ \A n \in Codes : n # c.code => uses'[n] = uses[n]
    BY <1>4, <2>3 DEF TypesOK
  <2>8. /\ \A x : Newest(x)' = Newest(x) /\ Stand(x)' = Stand(x)
        /\ \A n : KeyOf(n)' = KeyOf(n)
    BY DEF Newest, Stand, KeyOf
  <2> HIDE DEF c, k, r
  <2>9. TypesOK'
    BY <2>3, <2>5, <2>7 DEF TypesOK, SessionsStay, Pair
  <2>10. CodesAreMailed'
    BY <2>5, <2>6, <2>8 DEF CodesAreMailed, HoldsCode, Key
  <2>11. UsesAreFew'
    <3>1. ASSUME NEW g \in Handlers PROVE Unspoilt(call[g])'
      <4>1. CASE g = h
        BY <4>1, <2>5, <2>6 DEF Unspoilt
      <4>2. CASE g # h
        <5>1. call'[g] = call[g] /\ Unspoilt(call[g]) /\ HoldsCode(call[g])
          BY <4>2, <2>5 DEF UsesAreFew, CodesAreMailed
        <5>2. Holder(call[g]) /\ Key(call[g]) \notin disturbed => uses'[call[g].code] = uses[call[g].code]
          <6> SUFFICES ASSUME Holder(call[g]), Key(call[g]) \notin disturbed
                       PROVE  uses'[call[g].code] = uses[call[g].code]
            OBVIOUS
          <6>1. Key(call[g]) \in call[g].subjects /\ KeyOf(call[g].code) = Key(call[g]) /\ call[g].code \in Codes
            BY <5>1, OwnSubjects, MailedKeys DEF HoldsCode
          <6>2. Key(call[g]) # k
            BY <6>1, <2>2, <4>2, Alone DEF c
          <6> QED
            BY <6>1, <6>2, <2>3, <2>7
        <5> QED
          BY <5>1, <5>2, <2>5 DEF Unspoilt, Key
      <4> QED
        BY <4>1, <4>2
    <3>2. ASSUME NEW n \in DOMAIN mailed, KeyOf(n) \notin disturbed
          PROVE  uses'[n] <= 1 /\ (codes[KeyOf(n)] = n => uses'[n] = 0)
      BY <3>2, <2>3, <2>4, <2>7, MailedKeys DEF UsesAreFew
    <3> QED
      BY <3>1, <3>2, <2>8 DEF UsesAreFew
  <2>12. NewestIsStored'
    <3>1. \A g \in Handlers : HoldsNewest(call[g])'
      BY <2>5, <2>6, <2>8 DEF NewestIsStored, HoldsNewest, Key
    <3>2. \A x \in Keys \ disturbed :
            \/ \E g \in Handlers : Sending(call[g], {"setCode"})' /\ Key(call[g])' = x
            \/ codes[x] = Stand(x)
      BY <2>5, <2>6 DEF NewestIsStored, Key, c
    <3> QED
      BY <3>1, <3>2, <2>8 DEF NewestIsStored
  <2>13. WindowsAreLimited'
    <3>1. \A g \in Handlers : HasWindow(call[g])'
      BY <2>5, <2>6 DEF WindowsAreLimited, HasWindow, Mail
    <3>2. ASSUME NEW e \in Emails, NEW g \in Handlers, Sending(call[g], {"setCode", "setRateLimit"}), call[g].email = e
          PROVE  \E x \in Handlers : Sending(call[x], {"setCode", "setRateLimit"})' /\ call'[x].email = e
      BY <3>2, <2>5, <2>6 DEF c
    <3> QED
      BY <3>1, <3>2 DEF WindowsAreLimited
  <2> QED
    BY <2>5, <2>9, <2>10, <2>11, <2>12, <2>13 DEF SessionsStay
<1> QED
  BY <1>1, <1>2, <1>3, <1>4 DEF Used

LEMMA GrantInv ==
  ASSUME Inv, NEW h \in Handlers, Create(h) \/ Update(h) \/ SignIn(h)
  PROVE  Inv'
<1>1. CASE Create(h)
  <2>1. SessionsStay /\ UNCHANGED <<codes, limits, mailed, spent, window, disturbed>>
    BY <1>1, NoSession DEF Create, redisVars
  <2>2. call[h].todo # <<>> /\ Head(call[h].todo) = "create"
    BY <1>1 DEF Create, At
  <2>3. (Continue(h) /\ Used(h)) \/ (Return(h) /\ uses' = uses)
    BY <1>1 DEF Create
  <2>4. ~Sending(call[h], {"setCode", "setRateLimit"})
    BY <2>2 DEF Sending
  <2> QED
    BY <2>1, <2>2, <2>3, <2>4, UseInv, ReturnInv
<1>2. CASE Update(h)
  <2>1. SessionsStay /\ UNCHANGED <<codes, limits, mailed, spent, window, disturbed>>
    BY <1>2, NoSession DEF Update, redisVars
  <2> QED
    BY <1>2, <2>1, UseInv DEF Update, At
<1>3. CASE SignIn(h)
  <2>1. call[h].email \in Emails \cup {None}
    BY DEF Inv, TypesOK, WellFormed, CallRecords
  <2>2. SessionsStay /\ UNCHANGED <<codes, limits, mailed, spent, window, disturbed>>
    BY <1>3, <2>1, NewSession DEF SignIn, redisVars
  <2> QED
    BY <1>3, <2>2, UseInv DEF SignIn, At
<1> QED
  BY <1>1, <1>2, <1>3

-----------------------------------------------------------------------------
(* A mail goes out.                                                        *)

SentOf(k) == {c \in DOMAIN mailed : <<mailed[c].kind, mailed[c].email>> = k}
LastOf(S) == IF S = {} THEN 0 ELSE CHOOSE c \in S : \A d \in S : d <= c

LEMMA LastFacts ==
  ASSUME NEW S \in SUBSET Nat, NEW n \in S, \A d \in S : d <= n
  PROVE  LastOf(S) = n
<1>1. \A m \in S : (\A d \in S : d <= m) => m = n
  OBVIOUS
<1> QED
  BY <1>1 DEF LastOf

LEMMA SendEmailInv ==
  ASSUME Inv, NEW h \in Handlers, SendEmail(h)
  PROVE  Inv'
<1> USE DEF Inv
<1>0. PICK n, c, k : n = Len(mailed) + 1 /\ c = call[h] /\ k = Key(c)
  OBVIOUS
<1> USE <1>0
<1> DEFINE s == [c EXCEPT !.code = n]
           r == RestOf(s)
           R == [kind : Kinds, email : Emails]
           mail == [kind |-> c.kind, email |-> c.email]
<1>1. /\ c.todo # <<>> /\ Head(c.todo) = "sendEmail" /\ Go(h, s) /\ WellFormed(c)
      /\ Len(mailed) < MaxMails
      /\ mailed' = Append(mailed, mail) /\ window' = [window EXCEPT ![c.email] = @ + 1]
      /\ UNCHANGED <<codes, limits, blacklist, sessions, spent, uses, loggedOut, second, disturbed>>
  BY DEF SendEmail, At, TypesOK, redisVars
<1>2. Sending(c, {"sendEmail"}) /\ IsSend(c)
  BY <1>1, Families DEF Sending
<1>3. k \in Keys /\ c.email \in Emails /\ c.kind \in Kinds /\ k \in c.subjects /\ Mail(c) \in c.subjects
  BY <1>2, OwnSubjects DEF IsSend, Key, Keys
<1>4. /\ mailed' \in Seq(R) /\ Len(mailed') = n /\ DOMAIN mailed' = DOMAIN mailed \cup {n}
      /\ n \notin DOMAIN mailed /\ n \in Codes /\ n # 0 /\ n \in Nat
      /\ DOMAIN mailed \subseteq Nat /\ \A d \in DOMAIN mailed : d < n
      /\ mailed'[n] = mail /\ \A d \in DOMAIN mailed : mailed'[d] = mailed[d]
  <2>1. mailed \in Seq(R) /\ Len(mailed) \in Nat /\ mail \in R
    BY <1>3 DEF TypesOK
  <2> HIDE DEF R, mail
  <2>2. n \in Codes /\ n # 0 /\ n \in Nat
    BY <2>1, <1>1, BoundsAssumption DEF Codes
  <2> QED
    BY <2>1, <2>2, <1>1
<1> HIDE DEF mail
<1>5. /\ WellFormed(s) /\ s.todo = c.todo /\ s.subjects = c.subjects /\ IsSend(s)
      /\ s.kind = c.kind /\ s.email = c.email /\ s.code = n
  <2>1. s \in CallRecords /\ IsSend(s)
    BY <1>1, <1>2, <1>4 DEF WellFormed, CallRecords, IsSend, Key, Mail
  <2> QED
    BY <1>1, <2>1 DEF WellFormed, CallRecords
<1> HIDE DEF s
<1>6. /\ call'[h] = r /\ DOMAIN call' = Handlers
      /\ \A g \in Handlers : g # h => call'[g] = call[g]
      /\ \A g \in Handlers : WellFormed(call'[g]) /\ WellFormed(call[g])'
      /\ OverlapsAreKnown'
      /\ \A g \in Handlers : /\ \A steps : /\ Sending(call[g], steps)' <=> Sending(call'[g], steps)
                                           /\ Using(call[g], steps)' <=> Using(call'[g], steps)
                             /\ Holder(call[g])' <=> Holder(call'[g])
  BY <1>1, <1>4, <1>5, Frame
<1>7. /\ Sending(r, {"setCode"}) /\ Sending(r, {"setCode", "setRateLimit"}) /\ ~Sending(r, {"sendEmail"})
      /\ \A steps : ~Using(r, steps)
      /\ r.code = n /\ r.email = c.email /\ Key(r) = k
  <2>1. Len(s.todo) # 1 /\ Head(Tail(s.todo)) = "setCode" /\ Tail(s.todo) \in SendSuffixes
    BY <1>1, <1>5, NextToSend, SendFacts DEF IsSend
  <2>2. r.todo = Tail(s.todo) /\ r.email = c.email /\ r.kind = c.kind /\ r.subjects = s.subjects /\ r.code = n
    BY <2>1, <1>5 DEF RestOf, WellFormed, CallRecords
  <2>3. IsSend(r)
    BY <1>5, <2>1, <2>2 DEF IsSend, Key, Mail
  <2>4. ~IsUse(r)
    BY <2>3, OneFamily
  <2> QED
    BY <2>1, <2>2, <2>3, <2>4 DEF Sending, Using, Key
<1>8. /\ KeyOf(n)' = k
      /\ \A d \in DOMAIN mailed : KeyOf(d)' = KeyOf(d)
  BY <1>4 DEF KeyOf, Key, mail
<1>9. /\ SentOf(k)' = SentOf(k) \cup {n}
      /\ \A x : x # k => SentOf(x)' = SentOf(x)
  BY <1>4 DEF SentOf, Key, mail
<1>10. \A x : Newest(x) = LastOf(SentOf(x)) /\ Newest(x)' = LastOf(SentOf(x)')
  BY DEF Newest, LastOf, SentOf
<1>11. Newest(k)' = n
  <2>1. SentOf(k)' \in SUBSET Nat /\ n \in SentOf(k)' /\ \A d \in SentOf(k)' : d <= n
    BY <1>4, <1>9 DEF SentOf
  <2> QED
    BY <2>1, <1>10, LastFacts
<1>12. \A x : x # k => Newest(x)' = Newest(x) /\ Stand(x)' = Stand(x)
  BY <1>1, <1>9, <1>10 DEF Stand
<1>13. codes[k] # n /\ n \notin spent /\ uses[n] = 0
  BY <1>3, <1>4 DEF CodesAreMailed, TypesOK
<1>14. /\ window' \in [Emails -> Nat] /\ window'[c.email] = window[c.email] + 1
       /\ \A e \in Emails : e # c.email => window'[e] = window[e]
  BY <1>1, <1>3 DEF TypesOK
<1>15. Mail(c) \notin disturbed => window[c.email] = 0
  BY <1>2 DEF WindowsAreLimited, HasWindow
<1> HIDE <1>0
<1> HIDE DEF r
<1>16. TypesOK'
  <2>1. mailed' \in Seq([kind : Kinds, email : Emails]) /\ Len(mailed') <= MaxMails
    BY <1>4 DEF Codes
  <2> QED
    BY <2>1, <1>1, <1>4, <1>6, <1>14 DEF TypesOK
<1>17. CodesAreMailed'
  <2>1. ASSUME NEW g \in Handlers PROVE HoldsCode(call[g])'
    <3>1. CASE g = h
      BY <3>1, <1>4, <1>6, <1>7, <1>8 DEF HoldsCode, Key
    <3>2. CASE g # h
      BY <3>2, <1>4, <1>6, <1>8 DEF CodesAreMailed, HoldsCode, Key
    <3> QED
      BY <3>1, <3>2
  <2>2. \A x \in Keys : codes'[x] # 0 => codes'[x] \in DOMAIN mailed' /\ KeyOf(codes[x])' = x
    BY <1>1, <1>4, <1>8 DEF CodesAreMailed
  <2> QED
    BY <2>1, <2>2 DEF CodesAreMailed
<1>18. UsesAreFew'
  <2>1. ASSUME NEW g \in Handlers PROVE Unspoilt(call[g])'
    <3>1. CASE g = h
      BY <3>1, <1>1, <1>6, <1>7, <1>13 DEF Unspoilt
    <3>2. CASE g # h
      BY <3>2, <1>1, <1>6 DEF UsesAreFew, Unspoilt, Key
    <3> QED
      BY <3>1, <3>2
  <2>2. ASSUME NEW d \in DOMAIN mailed', KeyOf(d)' \notin disturbed'
        PROVE  uses'[d] <= 1 /\ (codes'[KeyOf(d)'] = d => uses'[d] = 0)
    BY <2>2, <1>1, <1>4, <1>8, <1>13 DEF UsesAreFew
  <2> QED
    BY <2>1, <2>2 DEF UsesAreFew
<1>19. NewestIsStored'
  <2>1. ASSUME NEW g \in Handlers PROVE HoldsNewest(call[g])'
    <3>1. CASE g = h
      BY <3>1, <1>1, <1>6, <1>7, <1>11, <1>13 DEF HoldsNewest, Key
    <3>2. CASE g # h
      <4>1. call'[g] = call[g] /\ HoldsNewest(call[g])
        BY <3>2, <1>6 DEF NewestIsStored
      <4>2. Key(call[g]) \in call[g].subjects /\ Key(call[g]) \notin disturbed => Key(call[g]) # k
        BY <3>2, <1>0, <1>3, Alone
      <4>3. /\ Sending(call[g], {"setCode"}) => Key(call[g]) \in call[g].subjects
            /\ Using(call[g], {"deleteCode"}) => Key(call[g]) \in call[g].subjects
        BY OwnSubjects
      <4> QED
        BY <4>1, <4>2, <4>3, <1>1, <1>6, <1>12 DEF HoldsNewest, Key
    <3> QED
      BY <3>1, <3>2
  <2>2. \A x \in Keys : Newest(x)' = 0 \/ (Newest(x)' \in DOMAIN mailed' /\ KeyOf(Newest(x))' = x)
    BY <1>4, <1>8, <1>11, <1>12 DEF NewestIsStored
  <2>3. ASSUME NEW x \in Keys \ disturbed'
        PROVE  \/ \E g \in Handlers : Sending(call[g], {"setCode"})' /\ Key(call[g])' = x
               \/ codes'[x] = Stand(x)'
    <3>1. CASE x = k
      BY <3>1, <1>6, <1>7 DEF Key
    <3>2. CASE x # k
      BY <3>2, <2>3, <1>0, <1>1, <1>2, <1>6, <1>12 DEF NewestIsStored, Key, Sending
    <3> QED
      BY <3>1, <3>2
  <2> QED
    BY <2>1, <2>2, <2>3 DEF NewestIsStored
<1>20. WindowsAreLimited'
  <2>1. ASSUME NEW g \in Handlers PROVE HasWindow(call[g])'
    <3>1. CASE g = h
      BY <3>1, <1>6, <1>7 DEF HasWindow
    <3>2. CASE g # h
      <4>1. call'[g] = call[g] /\ HasWindow(call[g])
        BY <3>2, <1>6 DEF WindowsAreLimited
      <4>2. Sending(call[g], {"sendEmail"}) /\ Mail(call[g]) \notin disturbed => window'[call[g].email] = window[call[g].email]
        <5> SUFFICES ASSUME Sending(call[g], {"sendEmail"}), Mail(call[g]) \notin disturbed
                     PROVE  window'[call[g].email] = window[call[g].email]
          OBVIOUS
        <5>1. Mail(call[g]) \in call[g].subjects /\ call[g].email \in Emails
          BY OwnSubjects DEF Sending, IsSend
        <5>2. Mail(call[g]) # Mail(c)
          BY <5>1, <3>2, <1>0, <1>3, Alone
        <5> QED
          BY <5>1, <5>2, <1>14 DEF Mail
      <4> QED
        BY <4>1, <4>2, <1>1, <1>6 DEF HasWindow, Mail
    <3> QED
      BY <3>1, <3>2
  <2>2. ASSUME NEW e \in Emails, <<"mail", e>> \notin disturbed
        PROVE  /\ window'[e] <= 1
               /\ window'[e] = 1 => \/ e \in limits'
                                    \/ \E g \in Handlers : /\ Sending(call[g], {"setCode", "setRateLimit"})'
                                                           /\ call'[g].email = e
    <3>1. CASE e = c.email
      BY <3>1, <2>2, <1>6, <1>7, <1>14, <1>15 DEF Mail
    <3>2. CASE e # c.email
      <4>1. ASSUME NEW g \in Handlers, Sending(call[g], {"setCode", "setRateLimit"}), call[g].email = e
            PROVE  Sending(call[g], {"setCode", "setRateLimit"})' /\ call'[g].email = e
        BY <4>1, <3>2, <1>0, <1>6
      <4> QED
        BY <3>2, <4>1, <2>2, <1>1, <1>14 DEF WindowsAreLimited
    <3> QED
      BY <3>1, <3>2
  <2> QED
    BY <2>1, <2>2, <1>1 DEF WindowsAreLimited
<1>21. LogoutsAreKnown'
  BY <1>1 DEF LogoutsAreKnown
<1> QED
  BY <1>6, <1>16, <1>17, <1>18, <1>19, <1>20, <1>21

-----------------------------------------------------------------------------
(* Time.                                                                   *)

LEMMA ExpireCodeInv ==
  ASSUME Inv, ExpireCode
  PROVE  Inv'
<1> USE DEF Inv
<1>1. PICK k \in Keys : /\ codes[k] # 0 /\ codes' = [codes EXCEPT ![k] = 0]
                        /\ spent' = spent \cup {codes[k]}
  BY DEF ExpireCode
<1>2. UNCHANGED <<call, limits, blacklist, mailed, sessions, uses, window, loggedOut, second, disturbed>>
  BY DEF ExpireCode
<1>3. /\ codes'[k] = 0 /\ \A x \in Keys : x # k => codes'[x] = codes[x]
      /\ codes[k] \in DOMAIN mailed /\ KeyOf(codes[k]) = k
  BY <1>1 DEF TypesOK, CodesAreMailed
<1>4. /\ \A x : (WellFormed(x)' <=> WellFormed(x)) /\ (Holder(x)' <=> Holder(x))
      /\ \A x, steps : (Sending(x, steps)' <=> Sending(x, steps)) /\ (Using(x, steps)' <=> Using(x, steps))
  BY <1>2 DEF WellFormed, Holder, Sending, Using, IsSend, IsUse, IsOther
<1>5. /\ \A x : Newest(x)' = Newest(x)
      /\ \A n : KeyOf(n)' = KeyOf(n)
  BY <1>2 DEF Newest, KeyOf
<1>6. \A x \in Keys : x # k => Stand(x)' = Stand(x)
  <2>1. ASSUME NEW x \in Keys, x # k PROVE Newest(x) # codes[k]
    BY <2>1, <1>1, <1>3 DEF NewestIsStored
  <2> QED
    BY <2>1, <1>1, <1>5 DEF Stand
<1>7. TypesOK' /\ OverlapsAreKnown'
  BY <1>1, <1>2, <1>3, <1>4 DEF TypesOK, OverlapsAreKnown
<1>8. CodesAreMailed'
  BY <1>2, <1>3, <1>4, <1>5 DEF CodesAreMailed, HoldsCode
<1>9. ASSUME NEW g \in Handlers, Holder(call[g])
      PROVE  /\ Key(call[g]) \in Keys /\ call[g].code # 0 /\ KeyOf(call[g].code) = Key(call[g])
             /\ Key(call[g]) \in call[g].subjects
  BY <1>9, MailedKeys, OwnSubjects DEF CodesAreMailed, HoldsCode
<1>10. \A x : /\ Using(x, {"create", "update", "signIn"}) => Holder(x)
              /\ Sending(x, {"setCode"}) => Holder(x)
  BY DEF Holder, Using, Sending
<1>11. UsesAreFew'
  <2>1. ASSUME NEW g \in Handlers PROVE Unspoilt(call[g])'
    <3>1. Holder(call[g]) => codes'[Key(call[g])] = 0 \/ codes'[Key(call[g])] = codes[Key(call[g])]
      BY <1>3, <1>9
    <3>2. Unspoilt(call[g])
      BY DEF UsesAreFew
    <3> QED
      BY <3>1, <3>2, <1>2, <1>4, <1>9, <1>10 DEF Unspoilt
  <2>2. ASSUME NEW n \in DOMAIN mailed, KeyOf(n) \notin disturbed
        PROVE  uses[n] <= 1 /\ (codes'[KeyOf(n)] = n => uses[n] = 0)
    BY <2>2, <1>3, MailedKeys DEF UsesAreFew
  <2> QED
    BY <2>1, <2>2, <1>2, <1>5 DEF UsesAreFew
<1>12. NewestIsStored'
  <2>1. ASSUME NEW g \in Handlers PROVE HoldsNewest(call[g])'
    <3>1. HoldsNewest(call[g])
      BY DEF NewestIsStored
    <3>2. ASSUME Sending(call[g], {"setCode"}), Key(call[g]) \notin disturbed
          PROVE  call[g].code \notin spent' /\ codes'[Key(call[g])] # call[g].code
      <4>1. call[g].code \notin spent /\ codes[Key(call[g])] # call[g].code
        BY <3>1, <3>2 DEF HoldsNewest
      <4>2. Key(call[g]) \in Keys /\ call[g].code # 0 /\ KeyOf(call[g].code) = Key(call[g])
        BY <3>2, <1>9, <1>10
      <4>3. call[g].code # codes[k]
        BY <4>1, <4>2, <1>3
      <4> QED
        BY <4>1, <4>2, <4>3, <1>1, <1>3
    <3> QED
      BY <3>1, <3>2, <1>2, <1>4, <1>5 DEF HoldsNewest
  <2>2. ASSUME NEW x \in Keys \ disturbed
        PROVE  \/ \E g \in Handlers : Sending(call[g], {"setCode"}) /\ Key(call[g]) = x
               \/ codes'[x] = Stand(x)'
    <3>1. CASE x = k
      BY <3>1, <1>1, <1>3, <1>5 DEF NewestIsStored, Stand
    <3>2. CASE x # k
      BY <3>2, <1>3, <1>6 DEF NewestIsStored
    <3> QED
      BY <3>1, <3>2
  <2>3. \A x \in Keys : Newest(x)' = 0 \/ (Newest(x)' \in DOMAIN mailed' /\ KeyOf(Newest(x))' = x)
    BY <1>2, <1>5 DEF NewestIsStored
  <2>4. \A g \in Handlers : Key(call[g])' = Key(call[g])
    BY <1>2 DEF Key
  <2> QED
    BY <2>1, <2>2, <2>3, <2>4, <1>2, <1>4 DEF NewestIsStored
<1>13. WindowsAreLimited'
  BY <1>2, <1>4 DEF WindowsAreLimited, HasWindow
<1>14. LogoutsAreKnown'
  BY <1>2 DEF LogoutsAreKnown
<1> QED
  BY <1>7, <1>8, <1>11, <1>12, <1>13, <1>14

LEMMA ExpireLimitInv ==
  ASSUME Inv, ExpireLimit
  PROVE  Inv'
<1> USE DEF Inv
<1>1. PICK e \in Emails : limits' = limits \ {e} /\ window' = [window EXCEPT ![e] = 0]
  BY DEF ExpireLimit
<1>2. UNCHANGED <<call, codes, blacklist, mailed, sessions, spent, uses, loggedOut, second, disturbed>>
  BY DEF ExpireLimit
<1>3. /\ window' \in [Emails -> Nat] /\ window'[e] = 0
      /\ \A x \in Emails : x # e => window'[x] = window[x]
  BY <1>1 DEF TypesOK
<1>4. /\ \A x : (WellFormed(x)' <=> WellFormed(x)) /\ (Holder(x)' <=> Holder(x))
      /\ \A x, steps : (Sending(x, steps)' <=> Sending(x, steps)) /\ (Using(x, steps)' <=> Using(x, steps))
  BY <1>2 DEF WellFormed, Holder, Sending, Using, IsSend, IsUse, IsOther
<1>5. /\ \A x : Newest(x)' = Newest(x) /\ Stand(x)' = Stand(x)
      /\ \A n : KeyOf(n)' = KeyOf(n)
  BY <1>2 DEF Newest, Stand, KeyOf
<1>6. TypesOK' /\ OverlapsAreKnown'
  BY <1>2, <1>3, <1>4 DEF TypesOK, OverlapsAreKnown
<1>7. CodesAreMailed'
  BY <1>2, <1>4, <1>5 DEF CodesAreMailed, HoldsCode
<1>8. UsesAreFew'
  BY <1>2, <1>4, <1>5 DEF UsesAreFew, Unspoilt
<1>9. NewestIsStored'
  BY <1>2, <1>4, <1>5 DEF NewestIsStored, HoldsNewest
<1>10. WindowsAreLimited'
  <2>1. ASSUME NEW g \in Handlers PROVE HasWindow(call[g])'
    <3>1. Sending(call[g], {"sendEmail"}) => call[g].email \in Emails
      BY DEF Sending, IsSend
    <3> QED
      BY <3>1, <1>2, <1>3, <1>4 DEF WindowsAreLimited, HasWindow
  <2> QED
    BY <2>1, <1>1, <1>2, <1>3, <1>4 DEF WindowsAreLimited
<1>11. LogoutsAreKnown'
  BY <1>2 DEF LogoutsAreKnown
<1> QED
  BY <1>6, <1>7, <1>8, <1>9, <1>10, <1>11

-----------------------------------------------------------------------------
(* The invariant holds.                                                    *)

LEMMA InitInv == Init => Inv
<1> SUFFICES ASSUME Init PROVE Inv
  OBVIOUS
<1>1. /\ DOMAIN call = Handlers /\ \A h \in Handlers : call[h] = Idle
      /\ mailed = <<>> /\ DOMAIN mailed = {} /\ sessions = <<>> /\ DOMAIN sessions = {}
      /\ \A k \in Keys : codes[k] = 0
      /\ \A e \in Emails : window[e] = 0
  BY DEF Init
<1>2. TypesOK
  BY <1>1, IdleFacts, BoundsAssumption DEF Init, TypesOK, Codes
<1>3. OverlapsAreKnown
  BY <1>1, IdleFacts DEF OverlapsAreKnown
<1>4. CodesAreMailed /\ UsesAreFew
  BY <1>1, IdleOwesNothing DEF CodesAreMailed, UsesAreFew
<1>5. \A k : Newest(k) = 0
  BY <1>1 DEF Newest
<1>6. NewestIsStored
  BY <1>1, <1>5, IdleOwesNothing DEF NewestIsStored, Stand
<1>7. WindowsAreLimited
  BY <1>1, IdleOwesNothing DEF WindowsAreLimited
<1>8. LogoutsAreKnown
  BY <1>1 DEF Init, LogoutsAreKnown
<1> QED
  BY <1>2, <1>3, <1>4, <1>6, <1>7, <1>8 DEF Inv

LEMMA NextInv == Inv /\ [Next]_vars => Inv'
<1> SUFFICES ASSUME Inv, [Next]_vars PROVE Inv'
  OBVIOUS
<1>1. ASSUME NEW h \in Handlers, Step(h) PROVE Inv'
  BY <1>1, SendRequestsInv, UseRequestsInv, OtherRequestsInv, QuietCallsInv, FailInv, BlacklistInv,
     GrantInv, SendEmailInv, SetCodeInv, SetRateLimitInv, DeleteCodeInv DEF Step
<1> QED
  BY <1>1, RefreshTokenInv, TickInv, ExpireCodeInv, ExpireLimitInv DEF Next

LEMMA Invariance == Spec => []Inv
BY InitInv, NextInv, PTL DEF Spec

\* A code lets one operation through, whatever the number of requests, unless two that use codes
\* of its kind overlapped or a call of one failed (user.go:47-57).
THEOREM CodesUsedOnce == Spec => []CodeUsedOnce
<1>1. Inv => CodeUsedOnce
  <2> SUFFICES ASSUME Inv, NEW n \in DOMAIN mailed, KeyOf(n) \notin disturbed
               PROVE  ~(uses[n] > 1)
    BY DEF CodeUsedOnce, KeyOf
  <2>1. uses[n] <= 1 /\ uses[n] \in Nat
    BY MailedKeys DEF Inv, TypesOK, UsesAreFew
  <2> QED
    BY <2>1
<1> QED
  BY <1>1, Invariance, PTL

\* The code of the last mail is the stored one until it is used or runs out, once the requests of
\* its kind are through and none of them failed or overlapped with another (user.go:166-180).
THEOREM NewestCodesStand == Spec => []NewestCodeStands
<1>1. Inv => NewestCodeStands
  <2> SUFFICES ASSUME Inv, NEW k \in Keys, Quiet(k), k \notin disturbed
               PROVE  codes[k] = Stand(k)
    BY DEF NewestCodeStands, Stand
  <2>1. \A h \in Handlers : Sending(call[h], {"setCode"}) => Key(call[h]) # k
    BY OwnSubjects DEF Quiet
  <2> QED
    BY <2>1 DEF Inv, NewestIsStored
<1> QED
  BY <1>1, Invariance, PTL

\* One mail goes to an address before its rate limit has run out, unless two requests to send
\* overlapped or one failed (user.go:152-180).
THEOREM MailsAreLimited == Spec => []OneMailPerWindow
<1>1. Inv => OneMailPerWindow
  BY DEF Inv, TypesOK, WindowsAreLimited, OneMailPerWindow
<1> QED
  BY <1>1, Invariance, PTL

\* A token is refused only after a logout of its session, or of one that the same account began
\* in the same second (jwt.go:46-60, 143-147).
THEOREM LogoutsAreTheirOwn == Spec => []LogoutIsItsOwn
<1>1. Inv => LogoutIsItsOwn
  <2> SUFFICES ASSUME Inv, NEW i \in DOMAIN sessions, <<"access", sessions[i]>> \in blacklist
               PROVE  \E j \in loggedOut : sessions[j] = sessions[i]
    BY DEF LogoutIsItsOwn, IsBlacklisted, GetTokenJTI
  <2>1. PICK j \in loggedOut : <<"access", sessions[i]>>[2] = sessions[j]
    BY DEF Inv, LogoutsAreKnown
  <2> QED
    BY <2>1
<1> QED
  BY <1>1, Invariance, PTL
=============================================================================
