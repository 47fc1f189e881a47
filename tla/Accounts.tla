----------------------------- MODULE Accounts -----------------------------
(***************************************************************************)
(* Accounts, mailed codes and tokens (service/user.go, repository/code.go, *)
(* pkg/utils/jwt.go).  A request makes a fixed list of calls, one per      *)
(* step, and stops at the first that refuses; its list is what is left of  *)
(* it.  A code is the number of the mail it went out with (two mails with  *)
(* the same six digits are not modelled), a password the code it was set   *)
(* with, a token the account and second it was made for.                   *)
(***************************************************************************)
EXTENDS Naturals, Sequences, FiniteSets

CONSTANTS
  Emails,
  Handlers,                  \* goroutines that serve requests
  None,
  MaxSeconds, MaxMails, MaxSessions,   \* bounds on time, on mails and on signing in
  MaxCalls, MaxFaults                  \* bounds on requests and on failing calls

ASSUME BoundsAssumption == {MaxSeconds, MaxMails, MaxSessions, MaxCalls, MaxFaults} \subseteq Nat

VARIABLES
  accounts,    \* accounts[e]: password of the row of users with email e, None if there is none
  profiles,    \* emails of accounts that have a row in PostgreSQL
  codes,       \* codes[k]: code stored under {kind}:code:{email}, 0 if there is none
  limits,      \* emails with a rate_limit key
  blacklist,   \* tokens with a token_blacklist key
  second,      \* the time
  mailed,      \* mailed[c]: kind and email of the mail with code c
  sessions,    \* token pairs handed out; the tokens do not expire here
  call, calls, faults,
  spent,       \* history: codes that were deleted by their use or expired
  uses,        \* history: uses[c]: operations that code c let through
  window,      \* history: window[e]: mails to e since its last rate limit ran out
  loggedOut,   \* history: sessions whose logout has begun
  disturbed    \* history: subjects of overlapping requests and of failing calls

userVars == <<accounts, profiles>>
redisVars == <<codes, limits, blacklist>>
history == <<spent, uses, window, loggedOut, disturbed>>
vars == <<userVars, redisVars, second, mailed, sessions, call, calls, faults, history>>

Kinds == {"register", "login", "reset"}
Codes == 1..MaxMails
Keys == Kinds \X Emails
NoPassword == 0     \* the password an account had at first

Idle == [kind |-> None, email |-> None, code |-> 0, session |-> 0, todo |-> <<>>, subjects |-> {}]

Init ==
  /\ accounts \in [Emails -> {None, NoPassword}]
  /\ profiles = {e \in Emails : accounts[e] # None}
  /\ codes = [k \in Keys |-> 0] /\ limits = {} /\ blacklist = {}
  /\ second = 1 /\ mailed = <<>> /\ sessions = <<>>
  /\ call = [h \in Handlers |-> Idle] /\ calls = 0 /\ faults = 0
  /\ spent = {} /\ uses = [c \in Codes |-> 0] /\ window = [e \in Emails |-> 0]
  /\ loggedOut = {} /\ disturbed = {}

-----------------------------------------------------------------------------
(* The requests and the calls each of them makes                           *)

LSendCodeCalls == <<"getByEmail", "checkRateLimit", "sendEmail", "setCode", "setRateLimit">>
RSendCodeCalls == <<"emailExists", "checkRateLimit", "sendEmail", "setCode", "setRateLimit">>
SendResetPasswordCodeCalls ==
  <<"getByEmail", "checkRateLimit", "sendEmail", "setCode", "setRateLimit">>
RegisterCalls == <<"emailExists", "getCode", "deleteCode", "create", "createProfile">>
LoginCalls == <<"checkPassword", "signIn">>
LoginByCodeCalls == <<"getByEmail", "getCode", "deleteCode", "signIn">>
KeepingCalls ==     \* Mutant of ResetPasswordCalls: the code stays
  <<"getByEmail", "getCode", "update">>
ResetPasswordCalls == <<"getByEmail", "getCode", "deleteCode", "update">>

Begin(h, c) ==
  /\ call[h] = Idle /\ calls < MaxCalls
  /\ calls' = calls + 1
  /\ call' = [call EXCEPT ![h] = c]
  /\ disturbed' = disturbed \cup (c.subjects \cap UNION {call[g].subjects : g \in Handlers})
  /\ UNCHANGED <<userVars, redisVars, second, mailed, sessions, faults, spent, uses, window, loggedOut>>

Send(kind, e, todo) ==
  [Idle EXCEPT !.kind = kind, !.email = e, !.todo = todo, !.subjects = {<<kind, e>>, <<"mail", e>>}]
Use(kind, e, c, todo) ==
  [Idle EXCEPT !.kind = kind, !.email = e, !.code = c, !.todo = todo, !.subjects = {<<kind, e>>}]

LSendCode(h) == \E e \in Emails : Begin(h, Send("login", e, LSendCodeCalls))
RSendCode(h) == \E e \in Emails : Begin(h, Send("register", e, RSendCodeCalls))
SendResetPasswordCode(h) == \E e \in Emails : Begin(h, Send("reset", e, SendResetPasswordCodeCalls))

\* Whoever uses a code has it from a mail, not always the last one.
Register(h) ==
  \E e \in Emails, c \in DOMAIN mailed : Begin(h, Use("register", e, c, RegisterCalls))
LoginByCode(h) ==
  \E e \in Emails, c \in DOMAIN mailed : Begin(h, Use("login", e, c, LoginByCodeCalls))
ResetPassword(h) ==
  \E e \in Emails, c \in DOMAIN mailed : Begin(h, Use("reset", e, c, ResetPasswordCalls))
Login(h) ==
  \E e \in Emails, password \in DOMAIN mailed \cup {NoPassword} :
    Begin(h, [Idle EXCEPT !.email = e, !.code = password, !.todo = LoginCalls])

-----------------------------------------------------------------------------
(* The calls                                                               *)

At(h, step) == call[h].todo # <<>> /\ Head(call[h].todo) = step
Go(h, c) == call' = [call EXCEPT ![h] = IF Len(c.todo) = 1 THEN Idle ELSE [c EXCEPT !.todo = Tail(@)]]
Continue(h) == Go(h, call[h])
Return(h) == call' = [call EXCEPT ![h] = Idle]
ContinueIf(h, accepted) == IF accepted THEN Continue(h) ELSE Return(h)
CodeKey(h) == <<call[h].kind, call[h].email>>

GetByEmail(h) ==
  /\ At(h, "getByEmail")
  /\ ContinueIf(h, accounts[call[h].email] # None)
  /\ UNCHANGED <<userVars, redisVars, second, mailed, sessions, calls, faults, history>>

EmailExists(h) ==
  /\ At(h, "emailExists")
  /\ ContinueIf(h, accounts[call[h].email] = None)
  /\ UNCHANGED <<userVars, redisVars, second, mailed, sessions, calls, faults, history>>

CheckPassword(h) ==
  /\ At(h, "checkPassword")
  /\ ContinueIf(h, accounts[call[h].email] = call[h].code)
  /\ UNCHANGED <<userVars, redisVars, second, mailed, sessions, calls, faults, history>>

\* One key for the three kinds of code.
LimitPerKind(c) == <<c.kind, c.email>>    \* Mutant of LimitKey: one key for each
LimitKey(c) == c.email

CheckRateLimit(h) ==
  /\ At(h, "checkRateLimit")
  /\ ContinueIf(h, LimitKey(call[h]) \notin limits)
  /\ UNCHANGED <<userVars, redisVars, second, mailed, sessions, calls, faults, history>>

SendEmail(h) ==
  /\ At(h, "sendEmail") /\ Len(mailed) < MaxMails
  /\ mailed' = Append(mailed, [kind |-> call[h].kind, email |-> call[h].email])
  /\ window' = [window EXCEPT ![call[h].email] = @ + 1]
  /\ Go(h, [call[h] EXCEPT !.code = Len(mailed) + 1])
  /\ UNCHANGED <<userVars, redisVars, second, sessions, calls, faults, spent, uses, loggedOut, disturbed>>

SetUnlessThere(h) == [codes EXCEPT ![CodeKey(h)] = IF @ = 0 THEN call[h].code ELSE @]  \* Mutant of Stored
Stored(h) == [codes EXCEPT ![CodeKey(h)] = call[h].code]

SetCode(h) ==
  /\ At(h, "setCode")
  /\ codes' = Stored(h)
  /\ Continue(h)
  /\ UNCHANGED <<userVars, limits, blacklist, second, mailed, sessions, calls, faults, history>>

SetRateLimit(h) ==
  /\ At(h, "setRateLimit")
  /\ limits' = limits \cup {LimitKey(call[h])}
  /\ Continue(h)
  /\ UNCHANGED <<userVars, codes, blacklist, second, mailed, sessions, calls, faults, history>>

GetCode(h) ==
  /\ At(h, "getCode")
  /\ ContinueIf(h, codes[CodeKey(h)] = call[h].code)
  /\ UNCHANGED <<userVars, redisVars, second, mailed, sessions, calls, faults, history>>

\* DEL removes whatever is stored by now.
DeleteCode(h) ==
  /\ At(h, "deleteCode")
  /\ codes' = [codes EXCEPT ![CodeKey(h)] = 0]
  /\ spent' = spent \cup {call[h].code}
  /\ Continue(h)
  /\ UNCHANGED <<userVars, limits, blacklist, second, mailed, sessions, calls, faults,
                 uses, window, loggedOut, disturbed>>

Used(h) == uses' = IF call[h].kind = None THEN uses ELSE [uses EXCEPT ![call[h].code] = @ + 1]

\* users.email is unique.
Create(h) ==
  /\ At(h, "create")
  /\ IF accounts[call[h].email] = None
     THEN /\ accounts' = [accounts EXCEPT ![call[h].email] = call[h].code]
          /\ Used(h)
          /\ Continue(h)
     ELSE Return(h) /\ UNCHANGED <<accounts, uses>>
  /\ UNCHANGED <<profiles, redisVars, second, mailed, sessions, calls, faults,
                 spent, window, loggedOut, disturbed>>

CreateProfile(h) ==
  /\ At(h, "createProfile")
  /\ profiles' = profiles \cup {call[h].email}
  /\ Continue(h)
  /\ UNCHANGED <<accounts, redisVars, second, mailed, sessions, calls, faults, history>>

Update(h) ==
  /\ At(h, "update")
  /\ accounts' = [accounts EXCEPT ![call[h].email] = call[h].code]
  /\ Used(h)
  /\ Continue(h)
  /\ UNCHANGED <<profiles, redisVars, second, mailed, sessions, calls, faults,
                 spent, window, loggedOut, disturbed>>

\* Signs a pair: the strings depend on the account and the second alone.
GenerateTokenPair(e) ==
  /\ Len(sessions) < MaxSessions
  /\ sessions' = Append(sessions, [email |-> e, second |-> second])

SignIn(h) ==
  /\ At(h, "signIn")
  /\ GenerateTokenPair(call[h].email)
  /\ Used(h)
  /\ Continue(h)
  /\ UNCHANGED <<userVars, redisVars, second, mailed, calls, faults,
                 spent, window, loggedOut, disturbed>>

-----------------------------------------------------------------------------
(* Tokens                                                                  *)

LogoutCalls == <<"admit", "blacklistAccess", "blacklistRefresh">>
VerifyTokenCalls == <<"admit">>

PerAccount(type, i) == <<type, sessions[i].email>>     \* Mutant of GetTokenJTI: names the account
GetTokenJTI(type, i) == <<type, sessions[i]>>

Logout(h) ==
  \E i \in DOMAIN sessions : Begin(h, [Idle EXCEPT !.session = i, !.todo = LogoutCalls])
VerifyToken(h) ==
  \E i \in DOMAIN sessions : Begin(h, [Idle EXCEPT !.session = i, !.todo = VerifyTokenCalls])

\* A refresh token is asked for its signature and its dates only.
RefreshToken ==
  /\ \E i \in DOMAIN sessions : GenerateTokenPair(sessions[i].email)
  /\ UNCHANGED <<userVars, redisVars, second, mailed, call, calls, faults, history>>

\* AuthMiddleware
IsBlacklisted(i) == GetTokenJTI("access", i) \in blacklist
Admit(h) ==
  /\ At(h, "admit")
  /\ ContinueIf(h, ~IsBlacklisted(call[h].session))
  /\ UNCHANGED <<userVars, redisVars, second, mailed, sessions, calls, faults, history>>

BlacklistToken(h, step, type) ==
  /\ At(h, step)
  /\ blacklist' = blacklist \cup {GetTokenJTI(type, call[h].session)}
  /\ loggedOut' = loggedOut \cup {call[h].session}
  /\ Continue(h)
  /\ UNCHANGED <<userVars, codes, limits, second, mailed, sessions, calls, faults,
                 spent, uses, window, disturbed>>
BlacklistAccess(h) == BlacklistToken(h, "blacklistAccess", "access")
BlacklistRefresh(h) == BlacklistToken(h, "blacklistRefresh", "refresh")

-----------------------------------------------------------------------------
(* Failing calls and time                                                  *)

Unchecked(h) ==     \* the error is logged at most and the request goes on
  Head(call[h].todo) \in {"setRateLimit", "createProfile", "blacklistAccess", "blacklistRefresh"}
  \/ (call[h].kind = "reset" /\ At(h, "deleteCode"))

Fail(h) ==
  /\ call[h].todo # <<>> /\ Head(call[h].todo) # "signIn"
  /\ faults < MaxFaults /\ faults' = faults + 1
  /\ disturbed' = disturbed \cup call[h].subjects
  /\ ContinueIf(h, Unchecked(h))
  /\ UNCHANGED <<userVars, redisVars, second, mailed, sessions, calls, spent, uses, window, loggedOut>>

ExpireCode ==
  /\ \E k \in Keys :
       /\ codes[k] # 0
       /\ codes' = [codes EXCEPT ![k] = 0]
       /\ spent' = spent \cup {codes[k]}
  /\ UNCHANGED <<userVars, limits, blacklist, second, mailed, sessions, call, calls, faults,
                 uses, window, loggedOut, disturbed>>

ExpireLimit ==
  /\ \E e \in {x \in Emails : x \in limits} :
       /\ limits' = limits \ {e}
       /\ window' = [window EXCEPT ![e] = 0]
  /\ UNCHANGED <<userVars, codes, blacklist, second, mailed, sessions, call, calls, faults,
                 spent, uses, loggedOut, disturbed>>

Tick ==
  /\ second < MaxSeconds /\ second' = second + 1
  /\ UNCHANGED <<userVars, redisVars, mailed, sessions, call, calls, faults, history>>

Step(h) ==
  \/ LSendCode(h) \/ RSendCode(h) \/ SendResetPasswordCode(h)
  \/ Register(h) \/ Login(h) \/ LoginByCode(h) \/ ResetPassword(h) \/ Logout(h) \/ VerifyToken(h)
  \/ GetByEmail(h) \/ EmailExists(h) \/ CheckPassword(h) \/ CheckRateLimit(h) \/ SendEmail(h)
  \/ SetCode(h) \/ SetRateLimit(h) \/ GetCode(h) \/ DeleteCode(h) \/ Create(h) \/ CreateProfile(h)
  \/ Update(h) \/ SignIn(h) \/ Admit(h) \/ BlacklistAccess(h) \/ BlacklistRefresh(h) \/ Fail(h)

Next == (\E h \in Handlers : Step(h)) \/ RefreshToken \/ ExpireCode \/ ExpireLimit \/ Tick

Spec == Init /\ [][Next]_vars

-----------------------------------------------------------------------------
(* What the accounts promise                                               *)

Quiet(subject) == \A h \in Handlers : subject \notin call[h].subjects
Newest(k) ==
  LET sent == {c \in DOMAIN mailed : <<mailed[c].kind, mailed[c].email>> = k}
  IN  IF sent = {} THEN 0 ELSE CHOOSE c \in sent : \A d \in sent : d <= c

\* The code in the last mail of its kind is the one that is stored, until it is used or runs out;
\* unless a request of that kind failed or overlapped with another: the mail goes out before the
\* code is stored, and a use deletes the code that is there by then (user.go:51-57, 166-172).
NewestCodeStands ==
  \A k \in Keys :
    Quiet(k) /\ k \notin disturbed => codes[k] = IF Newest(k) \in spent THEN 0 ELSE Newest(k)

\* A code lets one operation through, unless two that use codes of this kind overlapped or the
\* code could not be deleted: it is read, compared and deleted in separate calls (user.go:47-57).
CodeUsedOnce ==
  \A c \in DOMAIN mailed :
    uses[c] > 1 => <<mailed[c].kind, mailed[c].email>> \in disturbed

\* One mail goes to an address, whatever its kind, before the rate limit has run out, unless two
\* requests to send overlapped or one failed: the limit is checked before the mail is sent and
\* set after the code is stored, and a failure to set it is passed over (user.go:152-180).
OneMailPerWindow == \A e \in Emails : window[e] > 1 => <<"mail", e>> \in disturbed

\* Only a logout of a session refuses its token, or one of a session that the same account began
\* in the same second: such tokens are the same string (jwt.go:46-60, 143-147).
LogoutIsItsOwn ==
  \A i \in DOMAIN sessions : IsBlacklisted(i) => \E j \in loggedOut : sessions[j] = sessions[i]
=============================================================================
