----------------------------- MODULE AuthProofs -----------------------------
(***************************************************************************)
(* Theorems about Auth, and about the tokens of Sessions, for every value  *)
(* of their constants: any number of requests, every precision of the      *)
(* clock, every life of tokens.                                            *)
(***************************************************************************)
EXTENDS Sessions, TLAPS

-----------------------------------------------------------------------------
(* The inductive invariant.                                                *)

HasAccount(id, x) ==
    \E user \in users : user.id = id /\ user.login = x.login /\ user.pass = x.pass

RequestGood(r, x) ==
    /\ x.pc = "new" => x.kind = None /\ x.token = None /\ x.code = None
    /\ x.pc \in {"insert", "commit"} =>
        /\ x.kind = "register" /\ x.login \in Logins /\ x.pass \in Passes
        /\ x.user = r /\ x.token = None /\ x.code = None
    /\ x.pc = "token" =>
        /\ x.user \in Requests /\ HasAccount(x.user, x) /\ x.token = None /\ x.code = None
        /\ x.kind = "register" => x.user = r
    /\ x.token # None => HasAccount(x.token, x)
    /\ x.kind = "register" /\ x.code = "200" => HasAccount(r, x)
    /\ x.kind = "register" /\ x.code = "409" => UsersWith(x.login) # {}

RequestsGood == \A r \in Requests : RequestGood(r, req[r])

\* The request that inserts a login holds its key.
KeysHeld ==
    \A r \in Requests : req[r].pc = "commit" =>
        /\ UsersWith(req[r].login) = {}
        /\ \A q \in Requests : q # r /\ req[q].pc = "commit" => req[q].login # req[r].login

\* A row was made by the request it is named after.
RowsMade == \A user \in users : req[user.id].pc \in {"token", "done"}

AuthInv == TypeOK /\ Accounts /\ RequestsGood /\ KeysHeld /\ RowsMade

LEMMA AuthInvInit == Init => AuthInv
<1> SUFFICES ASSUME Init PROVE AuthInv
  OBVIOUS
<1>1. NewRequest \in RequestState
  BY DEF NewRequest, RequestState
<1>2. TypeOK
  BY <1>1 DEF Init, TypeOK
<1>3. QED
  BY <1>2 DEF Init, AuthInv, Accounts, RequestsGood, RequestGood, KeysHeld, RowsMade, NewRequest

\* A step that moves one request, not to the insertion of a row, and nothing
\* else.
LEMMA RequestMoves ==
  ASSUME AuthInv, NEW r \in Requests, NEW x \in RequestState, RequestGood(r, x),
         x.pc # "commit", req[r].pc \in {"token", "done"} => x.pc \in {"token", "done"},
         req' = [req EXCEPT ![r] = x], UNCHANGED <<users, balances>>
  PROVE  AuthInv'
<1> USE DEF AuthInv
<1>1. TypeOK'
  BY DEF TypeOK
<1>2. Accounts'
  BY DEF Accounts
<1>3. RequestsGood'
  BY DEF TypeOK, RequestsGood, RequestGood, HasAccount, UsersWith
<1>4. KeysHeld'
  BY DEF TypeOK, KeysHeld, UsersWith
<1>5. RowsMade'
  BY DEF TypeOK, RowsMade
<1>6. QED
  BY <1>1, <1>2, <1>3, <1>4, <1>5

LEMMA EndedGood ==
  ASSUME AuthInv, NEW r \in Requests, NEW code \in {"500", None},
         req[r].pc \in {"insert", "commit", "token"}
  PROVE  /\ Ended(req[r], code) \in RequestState
         /\ RequestGood(r, Ended(req[r], code))
         /\ Ended(req[r], code).pc = "done"
<1>1. req[r] \in RequestState /\ RequestGood(r, req[r])
  BY DEF AuthInv, TypeOK, RequestsGood
<1>2. /\ Ended(req[r], code) \in RequestState
      /\ Ended(req[r], code).pc = "done"
      /\ Ended(req[r], code).code = code
      /\ Ended(req[r], code).token = req[r].token
  BY <1>1 DEF Ended, RequestState, Codes
<1>3. req[r].token = None /\ code # "200" /\ code # "409"
  BY <1>1, ConstantsAssumption DEF Codes, RequestGood
<1>4. QED
  BY <1>2, <1>3 DEF RequestGood

LEMMA InsertUserStep ==
  ASSUME AuthInv, NEW r \in Requests, InsertUser(r)
  PROVE  AuthInv'
<1>1. CASE Violates(req[r].login)
  BY <1>1, EndedGood, RequestMoves DEF InsertUser, Answered
<1>2. CASE ~Violates(req[r].login)
  <2> DEFINE x == [req[r] EXCEPT !.pc = "commit"]
  <2>1. /\ req[r].pc = "insert"
        /\ req[r] \in RequestState
        /\ RequestGood(r, req[r])
        /\ UsersWith(req[r].login) = {}
        /\ \A q \in Requests \ {r} : req[q].pc = "commit" => req[q].login # req[r].login
        /\ req' = [req EXCEPT ![r].pc = "commit"]
        /\ users' = users /\ balances' = balances
    BY <1>2 DEF InsertUser, KeyLocked, Violates, AuthInv, TypeOK, RequestsGood
  <2>2. req' = [req EXCEPT ![r] = x]
    BY <2>1 DEF AuthInv, TypeOK
  <2>3. /\ x \in RequestState /\ x.pc = "commit" /\ x.kind = req[r].kind
        /\ x.login = req[r].login /\ x.pass = req[r].pass /\ x.user = req[r].user
        /\ x.token = req[r].token /\ x.code = req[r].code
    BY <2>1 DEF RequestState
  <2>4. RequestGood(r, x)
    BY <2>1, <2>3, ConstantsAssumption DEF Codes, RequestGood
  <2> HIDE DEF x
  <2>5. TypeOK' /\ Accounts'
    BY <2>1, <2>2, <2>3 DEF AuthInv, TypeOK, Accounts
  <2>6. RequestsGood'
    BY <2>1, <2>2, <2>4 DEF AuthInv, TypeOK, RequestsGood, RequestGood, HasAccount, UsersWith
  <2>7. KeysHeld'
    BY <2>1, <2>2, <2>3 DEF AuthInv, TypeOK, KeysHeld, UsersWith
  <2>8. RowsMade'
    BY <2>1, <2>2 DEF AuthInv, TypeOK, RowsMade, User
  <2>9. QED
    BY <2>5, <2>6, <2>7, <2>8 DEF AuthInv
<1>3. QED
  BY <1>1, <1>2

LEMMA SaveBalanceStep ==
  ASSUME AuthInv, NEW r \in Requests, SaveBalance(r)
  PROVE  AuthInv'
<1> DEFINE row == [id |-> r, login |-> req[r].login, pass |-> req[r].pass]
           x == [req[r] EXCEPT !.pc = "token"]
<1>1. /\ req[r].pc = "commit"
      /\ req[r] \in RequestState
      /\ RequestGood(r, req[r])
      /\ req[r].user = r /\ req[r].login \in Logins /\ req[r].pass \in Passes
      /\ req[r].kind = "register" /\ req[r].token = None /\ req[r].code = None
  BY DEF SaveBalance, AuthInv, TypeOK, RequestsGood, RequestGood
<1>2. /\ users' = users \cup {row}
      /\ balances' = balances \cup {r}
      /\ req' = [req EXCEPT ![r] = x]
  BY <1>1 DEF SaveBalance, WithBalance, AuthInv, TypeOK
<1>3. row \in User /\ row.id = r /\ row.login = req[r].login /\ row.pass = req[r].pass
  BY <1>1 DEF User
<1>4. /\ x \in RequestState /\ x.pc = "token" /\ x.kind = "register" /\ x.user = r
      /\ x.login = req[r].login /\ x.pass = req[r].pass /\ x.token = None /\ x.code = None
  BY <1>1 DEF RequestState
<1>5. \A user \in users : user.id # r /\ user.login # row.login
  BY <1>1, <1>3 DEF AuthInv, RowsMade, KeysHeld, UsersWith
<1> HIDE DEF row, x
<1>6. TypeOK'
  BY <1>2, <1>3, <1>4 DEF AuthInv, TypeOK
<1>7. Accounts'
  BY <1>2, <1>3, <1>5 DEF AuthInv, Accounts
<1>8. RequestsGood'
  <2>1. ASSUME NEW q \in Requests, q # r PROVE RequestGood(q, req[q])'
    <3>1. req'[q] = req[q] /\ RequestGood(q, req[q])
      BY <1>2, <2>1 DEF AuthInv, TypeOK, RequestsGood
    <3>2. \A id : HasAccount(id, req[q]) => \E user \in users' :
                user.id = id /\ user.login = req[q].login /\ user.pass = req[q].pass
      BY <1>2 DEF HasAccount
    <3>3. UsersWith(req[q].login) # {} => {user \in users' : user.login = req[q].login} # {}
      BY <1>2 DEF UsersWith
    <3>4. QED
      BY <3>1, <3>2, <3>3 DEF RequestGood, HasAccount, UsersWith
  <2>2. RequestGood(r, req[r])'
    <3>1. req'[r] = x
      BY <1>2 DEF AuthInv, TypeOK
    <3>2. row \in users'
      BY <1>2
    <3>3. QED
      BY <1>3, <1>4, <3>1, <3>2, ConstantsAssumption DEF Codes, RequestGood, HasAccount
  <2>3. QED
    BY <2>1, <2>2 DEF RequestsGood
<1>9. KeysHeld'
  BY <1>1, <1>2, <1>3, <1>4 DEF AuthInv, TypeOK, KeysHeld, UsersWith
<1>10. RowsMade'
  BY <1>2, <1>3, <1>4 DEF AuthInv, TypeOK, RowsMade, User
<1>11. QED
  BY <1>6, <1>7, <1>8, <1>9, <1>10 DEF AuthInv

LEMMA PostRegisterStep ==
  ASSUME AuthInv, NEW r \in Requests, NEW login \in Logins \cup {Blank},
         NEW pass \in Passes \cup {Blank}, PostRegister(r, login, pass)
  PROVE  AuthInv'
<1> DEFINE posted == [NewRequest EXCEPT !.kind = "register", !.login = login, !.pass = pass]
           inserting == [posted EXCEPT !.pc = "insert", !.user = r]
<1>1. /\ posted \in RequestState /\ posted.token = None /\ posted.code = None
      /\ posted.kind = "register" /\ posted.login = login /\ posted.pass = pass
  BY DEF NewRequest, RequestState
<1>2. req[r].pc = "new" /\ UNCHANGED <<users, balances>>
  BY DEF PostRegister
<1>3. ASSUME NEW code \in {"400", "409"}, req' = [req EXCEPT ![r] = Ended(posted, code)],
             code = "409" => UsersWith(login) # {}
      PROVE  AuthInv'
  <2> DEFINE x == Ended(posted, code)
  <2>1. /\ x \in RequestState /\ x.pc = "done" /\ x.token = None /\ x.code = code
        /\ x.login = login /\ code # "200"
    BY <1>1, <1>3 DEF Ended, RequestState, Codes
  <2> HIDE DEF x
  <2>2. RequestGood(r, x)
    BY <1>3, <2>1 DEF RequestGood
  <2>3. QED
    BY <1>2, <1>3, <2>1, <2>2, RequestMoves DEF x
<1>4. CASE req' = [req EXCEPT ![r] = inserting] /\ Complete(login, pass)
  <2>1. /\ inserting \in RequestState /\ inserting.pc = "insert" /\ inserting.token = None
        /\ inserting.code = None /\ inserting.kind = "register" /\ inserting.login = login
        /\ inserting.pass = pass /\ inserting.user = r
    BY <1>1 DEF RequestState, NewRequest
  <2> HIDE DEF inserting
  <2>2. RequestGood(r, inserting)
    BY <1>4, <2>1, ConstantsAssumption DEF Codes, RequestGood, Complete
  <2>3. QED
    BY <1>2, <1>4, <2>1, <2>2, RequestMoves
<1>5. CASE ~Complete(login, pass)
  BY <1>3, <1>5 DEF PostRegister
<1>6. CASE Complete(login, pass) /\ UsersWith(login) # {}
  BY <1>3, <1>6 DEF PostRegister
<1>7. CASE Complete(login, pass) /\ UsersWith(login) = {}
  BY <1>4, <1>7 DEF PostRegister
<1>8. QED
  BY <1>5, <1>6, <1>7

LEMMA PostLoginStep ==
  ASSUME AuthInv, NEW r \in Requests, NEW login \in Logins \cup {Blank},
         NEW pass \in Passes \cup {Blank}, PostLogin(r, login, pass)
  PROVE  AuthInv'
<1> DEFINE posted == [NewRequest EXCEPT !.kind = "login", !.login = login, !.pass = pass]
<1>1. /\ posted \in RequestState /\ posted.token = None /\ posted.code = None
      /\ posted.kind = "login" /\ posted.login = login /\ posted.pass = pass
  BY DEF NewRequest, RequestState
<1>2. req[r].pc = "new" /\ UNCHANGED <<users, balances>>
  BY DEF PostLogin
<1>3. ASSUME NEW code \in {"400", "401"}, req' = [req EXCEPT ![r] = Ended(posted, code)]
      PROVE  AuthInv'
  <2> DEFINE x == Ended(posted, code)
  <2>1. x \in RequestState /\ x.pc = "done" /\ x.token = None /\ x.kind = "login"
    BY <1>1, <1>3 DEF Ended, RequestState, Codes
  <2> HIDE DEF x
  <2>2. RequestGood(r, x)
    BY <2>1 DEF RequestGood
  <2>3. QED
    BY <1>2, <1>3, <2>1, <2>2, RequestMoves DEF x
<1>4. ASSUME NEW user \in UsersWith(login), SamePass(pass, user),
             req' = [req EXCEPT ![r] = [posted EXCEPT !.pc = "token", !.user = user.id]]
      PROVE  AuthInv'
  <2> DEFINE x == [posted EXCEPT !.pc = "token", !.user = user.id]
  <2>1. user \in users /\ user.id \in Requests /\ user.login = login /\ user.pass = pass
    BY <1>4 DEF UsersWith, SamePass, AuthInv, TypeOK, User
  <2>2. /\ x \in RequestState /\ x.pc = "token" /\ x.token = None /\ x.code = None
        /\ x.kind = "login" /\ x.user = user.id /\ x.login = login /\ x.pass = pass
    BY <1>1, <2>1 DEF RequestState, NewRequest
  <2>3. req' = [req EXCEPT ![r] = x]
    BY <1>4
  <2> HIDE DEF x
  <2>4. RequestGood(r, x)
    BY <2>1, <2>2 DEF RequestGood, HasAccount
  <2>5. QED
    BY <1>2, <2>2, <2>3, <2>4, RequestMoves
<1>5. QED
  BY <1>3, <1>4 DEF PostLogin

LEMMA CreateTokenStep ==
  ASSUME AuthInv, NEW r \in Requests, CreateToken(r)
  PROVE  AuthInv'
<1> DEFINE x == [Ended(req[r], "200") EXCEPT !.token = req[r].user]
<1>1. /\ req[r].pc = "token" /\ req[r] \in RequestState /\ RequestGood(r, req[r])
      /\ req' = [req EXCEPT ![r] = x] /\ UNCHANGED <<users, balances>>
  BY DEF CreateToken, AuthInv, TypeOK, RequestsGood
<1>2. req[r].user \in Requests /\ HasAccount(req[r].user, req[r])
  BY <1>1 DEF RequestGood
<1>3. /\ x \in RequestState /\ x.pc = "done" /\ x.code = "200" /\ x.token = req[r].user
      /\ x.login = req[r].login /\ x.pass = req[r].pass /\ x.kind = req[r].kind
  BY <1>1, <1>2 DEF Ended, RequestState, Codes
<1> HIDE DEF x
<1>4. RequestGood(r, x)
  BY <1>1, <1>2, <1>3 DEF RequestGood, HasAccount
<1>5. QED
  BY <1>1, <1>3, <1>4, RequestMoves

LEMMA CrashStep == ASSUME AuthInv, Crash PROVE AuthInv'
<1>1. ASSUME NEW r \in Requests
      PROVE  /\ req'[r] = req[r] \/ req'[r] = Ended(req[r], None)
             /\ req'[r] \in RequestState /\ RequestGood(r, req'[r])
             /\ req'[r].pc \in {"new", "done"}
             /\ req[r].pc = "done" => req'[r].pc = "done"
             /\ req[r].pc = "token" => req'[r].pc = "done"
  <2>1. req[r] \in RequestState /\ RequestGood(r, req[r])
    BY DEF AuthInv, TypeOK, RequestsGood
  <2>2. CASE req[r].pc \in {"new", "done"}
    BY <2>1, <2>2 DEF Crash
  <2>3. CASE req[r].pc \in {"insert", "commit", "token"}
    BY <2>3, EndedGood DEF Crash
  <2>4. QED
    BY <2>1, <2>2, <2>3 DEF RequestState
<1>2. TypeOK'
  BY <1>1 DEF Crash, AuthInv, TypeOK
<1>3. Accounts'
  BY DEF Crash, AuthInv, Accounts
<1>4. RequestsGood'
  BY <1>1 DEF Crash, RequestsGood, RequestGood, HasAccount, UsersWith
<1>5. KeysHeld'
  BY <1>1 DEF KeysHeld
<1>6. RowsMade'
  BY <1>1 DEF Crash, AuthInv, TypeOK, RowsMade, User
<1>7. QED
  BY <1>2, <1>3, <1>4, <1>5, <1>6 DEF AuthInv

LEMMA AuthInvStep == AuthInv /\ [Next]_vars => AuthInv'
<1> SUFFICES ASSUME AuthInv, [Next]_vars PROVE AuthInv'
  OBVIOUS
<1>1. ASSUME NEW r \in Requests, Abort(r) PROVE AuthInv'
  BY <1>1, EndedGood, RequestMoves DEF Abort, Answered
<1>2. CASE UNCHANGED vars
  BY <1>2 DEF vars, AuthInv, TypeOK, Accounts, RequestsGood, RequestGood, HasAccount, UsersWith,
              KeysHeld, RowsMade
<1>3. QED
  BY <1>1, <1>2, PostRegisterStep, PostLoginStep, InsertUserStep, SaveBalanceStep,
     CreateTokenStep, CrashStep DEF Next

\* However registrations of one login race, fail or are cut off by a crash:
\* logins are unique and a user is never without a balance (Register).
THEOREM AccountsAlways == Spec => []Accounts
<1>1. AuthInv => Accounts
  BY DEF AuthInv
<1>2. QED
  BY <1>1, AuthInvInit, AuthInvStep, PTL DEF Spec

\* A token that was given out names the one account with the login and the
\* password of the request (Register, Login).
THEOREM TokensAlwaysHonest == Spec => []TokensHonest
<1>1. AuthInv => TokensHonest
  BY DEF AuthInv, RequestsGood, RequestGood, HasAccount, TokensHonest
<1>2. QED
  BY <1>1, AuthInvInit, AuthInvStep, PTL DEF Spec

\* No login is registered with success twice, and 409 is not a lie (Register).
THEOREM RegisteredAtMostOnce == Spec => []RegisteredOnce
<1>1. AuthInv => RegisteredOnce
  <2> SUFFICES ASSUME AuthInv PROVE RegisteredOnce
    OBVIOUS
  <2>1. ASSUME NEW r \in Requests, req[r].kind = "register", req[r].code = "409"
        PROVE  UsersWith(req[r].login) # {}
    BY <2>1 DEF AuthInv, RequestsGood, RequestGood
  <2>2. ASSUME NEW r \in Requests, req[r].kind = "register", req[r].code = "200",
               NEW q \in Requests, req[q].kind = "register", req[q].code = "200",
               req[q].login = req[r].login
        PROVE  q = r
    <3>1. HasAccount(r, req[r]) /\ HasAccount(q, req[q])
      BY <2>2 DEF AuthInv, RequestsGood, RequestGood
    <3>2. QED
      BY <2>2, <3>1 DEF AuthInv, Accounts, HasAccount
  <2>3. QED
    BY <2>1, <2>2 DEF RegisteredOnce
<1>2. QED
  BY <1>1, AuthInvInit, AuthInvStep, PTL DEF Spec
-----------------------------------------------------------------------------
(* What truncation to multiples does.                                      *)

LEMMA Truncated ==
  ASSUME NEW a \in Nat, NEW b \in Nat \ {0}
  PROVE  /\ (a \div b) * b \in Nat
         /\ (a \div b) * b <= a
         /\ a < (a \div b) * b + b
<1>1. a \div b \in Nat /\ a % b \in 0 .. b - 1
  OBVIOUS
<1>2. a = b * (a \div b) + (a % b)
  OBVIOUS
<1> DEFINE q == a \div b
           m == a % b
<1>3. q \in Nat /\ m \in Nat /\ m < b /\ a = b * q + m
  BY <1>1, <1>2
<1> HIDE DEF q, m
<1>4. b * q = q * b /\ q * b \in Nat
  BY <1>3
<1>5. q * b \in Nat /\ q * b <= a /\ a < q * b + b
  BY <1>3, <1>4
<1>6. QED
  BY <1>5 DEF q
-----------------------------------------------------------------------------
(* The inductive invariant: a token's claim is computed from the moment it *)
(* was made, and that is past.                                             *)

Stamped(r) ==
    req[r].token # None => made[r] \in 0..now /\ exp[r] = ExpiresAt(made[r])

SessionInv ==
    /\ AuthInv
    /\ now \in Nat
    /\ \A r \in Requests : Stamped(r)

LEMMA SessionInvInit == SessionInit => SessionInv
<1> SUFFICES ASSUME SessionInit PROVE SessionInv
  OBVIOUS
<1>1. AuthInv
  BY AuthInvInit DEF SessionInit
<1>2. \A r \in Requests : req[r].token = None
  BY DEF SessionInit, Init, NewRequest
<1>3. QED
  BY <1>1, <1>2 DEF SessionInit, SessionInv, Stamped

LEMMA SessionInvStep == SessionInv /\ [SessionNext]_<<vars, clocks>> => SessionInv'
<1> SUFFICES ASSUME SessionInv, [SessionNext]_<<vars, clocks>> PROVE SessionInv'
  OBVIOUS
<1>1. CASE AuthStep
  <2>1. AuthInv'
    BY <1>1, AuthInvStep DEF AuthStep, SessionInv
  <2>2. now' = now /\ now \in Nat
    BY <1>1 DEF AuthStep, SessionInv
  <2>3. ASSUME NEW r \in Requests, req'[r].token # None
        PROVE  made'[r] \in 0..now' /\ exp'[r] = ExpiresAt(made'[r])
    <3>1. CASE req[r].token = None
      BY <1>1, <2>2, <2>3, <3>1 DEF AuthStep
    <3>2. CASE req[r].token # None
      BY <1>1, <2>2, <3>2 DEF AuthStep, SessionInv, Stamped
    <3>3. QED
      BY <3>1, <3>2
  <2>4. QED
    BY <2>1, <2>2, <2>3 DEF SessionInv, Stamped, ExpiresAt
<1>2. CASE Tick
  <2>1. AuthInv'
    BY <1>2, AuthInvStep DEF Tick, SessionInv
  <2>2. now' = now + 1 /\ UNCHANGED <<req, made, exp>>
    BY <1>2 DEF Tick, vars
  <2>3. QED
    BY <2>1, <2>2 DEF SessionInv, Stamped, ExpiresAt
<1>3. CASE UNCHANGED <<vars, clocks>>
  <2>1. AuthInv'
    BY <1>3, AuthInvStep DEF SessionInv
  <2>2. QED
    BY <1>3, <2>1 DEF SessionInv, Stamped, ExpiresAt, vars, clocks
<1>4. QED
  BY <1>1, <1>2, <1>3 DEF SessionNext
-----------------------------------------------------------------------------
(* A token and its claim are there together, or neither is.                *)

\* Who was answered a token keeps it: the request is done.
LEMMA AnswerKept ==
  ASSUME AuthInv, Next, NEW r \in Requests, req[r].token # None
  PROVE  req'[r] = req[r]
<1>1. req[r].pc = "done"
  BY DEF AuthInv, TypeOK, RequestState, RequestsGood, RequestGood
<1>2. req \in [Requests -> RequestState]
  BY DEF AuthInv, TypeOK
<1>3. ASSUME NEW q \in Requests,
             NEW login \in Logins \cup {Blank}, NEW pass \in Passes \cup {Blank},
             PostRegister(q, login, pass) \/ PostLogin(q, login, pass)
      PROVE  req'[r] = req[r]
  BY <1>1, <1>2, <1>3 DEF PostRegister, PostLogin
<1>4. ASSUME NEW q \in Requests,
             InsertUser(q) \/ SaveBalance(q) \/ CreateToken(q) \/ Abort(q)
      PROVE  req'[r] = req[r]
  BY <1>1, <1>2, <1>4 DEF InsertUser, SaveBalance, CreateToken, Abort, Answered
<1>5. CASE Crash
  BY <1>1, <1>2, <1>5 DEF Crash
<1>6. QED
  BY <1>3, <1>4, <1>5 DEF Next

\* The claims of a token made in time are in Times, and are not None.
LEMMA ClaimInTime ==
  ASSUME NEW t \in 0..MaxNow
  PROVE  t \in Times /\ ExpiresAt(t) \in Times /\ t # None /\ ExpiresAt(t) # None
<1>1. t + Expires \in Nat /\ t + Expires <= MaxNow + Expires /\ Second \in Nat \ {0}
  BY ClockAssumption
<1>2. ExpiresAt(t) \in Nat /\ ExpiresAt(t) <= t + Expires
  BY <1>1, Truncated DEF ExpiresAt
<1>3. t \in Times /\ ExpiresAt(t) \in Times
  BY <1>1, <1>2, ClockAssumption DEF Times
<1>4. QED
  BY <1>3, ClockAssumption DEF Times

LEMMA SessionTypeInit == SessionInit => SessionTypeOK
<1> SUFFICES ASSUME SessionInit PROVE SessionTypeOK
  OBVIOUS
<1>1. TypeOK /\ \A r \in Requests : req[r].token = None
  BY AuthInvInit DEF SessionInit, Init, NewRequest, AuthInv
<1>2. QED
  BY <1>1, ClockAssumption DEF SessionInit, SessionTypeOK

LEMMA SessionTypeStep ==
  SessionInv /\ SessionTypeOK /\ [SessionNext]_<<vars, clocks>> => SessionTypeOK'
<1> SUFFICES ASSUME SessionInv, SessionTypeOK, [SessionNext]_<<vars, clocks>>
             PROVE  SessionTypeOK'
  OBVIOUS
<1>1. TypeOK'
  BY SessionInvStep DEF SessionInv, AuthInv
<1>2. CASE AuthStep
  <2>1. now' = now /\ now \in 0..MaxNow
    BY <1>2 DEF AuthStep, SessionTypeOK
  <2>2. ASSUME NEW r \in Requests
        PROVE  /\ exp'[r] \in Times \cup {None} /\ made'[r] \in Times \cup {None}
               /\ (req'[r].token = None) <=> (exp'[r] = None)
    <3>1. CASE req[r].token = None /\ req'[r].token # None
      <4>1. exp'[r] = ExpiresAt(now) /\ made'[r] = now
        BY <1>2, <3>1 DEF AuthStep
      <4>2. QED
        BY <2>1, <3>1, <4>1, ClaimInTime
    <3>2. CASE req[r].token # None
      <4>1. req'[r] = req[r]
        BY <1>2, <3>2, AnswerKept DEF AuthStep, SessionInv
      <4>2. exp'[r] = exp[r] /\ made'[r] = made[r]
        BY <1>2, <3>2 DEF AuthStep
      <4>3. QED
        BY <4>1, <4>2 DEF SessionTypeOK
    <3>3. CASE req[r].token = None /\ req'[r].token = None
      <4>1. exp'[r] = exp[r] /\ made'[r] = made[r]
        BY <1>2, <3>3 DEF AuthStep
      <4>2. QED
        BY <3>3, <4>1 DEF SessionTypeOK
    <3>4. QED
      BY <3>1, <3>2, <3>3
  <2>3. exp' = [r \in Requests |-> exp'[r]] /\ made' = [r \in Requests |-> made'[r]]
    BY <1>2 DEF AuthStep
  <2>4. QED
    BY <1>1, <2>1, <2>2, <2>3 DEF SessionTypeOK
<1>3. CASE Tick
  BY <1>1, <1>3, ClockAssumption DEF Tick, vars, SessionTypeOK
<1>4. CASE UNCHANGED <<vars, clocks>>
  BY <1>1, <1>4 DEF vars, clocks, SessionTypeOK
<1>5. QED
  BY <1>2, <1>3, <1>4 DEF SessionNext

\* The clock, the claims and the answers have their types, and a token that
\* was answered always has the claim that was put into it (Create).
THEOREM SessionsTyped == SessionSpec => []SessionTypeOK
<1>1. SessionInit => SessionInv /\ SessionTypeOK
  BY SessionInvInit, SessionTypeInit
<1>2. SessionInv /\ SessionTypeOK /\ [SessionNext]_<<vars, clocks>>
        => SessionInv' /\ SessionTypeOK'
  BY SessionInvStep, SessionTypeStep
<1>3. QED
  BY <1>1, <1>2, PTL DEF SessionSpec
-----------------------------------------------------------------------------
\* The claim lies within the last second of the token's life.
LEMMA Claim ==
  ASSUME SessionInv, NEW r \in Requests, req[r].token # None
  PROVE  /\ made[r] \in Nat /\ exp[r] \in Nat
         /\ exp[r] <= made[r] + Expires
         /\ made[r] + Expires < exp[r] + Second
<1>1. made[r] \in Nat /\ exp[r] = ExpiresAt(made[r])
  BY DEF SessionInv, Stamped
<1>2. made[r] + Expires \in Nat /\ Second \in Nat \ {0}
  BY <1>1, ClockAssumption
<1>3. QED
  BY <1>1, <1>2, Truncated DEF ExpiresAt

\* Who acts for a user behind the middleware proved it with that user's login
\* and password, less than the configured life of a token ago.
THEOREM SessionsAlwaysHonest == SessionSpec => []SessionsHonest
<1>1. SessionInv => SessionsHonest
  <2> SUFFICES ASSUME SessionInv, NEW r \in Requests, ActsFor(r) # None
               PROVE  /\ now < made[r] + Expires
                      /\ ActsFor(r) \in balances
                      /\ \E user \in users :
                          /\ user.id = ActsFor(r)
                          /\ user.login = req[r].login /\ user.pass = req[r].pass
    BY DEF SessionsHonest
  <2>1. req[r].token # None /\ now < exp[r] /\ ActsFor(r) = req[r].token
    BY DEF ActsFor, StillValid, Expired
  <2>2. now < made[r] + Expires
    BY <2>1, Claim, ClockAssumption DEF SessionInv
  <2>3. HasAccount(req[r].token, req[r])
    BY <2>1 DEF SessionInv, AuthInv, RequestsGood, RequestGood
  <2>4. QED
    BY <2>1, <2>2, <2>3 DEF SessionInv, AuthInv, Accounts, HasAccount
<1>2. QED
  BY <1>1, SessionInvInit, SessionInvStep, PTL DEF SessionSpec

\* Truncating the claim costs a session less than a second.
THEOREM SessionsAlwaysLast == SessionSpec => []SessionsLast
<1>1. SessionInv => SessionsLast
  <2> SUFFICES ASSUME SessionInv, NEW r \in Requests,
                      req[r].token # None, now + Second <= made[r] + Expires
               PROVE  ActsFor(r) # None
    BY DEF SessionsLast
  <2>1. now < exp[r] /\ ~ (exp[r] < now)
    BY Claim, ClockAssumption DEF SessionInv
  <2>2. QED
    BY <2>1 DEF ActsFor, StillValid, Expired
<1>2. QED
  BY <1>1, SessionInvInit, SessionInvStep, PTL DEF SessionSpec
=============================================================================
