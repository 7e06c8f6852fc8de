-------------------------------- MODULE Auth --------------------------------
(***************************************************************************)
(* Accounts: AuthUseCase over the tables users and balances, behind the    *)
(* endpoints POST /api/user/register and POST /api/user/login.  One action *)
(* per statement where another request may run in between.                 *)
(*                                                                         *)
(* A user's uuid is new for every registration: it is abstracted by the    *)
(* request that makes it.  The hash of a password is abstracted by the     *)
(* password, which Compare tells from every other one, and a token by the  *)
(* user it names.                                                          *)
(***************************************************************************)
EXTENDS Integers, FiniteSets

CONSTANTS
    Logins,         \* the logins clients send
    Passes,         \* the passwords they send
    Blank,          \* the empty login or password
    Requests,       \* HTTP requests, each one registration or login
    None

Codes == {"200", "400", "401", "409", "500"}

ASSUME ConstantsAssumption ==
    /\ Blank \notin Logins \cup Passes
    /\ None \notin Logins \cup Passes \cup Requests \cup Codes \cup {Blank}

VARIABLES
    users,      \* the committed rows of table users
    balances,   \* the users that have a row in table balances
    req         \* request -> the state of its handler

vars == <<users, balances, req>>

User  == [id : Requests, login : Logins, pass : Passes]
RequestState ==
    [pc    : {"new", "insert", "commit", "token", "done"},
     kind  : {"register", "login", None},
     login : Logins \cup {Blank, None},
     pass  : Passes \cup {Blank, None},
     user  : Requests \cup {None},
     token : Requests \cup {None},    \* the user it names
     code  : Codes \cup {None}]

TypeOK ==
    /\ users \subseteq User
    /\ balances \subseteq Requests
    /\ req \in [Requests -> RequestState]

NewRequest ==
    [pc |-> "new", kind |-> None, login |-> None, pass |-> None, user |-> None,
     token |-> None, code |-> None]

Init ==
    /\ users = {}
    /\ balances = {}
    /\ req = [r \in Requests |-> NewRequest]

Ended(request, code) == [request EXCEPT !.pc = "done", !.code = code]

Answered(r, code) == req' = [req EXCEPT ![r] = Ended(@, code)]

\* validate and Creds.Valid.
HasLogin(login, pass) == login # Blank
Complete(login, pass) == login # Blank /\ pass # Blank

UsersWith(login) == {user \in users : user.login = login}

\* The unique key login is inserted by another request, uncommitted.
KeyLocked(login, r) ==
    \E q \in Requests \ {r} : req[q].pc = "commit" /\ req[q].login = login

\* users_login_key is violated: ON CONFLICT (id) does not cover it.
ViolatesUnnoticed(login) == FALSE
Violates(login) == UsersWith(login) # {}
-----------------------------------------------------------------------------
(* Register.                                                               *)

\* Validate and look for the login, outside any transaction.
PostRegister(r, login, pass) ==
    LET posted == [NewRequest EXCEPT !.kind = "register", !.login = login, !.pass = pass]
    IN  /\ req[r].pc = "new"
        /\ req' = [req EXCEPT ![r] =
                IF ~Complete(login, pass) THEN Ended(posted, "400")
                ELSE IF UsersWith(login) # {} THEN Ended(posted, "409")
                ELSE [posted EXCEPT !.pc = "insert", !.user = r]]
        /\ UNCHANGED <<users, balances>>

\* The INSERT waits for an uncommitted one of the same login.  The error of
\* the violated key is not ErrAuthUserExists, so it is answered 500.
InsertUser(r) ==
    /\ req[r].pc = "insert"
    /\ ~KeyLocked(req[r].login, r)
    /\ IF Violates(req[r].login) THEN Answered(r, "500")
       ELSE req' = [req EXCEPT ![r].pc = "commit"]
    /\ UNCHANGED <<users, balances>>

\* Insert the balance and commit both rows.
BalanceForgotten(id) == balances
WithBalance(id) == balances \cup {id}

SaveBalance(r) ==
    /\ req[r].pc = "commit"
    /\ users' = users \cup {[id |-> req[r].user, login |-> req[r].login, pass |-> req[r].pass]}
    /\ balances' = WithBalance(req[r].user)
    /\ req' = [req EXCEPT ![r].pc = "token"]
-----------------------------------------------------------------------------
(* Login, and what both end with.                                          *)

\* Compare.
AnyPass(pass, user) == TRUE
SamePass(pass, user) == user.pass = pass

PostLogin(r, login, pass) ==
    LET posted == [NewRequest EXCEPT !.kind = "login", !.login = login, !.pass = pass]
    IN  /\ req[r].pc = "new"
        /\ IF ~Complete(login, pass)
           THEN req' = [req EXCEPT ![r] = Ended(posted, "400")]
           ELSE \/ /\ \A user \in UsersWith(login) : ~SamePass(pass, user)
                   /\ req' = [req EXCEPT ![r] = Ended(posted, "401")]
                \/ \E user \in UsersWith(login) :
                   /\ SamePass(pass, user)
                   /\ req' = [req EXCEPT ![r] = [posted EXCEPT !.pc = "token", !.user = user.id]]
        /\ UNCHANGED <<users, balances>>

\* The token is made after the commit: if that fails the account stays.
CreateToken(r) ==
    /\ req[r].pc = "token"
    /\ req' = [req EXCEPT ![r] = [Ended(@, "200") EXCEPT
                   !.token = req[r].user]]
    /\ UNCHANGED <<users, balances>>

\* A statement fails (and rolls the transaction back), or Create does.
Abort(r) ==
    /\ req[r].pc \in {"insert", "commit", "token"}
    /\ Answered(r, "500")
    /\ UNCHANGED <<users, balances>>

\* The process dies and is started again; clients keep the tokens they have.
Crash ==
    /\ \E r \in Requests : req[r].pc \notin {"new", "done"}
    /\ req' = [r \in Requests |->
                  IF req[r].pc \in {"new", "done"} THEN req[r] ELSE Ended(req[r], None)]
    /\ UNCHANGED <<users, balances>>

Next ==
    \/ \E r \in Requests :
        \/ \E login \in Logins \cup {Blank}, pass \in Passes \cup {Blank} :
                PostRegister(r, login, pass) \/ PostLogin(r, login, pass)
        \/ InsertUser(r) \/ SaveBalance(r) \/ CreateToken(r) \/ Abort(r)
    \/ Crash

Spec == Init /\ [][Next]_vars
-----------------------------------------------------------------------------
(* Properties.                                                             *)

\* Logins are unique whatever registrations race, and every user that can be
\* seen has a balance (the use cases of orders and balances rely on it).
Accounts ==
    /\ \A a, b \in users : a.login = b.login \/ a.id = b.id => a = b
    /\ \A user \in users : user.id \in balances
    /\ \A id \in balances : \E user \in users : user.id = id

\* A token names the one account whose login and password its request sent.
TokensHonest ==
    \A r \in Requests : req[r].token # None =>
        \E user \in users :
            /\ user.id = req[r].token
            /\ user.login = req[r].login /\ user.pass = req[r].pass

\* A login is registered with success once; 409 means that somebody has it.
RegisteredOnce ==
    \A r \in Requests : req[r].kind = "register" =>
        /\ req[r].code = "409" => UsersWith(req[r].login) # {}
        /\ req[r].code = "200" =>
            \A q \in Requests \ {r} :
                ~(req[q].kind = "register" /\ req[q].code = "200"
                    /\ req[q].login = req[r].login)
=============================================================================
