------------------------------ MODULE Sessions ------------------------------
(***************************************************************************)
(* Tokens in use: what Auth hands out at registration and login is a JWT   *)
(* with an expiry, and the middleware in front of every other endpoint     *)
(* asks for it.  The clock is that of the service, in ticks; a JWT counts  *)
(* in whole seconds.  A token outlives crashes: nothing of it is stored.   *)
(***************************************************************************)
EXTENDS Auth

CONSTANTS
    Second,     \* ticks in a second, the precision of a NumericDate
    Expires,    \* the configured life of a token, in ticks
    MaxNow      \* when the clock stops

ASSUME ClockAssumption ==
    /\ Second \in Nat \ {0}
    /\ Expires \in Nat
    /\ MaxNow \in Nat
    /\ None \notin 0 .. MaxNow + Expires

VARIABLES
    now,        \* the clock
    exp,        \* request -> the claim exp of the token it was answered
    made        \* request -> when that token was made: history, read by no action

clocks == <<now, exp, made>>

Times == 0 .. MaxNow + Expires

SessionTypeOK ==
    /\ TypeOK
    /\ now \in 0..MaxNow
    /\ exp \in [Requests -> Times \cup {None}]
    /\ made \in [Requests -> Times \cup {None}]
    /\ \A r \in Requests : (req[r].token = None) <=> (exp[r] = None)

SessionInit ==
    /\ Init
    /\ now = 0
    /\ exp = [r \in Requests |-> None]
    /\ made = [r \in Requests |-> None]

\* JWTTokener.Create: NewNumericDate drops the fraction of the second.
ExpiresAtNext(t) == ((t + Expires) \div Second + 1) * Second
ExpiresAtTruncated(t) == (t \div Second + Expires \div Second) * Second
ExpiresAt(t) == ((t + Expires) \div Second) * Second

\* A step of registration or login; a token that it makes carries its expiry.
AuthStep ==
    /\ Next
    /\ LET fresh == {r \in Requests : req[r].token = None /\ req'[r].token # None}
       IN  /\ exp' = [r \in Requests |-> IF r \in fresh THEN ExpiresAt(now) ELSE exp[r]]
           /\ made' = [r \in Requests |-> IF r \in fresh THEN now ELSE made[r]]
    /\ UNCHANGED now

Tick ==
    /\ now < MaxNow
    /\ now' = now + 1
    /\ UNCHANGED <<vars, exp, made>>

SessionNext == AuthStep \/ Tick
SessionSpec == SessionInit /\ [][SessionNext]_<<vars, clocks>>
-----------------------------------------------------------------------------
(* The middleware Auth, and getUserID behind it.                           *)

\* JWTTokener.GetUserID: the parser wants the clock before exp; the test of
\* the expiry that the code adds refuses nothing more.
Expired(t) == ~ (now < t)
StillValid(t) == ~Expired(t) /\ ~ (t < now)

\* The user a request with the bearer token that r was answered acts for;
\* None is 401, which a request without a token gets too.
ActsFor(r) ==
    IF req[r].token # None /\ StillValid(exp[r]) THEN req[r].token ELSE None
-----------------------------------------------------------------------------
(* Properties.                                                             *)

\* Whoever acts for a user proved it with that user's login and password
\* within the configured life of a token, and the user is there, with the
\* balance that the use cases behind the middleware read.
SessionsHonest ==
    \A r \in Requests : ActsFor(r) # None =>
        /\ now < made[r] + Expires
        /\ ActsFor(r) \in balances
        /\ \E user \in users :
            /\ user.id = ActsFor(r)
            /\ user.login = req[r].login /\ user.pass = req[r].pass

\* And nobody is sent to log in again earlier than a second before the token
\* was to end: that much the truncation of exp takes.
SessionsLast ==
    \A r \in Requests :
        req[r].token # None /\ now + Second <= made[r] + Expires => ActsFor(r) # None
=============================================================================
