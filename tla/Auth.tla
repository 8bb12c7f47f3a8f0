--------------------------------- MODULE Auth ---------------------------------
(***************************************************************************)
(* Accounts and sessions: internal/auth and internal/web/auth.go.           *)
(*                                                                          *)
(* Each HTTP request is a goroutine of its own that passes the middleware   *)
(* and then makes the store calls of its handler one after the other; they  *)
(* share nothing but the two tables.  A store call may fail before or after *)
(* it took effect, the process may crash between two of them, and a browser *)
(* may lose an answer.  A token is known by the request that minted it;     *)
(* display names and the JSON of requests and answers are left out.         *)
(***************************************************************************)
EXTENDS Naturals

CONSTANTS
    Request,    \* the HTTP requests ever made
    Browser,    \* the cookie jars
    Username,   \* the user names (all of a valid length)
    Password,   \* the passwords
    Refused,    \* those validateCredentials refuses
    TooLong,    \* the valid ones of more than 72 bytes, which bcrypt refuses
    NoOne,      \* no account, no user, no token, no session
    TTL,        \* config.SessionTTL
    MaxTime,    \* bound of the model: readings of the clock
    Failures    \* bound of the model: how store calls may fail

ASSUME NoOneAssumption    == NoOne \notin Request \cup Username \cup Password
ASSUME PasswordAssumption == Refused \subseteq Password /\ TooLong \subseteq Password
ASSUME TimeAssumption     == TTL \in Nat \ {0} /\ MaxTime \in Nat
ASSUME FailureAssumption  == Failures \subseteq {"before", "after"}

\* What a request asks for; "page" stands for /api/me, /api/rooms and /ws,
\* which only read the user the middleware found.
Form ==
    [kind : {"register", "login"}, browser : Browser, name : Username, password : Password]
    \cup [kind : {"logout", "page"}, browser : Browser]
NoForm == [kind |-> "none"]

Session   == [user : Username, expires : Nat]
NoSession == [user |-> NoOne]

VARIABLES
    account,    \* the users table: the password of each name, or NoOne
    session,    \* the sessions table, by token
    clock,      \* the wall clock
    jar,        \* the session cookie of each browser
    form,       \* what each request asks for
    sent,       \* the cookie each request carries
    at,         \* where each request is
    user,       \* the user in each request's context
    answer,     \* what each request is answered
    openedAt,   \* history: when each token was stored
    revoked     \* history: the tokens whose deletion succeeded

tables == <<account, session>>
past   == <<openedAt, revoked>>
vars   == <<tables, clock, jar, form, sent, at, user, answer, past>>

TypeOK ==
    /\ account \in [Username -> Password \cup {NoOne}]
    /\ session \in [Request -> Session \cup {NoSession}]
    /\ clock \in 0..MaxTime
    /\ jar \in [Browser -> Request \cup {NoOne}]
    /\ form \in [Request -> Form \cup {NoForm}]
    /\ sent \in [Request -> Request \cup {NoOne}]
    /\ at \in [Request -> {"new", "sent", "register", "login", "logout", "page",
                           "open", "answered", "done"}]
    /\ user \in [Request -> Username \cup {NoOne}]
    /\ answer \in [Request -> {"none", "ok", "taken", "invalid", "unauthorized", "error"}]
    /\ openedAt \in [Request -> Nat]
    /\ revoked \subseteq Request

Init ==
    /\ account = [n \in Username |-> NoOne]
    /\ session = [t \in Request |-> NoSession]
    /\ clock = 0
    /\ jar = [b \in Browser |-> NoOne]
    /\ form = [q \in Request |-> NoForm]
    /\ sent = [q \in Request |-> NoOne]
    /\ at = [q \in Request |-> "new"]
    /\ user = [q \in Request |-> NoOne]
    /\ answer = [q \in Request |-> "none"]
    /\ openedAt = [t \in Request |-> 0]
    /\ revoked = {}

-----------------------------------------------------------------------------
Goes(q, where) == at' = [at EXCEPT ![q] = where]
Answers(q, a)  == Goes(q, "answered") /\ answer' = [answer EXCEPT ![q] = a]

\* A store call fails; what it was to do is done (E) or not (its variables as
\* they were, U).
Fails(E, U) == ("before" \in Failures /\ U) \/ ("after" \in Failures /\ E)

\* A browser sends a request, with the cookie it has.
Send(q) ==
    /\ at[q] = "new"
    /\ \E f \in Form :
         /\ form' = [form EXCEPT ![q] = f]
         /\ sent' = [sent EXCEPT ![q] = jar[f.browser]]
    /\ Goes(q, "sent")
    /\ UNCHANGED <<tables, clock, jar, user, answer, past>>

\* UserBySessionToken finds a session that has not expired.
\* Mutant of Live: expiry is not looked at.
LiveForever(t) == t # NoOne /\ session[t] # NoSession

Live(t) == /\ t # NoOne
           /\ session[t] # NoSession
           /\ session[t].expires > clock

\* authMiddleware: resolve the cookie; a failing lookup counts as no session.
\* The mux then calls the handler.
Authenticate(q) ==
    /\ at[q] = "sent"
    /\ \/ user' = [user EXCEPT ![q] = IF Live(sent[q]) THEN session[sent[q]].user ELSE NoOne]
       \/ sent[q] # NoOne /\ Failures # {} /\ UNCHANGED user
    /\ Goes(q, form[q].kind)
    /\ UNCHANGED <<tables, clock, jar, form, sent, answer, past>>

-----------------------------------------------------------------------------
\* Register: validate, hash, create the account, open a session.

RegisterRefused(q) ==
    /\ at[q] = "register"
    /\ form[q].password \in Refused
    /\ Answers(q, "invalid")
    /\ UNCHANGED <<tables, clock, jar, form, sent, user, past>>

HashFails(q) ==
    /\ at[q] = "register"
    /\ form[q].password \in TooLong \ Refused
    /\ Answers(q, "error")
    /\ UNCHANGED <<tables, clock, jar, form, sent, user, past>>

Hashed(q) == at[q] = "register" /\ form[q].password \notin Refused \cup TooLong

Insert(q) == account' = [account EXCEPT ![form[q].name] = form[q].password]

\* Mutant of CreateUser: an upsert.
CreateUserUpserts(q) ==
    /\ Hashed(q)
    /\ Insert(q)
    /\ Goes(q, "open")
    /\ UNCHANGED <<session, clock, jar, form, sent, user, answer, past>>

CreateUser(q) ==
    /\ Hashed(q)
    /\ account[form[q].name] = NoOne
    /\ Insert(q)
    /\ Goes(q, "open")
    /\ UNCHANGED <<session, clock, jar, form, sent, user, answer, past>>

\* The unique constraint.
NameTaken(q) ==
    /\ Hashed(q)
    /\ account[form[q].name] # NoOne
    /\ Answers(q, "taken")
    /\ UNCHANGED <<tables, clock, jar, form, sent, user, past>>

CreateUserFails(q) ==
    /\ Hashed(q)
    /\ Fails(account[form[q].name] = NoOne /\ Insert(q), UNCHANGED account)
    /\ Answers(q, "error")
    /\ UNCHANGED <<session, clock, jar, form, sent, user, past>>

\* openSession, of Register and Login.
\* Mutant of Store: for the user of the cookie the request came with.
StoreContextUser(q) ==
    /\ session' = [session EXCEPT ![q] = [user |-> user[q], expires |-> clock + TTL]]
    /\ openedAt' = [openedAt EXCEPT ![q] = clock]

Store(q) ==
    /\ session' = [session EXCEPT ![q] = [user |-> form[q].name, expires |-> clock + TTL]]
    /\ openedAt' = [openedAt EXCEPT ![q] = clock]

OpenSession(q) ==
    /\ at[q] = "open"
    /\ Store(q)
    /\ Answers(q, "ok")
    /\ UNCHANGED <<account, clock, jar, form, sent, user, revoked>>

OpenSessionFails(q) ==
    /\ at[q] = "open"
    /\ Fails(Store(q), UNCHANGED <<session, openedAt>>)
    /\ Answers(q, "error")
    /\ UNCHANGED <<account, clock, jar, form, sent, user, revoked>>

-----------------------------------------------------------------------------
\* Login: look the name up, compare, open a session.

PasswordMatches(q) == account[form[q].name] = form[q].password

LoginMatches(q) ==
    /\ at[q] = "login"
    /\ PasswordMatches(q)
    /\ Goes(q, "open")
    /\ UNCHANGED <<tables, clock, jar, form, sent, user, answer, past>>

\* An unknown name, a wrong password, or any failure of the lookup.
LoginRefused(q) ==
    /\ at[q] = "login"
    /\ ~PasswordMatches(q) \/ Failures # {}
    /\ Answers(q, "unauthorized")
    /\ UNCHANGED <<tables, clock, jar, form, sent, user, past>>

-----------------------------------------------------------------------------
\* Logout: delete the session of the cookie, if any.  A failure is logged and
\* the answer is the same.

\* Mutant of DeleteSession: all sessions of the user.
DeleteAllSessions(t) ==
    session' = [s \in Request |-> IF t # NoOne /\ session[s].user = session[t].user
                                  THEN NoSession ELSE session[s]]

DeleteSession(t) ==
    session' = [s \in Request |-> IF s = t THEN NoSession ELSE session[s]]

Logout(q) ==
    /\ at[q] = "logout"
    /\ DeleteSession(sent[q])
    /\ revoked' = revoked \cup ({sent[q]} \ {NoOne})
    /\ Answers(q, "ok")
    /\ UNCHANGED <<account, clock, jar, form, sent, user, openedAt>>

LogoutFails(q) ==
    /\ at[q] = "logout"
    /\ sent[q] # NoOne
    /\ Fails(DeleteSession(sent[q]), UNCHANGED session)
    /\ Answers(q, "ok")
    /\ UNCHANGED <<account, clock, jar, form, sent, user, past>>

\* The handlers that ask for the user in the context.
Page(q) ==
    /\ at[q] = "page"
    /\ Answers(q, IF user[q] = NoOne THEN "unauthorized" ELSE "ok")
    /\ UNCHANGED <<tables, clock, jar, form, sent, user, past>>

-----------------------------------------------------------------------------
\* The answer reaches the browser, with the cookie it sets or clears, or not.
Receive(q) ==
    /\ at[q] = "answered"
    /\ Goes(q, "done")
    /\ LET b == form[q].browser IN
         \/ form[q].kind \in {"register", "login"} /\ answer[q] = "ok"
            /\ jar' = [jar EXCEPT ![b] = q]
         \/ form[q].kind = "logout" /\ jar' = [jar EXCEPT ![b] = NoOne]
         \/ UNCHANGED jar
    /\ UNCHANGED <<tables, clock, form, sent, user, answer, past>>

\* The cookie's Max-Age is over, or the user deletes it.
ForgetCookie(b) ==
    /\ jar[b] # NoOne
    /\ jar' = [jar EXCEPT ![b] = NoOne]
    /\ UNCHANGED <<tables, clock, form, sent, at, user, answer, past>>

\* The process dies and is started again: the tables remain.
Crash ==
    /\ \E q \in Request : at[q] \notin {"new", "done"}
    /\ at' = [q \in Request |-> IF at[q] = "new" THEN "new" ELSE "done"]
    /\ UNCHANGED <<tables, clock, jar, form, sent, user, answer, past>>

Tick ==
    /\ clock < MaxTime
    /\ clock' = clock + 1
    /\ UNCHANGED <<tables, jar, form, sent, at, user, answer, past>>

Register(q) ==
    \/ RegisterRefused(q) \/ HashFails(q)
    \/ CreateUser(q) \/ NameTaken(q) \/ CreateUserFails(q)
Login(q)    == LoginMatches(q) \/ LoginRefused(q)
Open(q)     == OpenSession(q) \/ OpenSessionFails(q)

Serve(q) ==
    \/ Authenticate(q) \/ Register(q) \/ Login(q) \/ Open(q)
    \/ Logout(q) \/ LogoutFails(q) \/ Page(q)

\* Every request is over and no more of them come.
Terminated == (\A q \in Request : at[q] = "done") /\ UNCHANGED vars

Next ==
    \/ \E q \in Request : Send(q) \/ Serve(q) \/ Receive(q)
    \/ \E b \in Browser : ForgetCookie(b)
    \/ Crash \/ Tick \/ Terminated

Spec == Init /\ [][Next]_vars

-----------------------------------------------------------------------------
\* Registrations of one name race, fail halfway and are repeated: at most one
\* of them is told that it has the name, and the account then has its password.
OneOwner ==
    LET Registered(q) == form[q].kind = "register" /\ answer[q] = "ok"
    IN  \A p, q \in Request : Registered(p) /\ Registered(q) =>
          /\ account[form[q].name] = form[q].password
          /\ form[p].name = form[q].name => p = q

\* The middleware puts a user into a request's context only for a token that a
\* registration or login with this user's password has opened less than TTL
\* ago and that no successful logout has ended, whatever failed meanwhile.
AdmittedRightly ==
    [][\A q \in Request : user'[q] # user[q] =>
         LET t == sent[q] IN
           /\ form[t].kind \in {"register", "login"}
           /\ user'[q] = form[t].name
           /\ account[form[t].name] = form[t].password
           /\ clock < openedAt[t] + TTL
           /\ t \notin revoked]_vars

\* A session that was promised to a browser identifies its user for TTL, unless
\* a logout that carries its token ends it: other logouts, logins, failures and
\* crashes do not.  (A session that has expired may be pruned.)
SessionsStand ==
    \A t \in Request :
        /\ form[t].kind \in {"register", "login"} /\ answer[t] = "ok"
        /\ clock < openedAt[t] + TTL
        /\ ~\E q \in Request : form[q].kind = "logout" /\ sent[q] = t /\ answer[q] = "ok"
        => Live(t) /\ session[t].user = form[t].name
=============================================================================
