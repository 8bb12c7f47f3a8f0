------------------------------ MODULE AuthProofs ------------------------------
(***************************************************************************)
(* Theorems about Auth, for all requests, browsers, names and passwords and *)
(* every way in which store calls may fail.                                 *)
(***************************************************************************)
EXTENDS Auth, TLAPS

-----------------------------------------------------------------------------
\* The inductive invariant.

\* A request of this form opens a session if it succeeds.
Opens(q) == form[q].kind \in {"register", "login"}

\* It holds the right to a session, or has got one.
Entitled(q) == Opens(q) /\ (at[q] = "open" \/ answer[q] = "ok")

\* A browser was promised the session of the token.
Promised(t) == Opens(t) /\ answer[t] = "ok"

\* A request is served in the handler its form asks for, and answered last.
Routed ==
    \A q \in Request :
        /\ at[q] # "new" => form[q] \in Form
        /\ at[q] \in {"register", "login", "logout", "page"} => form[q].kind = at[q]
        /\ at[q] = "open" => Opens(q)
        /\ answer[q] # "none" => at[q] \in {"answered", "done"}
        /\ at[q] \in {"new", "sent"} => user[q] = NoOne

\* The right to a session comes from the password of the account, and of the
\* registrations of a name one alone has it.
PasswordShown == \A q \in Request : Entitled(q) => account[form[q].name] = form[q].password
OneCreator ==
    \A p, q \in Request :
        /\ Entitled(p) /\ form[p].kind = "register"
        /\ Entitled(q) /\ form[q].kind = "register"
        /\ form[p].name = form[q].name
        => p = q

\* Browsers know, and send, tokens they were promised only.
TokensPromised ==
    /\ \A b \in Browser : jar[b] # NoOne => Promised(jar[b])
    /\ \A q \in Request : sent[q] # NoOne => Promised(sent[q])
    /\ \A t \in revoked : Promised(t)

\* What a stored session says.
SessionsTrue ==
    \A t \in Request : session[t] # NoSession =>
        /\ Opens(t) /\ at[t] \in {"answered", "done"} /\ t \notin revoked
        /\ session[t].user = form[t].name
        /\ session[t].expires = openedAt[t] + TTL
        /\ account[form[t].name] = form[t].password

\* No row but that of a logout's token is deleted.
RowsStand ==
    \A t \in Request :
        /\ Promised(t)
        /\ ~\E q \in Request : form[q].kind = "logout" /\ sent[q] = t /\ answer[q] = "ok"
        => session[t] # NoSession

AuthInv ==
    /\ TypeOK /\ Routed /\ PasswordShown /\ OneCreator
    /\ TokensPromised /\ SessionsTrue /\ RowsStand

-----------------------------------------------------------------------------
LEMMA FormFields ==
    ASSUME NEW f \in Form
    PROVE  /\ f.kind \in {"register", "login", "logout", "page"}
           /\ f.browser \in Browser
           /\ f.kind \in {"register", "login"} => f.name \in Username /\ f.password \in Password
  BY DEF Form

LEMMA SomeSession ==
    ASSUME NEW n \in Username, NEW e \in Nat
    PROVE  [user |-> n, expires |-> e] # NoSession
<1>1. n # NoOne
  BY NoOneAssumption
<1> QED  BY <1>1 DEF NoSession

LEMMA AuthInit == Init => AuthInv
<1> SUFFICES ASSUME Init PROVE AuthInv
  OBVIOUS
<1>1. TypeOK
  BY TimeAssumption DEF Init, TypeOK
<1>2. Routed /\ PasswordShown /\ OneCreator /\ TokensPromised /\ SessionsTrue /\ RowsStand
  BY DEF Init, Routed, PasswordShown, OneCreator, Entitled, Promised, Opens, TokensPromised,
         SessionsTrue, RowsStand
<1> QED  BY <1>1, <1>2 DEF AuthInv

\* A request q is answered, or passed on, and nothing else changes.
LEMMA MovesOn ==
    ASSUME AuthInv, NEW q \in Request, at[q] # "new",
           UNCHANGED <<tables, clock, form, sent, past>>,
           NEW where \in {"register", "login", "logout", "page", "answered", "done"}, Goes(q, where),
           where \notin {"answered", "done"} => form[q].kind = where /\ at[q] = "sent",
           NEW a \in {"none", "ok", "taken", "invalid", "unauthorized", "error"},
           a # "none" => where \in {"answered", "done"},
           answer' = [answer EXCEPT ![q] = a],
           a = "ok" => answer[q] = "ok" \/ ~Opens(q),
           form[q].kind = "logout" /\ sent[q] # NoOne /\ answer[q] = "ok" => a = "ok",
           answer[q] = "ok" => a = "ok",
           user' \in [Request -> Username \cup {NoOne}],
           \A p \in Request : p # q => user'[p] = user[p],
           jar' \in [Browser -> Request \cup {NoOne}],
           \A b \in Browser : jar'[b] \in {jar[b], NoOne} \/ (jar'[b] = q /\ Promised(q)')
    PROVE  AuthInv'
<1>1. TypeOK'
  BY DEF AuthInv, TypeOK, Goes, tables, past
<1>2. /\ at'[q] = where /\ answer'[q] = a
      /\ \A p \in Request : p # q => at'[p] = at[p] /\ answer'[p] = answer[p]
      /\ UNCHANGED <<account, session, form, sent, openedAt, revoked>>
  BY DEF AuthInv, TypeOK, Goes, tables, past
<1>3. \A p \in Request : Opens(p)' <=> Opens(p)
  BY <1>2 DEF Opens
<1>4. \A p \in Request : Promised(p) => Promised(p)'
  BY <1>2, <1>3 DEF Promised
<1>5. \A p \in Request : Entitled(p)' => Entitled(p)
  BY <1>2, <1>3 DEF Entitled
<1>6. Routed'
  <2>1. form[q] \in Form
    BY DEF AuthInv, Routed
  <2> QED  BY <1>2, <1>3, <2>1 DEF AuthInv, Routed
<1>7. PasswordShown' /\ OneCreator'
  BY <1>2, <1>5 DEF AuthInv, PasswordShown, OneCreator
<1>8. TokensPromised'
  BY <1>2, <1>4 DEF AuthInv, TypeOK, TokensPromised
<1>9. SessionsTrue'
  <2>1. ASSUME NEW t \in Request, session[t] # NoSession
        PROVE  at'[t] \in {"answered", "done"}
    BY <1>2, <2>1 DEF AuthInv, SessionsTrue
  <2> QED  BY <1>2, <1>3, <2>1 DEF AuthInv, SessionsTrue
<1>10. RowsStand'
  BY <1>2 DEF AuthInv, RowsStand, Promised, Opens
<1> QED  BY <1>1, <1>6, <1>7, <1>8, <1>9, <1>10 DEF AuthInv

-----------------------------------------------------------------------------
\* Requests that leave the tables alone.

LEMMA ServeQuietly ==
    ASSUME AuthInv, NEW q \in Request,
           \/ RegisterRefused(q) \/ HashFails(q) \/ NameTaken(q) \/ LoginRefused(q) \/ Page(q)
    PROVE  AuthInv'
<1>1. /\ UNCHANGED <<tables, clock, jar, form, sent, user, past>>
      /\ at[q] \in {"register", "login", "page"}
      /\ Goes(q, "answered")
  BY DEF RegisterRefused, HashFails, NameTaken, Hashed, LoginRefused, Page, Answers
<1>2. answer[q] = "none" /\ form[q].kind = at[q]
  BY <1>1 DEF AuthInv, Routed, TypeOK
<1>3. PICK b \in {"ok", "taken", "invalid", "unauthorized", "error"} :
        /\ answer' = [answer EXCEPT ![q] = b]
        /\ b = "ok" => at[q] = "page"
  BY DEF RegisterRefused, HashFails, NameTaken, LoginRefused, Page, Answers
<1>4. b = "ok" => ~Opens(q)
  BY <1>2, <1>3 DEF Opens
<1>5. jar' \in [Browser -> Request \cup {NoOne}] /\ user' \in [Request -> Username \cup {NoOne}]
  BY <1>1 DEF AuthInv, TypeOK
<1> QED  BY <1>1, <1>2, <1>3, <1>4, <1>5, MovesOn

LEMMA AuthenticateInv ==
    ASSUME AuthInv, NEW q \in Request, Authenticate(q)
    PROVE  AuthInv'
<1>1. /\ UNCHANGED <<tables, clock, jar, form, sent, answer, past>>
      /\ at[q] = "sent" /\ Goes(q, form[q].kind)
  BY DEF Authenticate
<1>2. answer[q] = "none" /\ form[q].kind \in {"register", "login", "logout", "page"}
  BY <1>1, FormFields DEF AuthInv, TypeOK, Routed
<1>3. user' \in [Request -> Username \cup {NoOne}]
  <2>1. Live(sent[q]) => session[sent[q]].user \in Username
    <3>1. sent[q] \in Request \cup {NoOne}
      BY DEF AuthInv, TypeOK
    <3> QED  BY <3>1 DEF AuthInv, TypeOK, Live, Session
  <2> QED  BY <2>1 DEF Authenticate, AuthInv, TypeOK
<1>4. \A p \in Request : p # q => user'[p] = user[p]
  BY DEF Authenticate, AuthInv, TypeOK
<1>5. answer' = [answer EXCEPT ![q] = "none"]
  BY <1>1, <1>2 DEF AuthInv, TypeOK
<1>6. jar' \in [Browser -> Request \cup {NoOne}]
  BY <1>1 DEF AuthInv, TypeOK
<1> QED  BY <1>1, <1>2, <1>3, <1>4, <1>5, <1>6, MovesOn

LEMMA ReceiveInv ==
    ASSUME AuthInv, NEW q \in Request, Receive(q)
    PROVE  AuthInv'
<1>1. /\ UNCHANGED <<tables, clock, form, sent, user, answer, past>>
      /\ at[q] = "answered" /\ Goes(q, "done")
  BY DEF Receive
<1>2. /\ answer[q] \in {"none", "ok", "taken", "invalid", "unauthorized", "error"}
      /\ answer' = [answer EXCEPT ![q] = answer[q]]
      /\ user' \in [Request -> Username \cup {NoOne}]
      /\ form[q].browser \in Browser
  BY <1>1, FormFields DEF AuthInv, TypeOK, Routed
<1>3. \/ Promised(q)' /\ jar' = [jar EXCEPT ![form[q].browser] = q]
      \/ jar' = [jar EXCEPT ![form[q].browser] = NoOne]
      \/ UNCHANGED jar
  BY <1>1 DEF Receive, Promised, Opens
<1>4. /\ jar' \in [Browser -> Request \cup {NoOne}]
      /\ \A b \in Browser : jar'[b] \in {jar[b], NoOne} \/ (jar'[b] = q /\ Promised(q)')
  BY <1>2, <1>3 DEF AuthInv, TypeOK
<1> QED  BY <1>1, <1>2, <1>4, MovesOn

-----------------------------------------------------------------------------
\* A new request carries the cookie of its browser.
LEMMA SendInv ==
    ASSUME AuthInv, NEW q \in Request, Send(q)
    PROVE  AuthInv'
<1>1. PICK f \in Form :
        /\ form' = [form EXCEPT ![q] = f]
        /\ sent' = [sent EXCEPT ![q] = jar[f.browser]]
  BY DEF Send
<1>2. /\ at[q] = "new" /\ at' = [at EXCEPT ![q] = "sent"]
      /\ UNCHANGED <<account, session, clock, jar, user, answer, openedAt, revoked>>
  BY DEF Send, Goes, tables, past
<1>3. jar[f.browser] \in Request \cup {NoOne}
  BY FormFields DEF AuthInv, TypeOK
<1>4. TypeOK'
  BY <1>1, <1>2, <1>3 DEF AuthInv, TypeOK
\* Nobody has heard of q yet.
<1>5. answer[q] = "none" /\ ~Promised(q) /\ session[q] = NoSession /\ q \notin revoked
  BY <1>2 DEF AuthInv, TypeOK, Routed, Promised, TokensPromised, SessionsTrue
<1>6. /\ at'[q] = "sent" /\ form'[q] = f
      /\ \A p \in Request : p # q => at'[p] = at[p] /\ form'[p] = form[p] /\ sent'[p] = sent[p]
      /\ sent'[q] = jar[f.browser]
  BY <1>1, <1>2 DEF AuthInv, TypeOK
<1>7. \A p \in Request : p # q => (Opens(p)' <=> Opens(p)) /\ (Promised(p)' <=> Promised(p))
                                  /\ (Entitled(p)' <=> Entitled(p))
  BY <1>2, <1>6 DEF Opens, Promised, Entitled
<1>8. ~Entitled(q)'
  BY <1>2, <1>5, <1>6 DEF Entitled
<1>9. Routed'
  BY <1>2, <1>5, <1>6, <1>7 DEF AuthInv, Routed
<1>10. PasswordShown' /\ OneCreator'
  BY <1>2, <1>6, <1>7, <1>8 DEF AuthInv, PasswordShown, OneCreator
<1>11. TokensPromised'
  <2>1. f.browser \in Browser
    BY FormFields
  <2>2. \A t \in Request : Promised(t) => Promised(t)'
    BY <1>5, <1>7
  <2> QED  BY <1>2, <1>3, <1>6, <2>1, <2>2 DEF AuthInv, TypeOK, TokensPromised
<1>12. SessionsTrue'
  BY <1>2, <1>5, <1>6, <1>7 DEF AuthInv, SessionsTrue
<1>13. RowsStand'
  BY <1>2, <1>5, <1>6 DEF AuthInv, RowsStand, Promised, Opens
<1> QED  BY <1>4, <1>9, <1>10, <1>11, <1>12, <1>13 DEF AuthInv

\* The password was right, or made a new account: the request may open a session.
LEMMA OpensInv ==
    ASSUME AuthInv, NEW q \in Request, CreateUser(q) \/ LoginMatches(q)
    PROVE  AuthInv'
<1>1. /\ at[q] \in {"register", "login"} /\ at' = [at EXCEPT ![q] = "open"]
      /\ UNCHANGED <<session, clock, jar, form, sent, user, answer, openedAt, revoked>>
  BY DEF CreateUser, Hashed, LoginMatches, Goes, tables, past
<1>2. /\ form[q].kind = at[q] /\ answer[q] = "none" /\ Opens(q)
      /\ form[q].name \in Username /\ form[q].password \in Password
  BY <1>1, FormFields DEF AuthInv, TypeOK, Routed, Opens
<1>3. \/ /\ at[q] = "register" /\ account[form[q].name] = NoOne
         /\ account' = [account EXCEPT ![form[q].name] = form[q].password]
      \/ /\ at[q] = "login" /\ account[form[q].name] = form[q].password
         /\ UNCHANGED account
  BY DEF CreateUser, Hashed, Insert, LoginMatches, PasswordMatches, tables
<1>4. TypeOK'
  BY <1>1, <1>2, <1>3 DEF AuthInv, TypeOK
<1>5. /\ at'[q] = "open"
      /\ \A p \in Request : p # q => at'[p] = at[p]
      /\ account'[form[q].name] = form[q].password
      /\ \A n \in Username : account[n] # NoOne => account'[n] = account[n]
  BY <1>1, <1>2, <1>3 DEF AuthInv, TypeOK
<1>6. \A p \in Request : Opens(p)' = Opens(p) /\ Promised(p)' = Promised(p)
                         /\ (Entitled(p)' => p = q \/ Entitled(p))
  BY <1>1, <1>5 DEF Opens, Promised, Entitled
<1>7. Routed'
  BY <1>1, <1>2, <1>5, <1>6 DEF AuthInv, Routed
\* Whoever is entitled has an account already, and it stays as it is.
<1>8. ASSUME NEW p \in Request, Entitled(p) \/ session[p] # NoSession
      PROVE  /\ form[p].name \in Username /\ account[form[p].name] # NoOne
             /\ account'[form[p].name] = account[form[p].name]
  <2>1. at[p] # "new" /\ Opens(p) /\ account[form[p].name] = form[p].password
    BY <1>8 DEF AuthInv, Routed, PasswordShown, SessionsTrue, Entitled
  <2>2. form[p].name \in Username /\ form[p].password \in Password
    BY <2>1, FormFields DEF AuthInv, Routed, Opens
  <2> QED  BY <1>5, <2>1, <2>2, NoOneAssumption
<1>9. PasswordShown'
  BY <1>1, <1>5, <1>6, <1>8 DEF AuthInv, PasswordShown
<1>10. OneCreator'
  <2>1. ASSUME NEW p \in Request, p # q, Entitled(p)', form[p].kind = "register",
               form[p].name = form[q].name
        PROVE  form[q].kind # "register"
    BY <1>2, <1>3, <1>6, <1>8, <2>1
  <2> QED  BY <1>1, <1>6, <2>1 DEF AuthInv, OneCreator
<1>11. TokensPromised'
  BY <1>1, <1>6 DEF AuthInv, TypeOK, TokensPromised
<1>12. SessionsTrue'
  BY <1>1, <1>5, <1>6, <1>8 DEF AuthInv, SessionsTrue
<1>13. RowsStand'
  BY <1>1 DEF AuthInv, RowsStand, Promised, Opens
<1> QED  BY <1>4, <1>7, <1>9, <1>10, <1>11, <1>12, <1>13 DEF AuthInv

\* The insertion failed, after it took effect or before.
LEMMA CreateUserFailsInv ==
    ASSUME AuthInv, NEW q \in Request, CreateUserFails(q)
    PROVE  AuthInv'
<1>1. /\ at[q] = "register" /\ at' = [at EXCEPT ![q] = "answered"]
      /\ answer' = [answer EXCEPT ![q] = "error"]
      /\ UNCHANGED <<session, clock, jar, form, sent, user, openedAt, revoked>>
  BY DEF CreateUserFails, Hashed, Answers, Goes, past
<1>2. /\ form[q].kind = "register" /\ answer[q] = "none"
      /\ form[q].name \in Username /\ form[q].password \in Password
  BY <1>1, FormFields DEF AuthInv, TypeOK, Routed
<1>3. \/ UNCHANGED account
      \/ /\ account[form[q].name] = NoOne
         /\ account' = [account EXCEPT ![form[q].name] = form[q].password]
  BY DEF CreateUserFails, Fails, Insert
<1>4. TypeOK'
  BY <1>1, <1>2, <1>3 DEF AuthInv, TypeOK
<1>5. /\ at'[q] = "answered" /\ answer'[q] = "error"
      /\ \A p \in Request : p # q => at'[p] = at[p] /\ answer'[p] = answer[p]
      /\ \A n \in Username : account[n] # NoOne => account'[n] = account[n]
  BY <1>1, <1>2, <1>3 DEF AuthInv, TypeOK
<1>6. \A p \in Request : /\ Opens(p)' = Opens(p)
                         /\ Promised(p) => Promised(p)'
                         /\ Entitled(p)' => Entitled(p)
  BY <1>1, <1>2, <1>5 DEF Opens, Promised, Entitled
<1>7. Routed'
  BY <1>1, <1>2, <1>5, <1>6 DEF AuthInv, Routed
<1>8. ASSUME NEW p \in Request, Entitled(p) \/ session[p] # NoSession
      PROVE  account'[form[p].name] = account[form[p].name]
  <2>1. at[p] # "new" /\ Opens(p) /\ account[form[p].name] = form[p].password
    BY <1>8 DEF AuthInv, Routed, PasswordShown, SessionsTrue, Entitled
  <2>2. form[p].name \in Username /\ form[p].password \in Password
    BY <2>1, FormFields DEF AuthInv, Routed, Opens
  <2> QED  BY <1>5, <2>1, <2>2, NoOneAssumption
<1>9. PasswordShown' /\ OneCreator'
  BY <1>1, <1>6, <1>8 DEF AuthInv, PasswordShown, OneCreator
<1>10. TokensPromised'
  BY <1>1, <1>6 DEF AuthInv, TypeOK, TokensPromised
<1>11. SessionsTrue'
  BY <1>1, <1>5, <1>6, <1>8 DEF AuthInv, SessionsTrue
<1>12. RowsStand'
  BY <1>1, <1>2, <1>5 DEF AuthInv, RowsStand, Promised, Opens
<1> QED  BY <1>4, <1>7, <1>9, <1>10, <1>11, <1>12 DEF AuthInv

\* The session is stored, and promised only if the call succeeded.
LEMMA OpenInv ==
    ASSUME AuthInv, NEW q \in Request, OpenSession(q) \/ OpenSessionFails(q)
    PROVE  AuthInv'
<1>1. /\ at[q] = "open" /\ at' = [at EXCEPT ![q] = "answered"]
      /\ UNCHANGED <<account, clock, jar, form, sent, user, revoked>>
  BY DEF OpenSession, OpenSessionFails, Answers, Goes
<1>2. /\ Opens(q) /\ Entitled(q) /\ answer[q] = "none" /\ session[q] = NoSession /\ q \notin revoked
      /\ form[q].name \in Username
  <2>1. Opens(q) /\ form[q] \in Form /\ answer[q] = "none"
    BY <1>1 DEF AuthInv, TypeOK, Routed
  <2>2. session[q] = NoSession /\ q \notin revoked
    BY <1>1, <2>1 DEF AuthInv, TypeOK, SessionsTrue, TokensPromised, Promised
  <2> QED  BY <1>1, <2>1, <2>2, FormFields DEF Opens, Entitled
<1> DEFINE s == [user |-> form[q].name, expires |-> clock + TTL]
<1>3. s \in Session /\ s # NoSession
  BY <1>2, SomeSession, TimeAssumption DEF AuthInv, TypeOK, Session
<1>4. PICK a \in {"ok", "error"} :
        /\ answer' = [answer EXCEPT ![q] = a]
        /\ \/ /\ session' = [session EXCEPT ![q] = s]
              /\ openedAt' = [openedAt EXCEPT ![q] = clock]
           \/ a = "error" /\ UNCHANGED <<session, openedAt>>
  BY DEF OpenSession, OpenSessionFails, Answers, Fails, Store
<1>5. TypeOK'
  BY <1>1, <1>3, <1>4 DEF AuthInv, TypeOK
<1>6. /\ at'[q] = "answered" /\ answer'[q] = a
      /\ session'[q] # NoSession => session'[q] = s /\ openedAt'[q] = clock
      /\ a = "ok" => session'[q] # NoSession
      /\ \A p \in Request : p # q =>
           /\ at'[p] = at[p] /\ answer'[p] = answer[p]
           /\ session'[p] = session[p] /\ openedAt'[p] = openedAt[p]
  BY <1>1, <1>2, <1>3, <1>4 DEF AuthInv, TypeOK
<1>7. \A p \in Request : /\ Opens(p)' = Opens(p)
                         /\ Promised(p) => Promised(p)'
                         /\ Entitled(p)' => Entitled(p)
  BY <1>1, <1>2, <1>6 DEF Opens, Promised, Entitled
<1>8. Routed'
  BY <1>1, <1>2, <1>6, <1>7 DEF AuthInv, Routed
<1>9. PasswordShown' /\ OneCreator'
  BY <1>1, <1>7 DEF AuthInv, PasswordShown, OneCreator
<1>10. TokensPromised'
  BY <1>1, <1>7 DEF AuthInv, TypeOK, TokensPromised
<1>11. SessionsTrue'
  <2>1. account[form[q].name] = form[q].password
    BY <1>2 DEF AuthInv, PasswordShown
  <2> QED  BY <1>1, <1>2, <1>6, <1>7, <2>1 DEF AuthInv, SessionsTrue
<1>12. RowsStand'
  BY <1>1, <1>2, <1>6 DEF AuthInv, RowsStand, Promised, Opens
<1> QED  BY <1>5, <1>8, <1>9, <1>10, <1>11, <1>12 DEF AuthInv

\* Only the session of the cookie goes, and the logout answers "ok".
LEMMA LogoutInv ==
    ASSUME AuthInv, NEW q \in Request, Logout(q) \/ LogoutFails(q)
    PROVE  AuthInv'
<1>1. /\ at[q] = "logout" /\ at' = [at EXCEPT ![q] = "answered"]
      /\ answer' = [answer EXCEPT ![q] = "ok"]
      /\ UNCHANGED <<account, clock, jar, form, sent, user, openedAt>>
  BY DEF Logout, LogoutFails, Answers, Goes, past
<1>2. form[q].kind = "logout" /\ form[q] \in Form /\ answer[q] = "none" /\ ~Opens(q)
  BY <1>1 DEF AuthInv, TypeOK, Routed, Opens
<1>3. /\ session' \in [Request -> Session \cup {NoSession}]
      /\ \A t \in Request : session'[t] = session[t] \/ (t = sent[q] /\ session'[t] = NoSession)
      /\ \/ revoked' = revoked
         \/ /\ revoked' = revoked \cup ({sent[q]} \ {NoOne})
            /\ sent[q] \in Request => session'[sent[q]] = NoSession
  BY DEF Logout, LogoutFails, Fails, DeleteSession, AuthInv, TypeOK, past
<1>4. sent[q] # NoOne => sent[q] \in Request /\ Promised(sent[q])
  BY DEF AuthInv, TypeOK, TokensPromised
<1>5. TypeOK'
  BY <1>1, <1>3, <1>4 DEF AuthInv, TypeOK
<1>6. /\ at'[q] = "answered" /\ answer'[q] = "ok"
      /\ \A p \in Request : p # q => at'[p] = at[p] /\ answer'[p] = answer[p]
  BY <1>1 DEF AuthInv, TypeOK
<1>7. \A p \in Request : /\ Opens(p)' = Opens(p)
                         /\ Promised(p) => Promised(p)'
                         /\ Entitled(p)' => Entitled(p)
  BY <1>1, <1>2, <1>6 DEF Opens, Promised, Entitled
<1>8. Routed'
  BY <1>1, <1>2, <1>6, <1>7 DEF AuthInv, Routed
<1>9. PasswordShown' /\ OneCreator'
  BY <1>1, <1>7 DEF AuthInv, PasswordShown, OneCreator
<1>10. TokensPromised'
  BY <1>1, <1>3, <1>4, <1>7 DEF AuthInv, TypeOK, TokensPromised
<1>11. SessionsTrue'
  <2>1. ASSUME NEW t \in Request, session'[t] # NoSession
        PROVE  session[t] # NoSession /\ session'[t] = session[t] /\ t \notin revoked'
    BY <1>3, <2>1 DEF AuthInv, SessionsTrue
  <2> QED  BY <1>1, <1>6, <1>7, <2>1 DEF AuthInv, SessionsTrue
<1>12. RowsStand'
  BY <1>1, <1>2, <1>3, <1>6 DEF AuthInv, RowsStand, Promised, Opens
<1> QED  BY <1>5, <1>8, <1>9, <1>10, <1>11, <1>12 DEF AuthInv

\* Cookies that are forgotten, crashes, and time.
LEMMA EnvironmentInv ==
    ASSUME AuthInv,
           (\E b \in Browser : ForgetCookie(b)) \/ Crash \/ Tick \/ UNCHANGED vars
    PROVE  AuthInv'
<1>1. UNCHANGED <<account, session, form, sent, user, answer, openedAt, revoked>>
  BY DEF ForgetCookie, Crash, Tick, vars, tables, past
<1>2. /\ jar' \in [Browser -> Request \cup {NoOne}]
      /\ \A b \in Browser : jar'[b] \in {jar[b], NoOne}
  BY DEF ForgetCookie, Crash, Tick, vars, AuthInv, TypeOK
<1>3. clock' \in 0..MaxTime
  BY TimeAssumption DEF ForgetCookie, Crash, Tick, vars, AuthInv, TypeOK
<1>4. /\ at' \in [Request -> {"new", "sent", "register", "login", "logout", "page",
                             "open", "answered", "done"}]
      /\ \A q \in Request : at'[q] = at[q] \/ (at[q] # "new" /\ at'[q] = "done")
  BY DEF ForgetCookie, Crash, Tick, vars, AuthInv, TypeOK
<1>5. TypeOK'
  BY <1>1, <1>2, <1>3, <1>4 DEF AuthInv, TypeOK
<1>6. \A p \in Request : /\ Opens(p)' = Opens(p)
                         /\ Promised(p)' = Promised(p)
                         /\ Entitled(p)' => Entitled(p)
  BY <1>1, <1>4 DEF Opens, Promised, Entitled
<1>7. Routed'
  BY <1>1, <1>4, <1>6 DEF AuthInv, Routed
<1>8. PasswordShown' /\ OneCreator'
  BY <1>1, <1>6 DEF AuthInv, PasswordShown, OneCreator
<1>9. TokensPromised'
  BY <1>1, <1>2, <1>6 DEF AuthInv, TypeOK, TokensPromised
<1>10. SessionsTrue'
  BY <1>1, <1>4, <1>6 DEF AuthInv, SessionsTrue
<1>11. RowsStand'
  BY <1>1 DEF AuthInv, RowsStand, Promised, Opens
<1> QED  BY <1>5, <1>7, <1>8, <1>9, <1>10, <1>11 DEF AuthInv

-----------------------------------------------------------------------------
LEMMA AuthNext == AuthInv /\ [Next]_vars => AuthInv'
<1> SUFFICES ASSUME AuthInv, [Next]_vars PROVE AuthInv'
  OBVIOUS
<1>1. ASSUME NEW q \in Request, Serve(q) PROVE AuthInv'
  BY <1>1, AuthenticateInv, ServeQuietly, OpensInv, CreateUserFailsInv, OpenInv, LogoutInv
     DEF Serve, Register, Login, Open
<1>2. ASSUME NEW q \in Request, Send(q) \/ Receive(q) PROVE AuthInv'
  BY <1>2, SendInv, ReceiveInv
<1>3. CASE (\E b \in Browser : ForgetCookie(b)) \/ Crash \/ Tick \/ UNCHANGED vars
  BY <1>3, EnvironmentInv
<1> QED  BY <1>1, <1>2, <1>3 DEF Next, Terminated

LEMMA AuthCorrect == Spec => []AuthInv
<1> QED  BY AuthInit, AuthNext, PTL DEF Spec

\* Tables, cookies and requests are well typed.
THEOREM TypeCorrect == Spec => []TypeOK
<1>1. AuthInv => TypeOK
  BY DEF AuthInv
<1> QED  BY <1>1, AuthCorrect, PTL

\* A name has one owner, however many registrations of it race or fail halfway.
THEOREM NamesHaveOneOwner == Spec => []OneOwner
<1>1. AuthInv => OneOwner
  BY DEF AuthInv, OneOwner, PasswordShown, OneCreator, Entitled, Opens
<1> QED  BY <1>1, AuthCorrect, PTL

\* Nothing but its own logout and its expiry ends a session that was promised:
\* until then the middleware finds its user by the token.
THEOREM PromisedSessionsStand == Spec => []SessionsStand
<1>1. ASSUME AuthInv PROVE SessionsStand
  <2> SUFFICES ASSUME NEW t \in Request, Promised(t), clock < openedAt[t] + TTL,
                      ~\E q \in Request : /\ form[q].kind = "logout" /\ sent[q] = t
                                         /\ answer[q] = "ok"
               PROVE  Live(t) /\ session[t].user = form[t].name
    BY DEF SessionsStand, Promised, Opens
  <2>1. session[t] # NoSession
    BY <1>1 DEF AuthInv, RowsStand, Promised, Opens
  <2>2. session[t].user = form[t].name /\ session[t].expires = openedAt[t] + TTL
    BY <1>1, <2>1 DEF AuthInv, SessionsTrue
  <2>3. t # NoOne
    BY NoOneAssumption
  <2>4. clock \in Nat /\ openedAt[t] \in Nat /\ TTL \in Nat
    BY <1>1, TimeAssumption DEF AuthInv, TypeOK
  <2> QED  BY <2>1, <2>2, <2>3, <2>4 DEF Live
<1> QED  BY <1>1, AuthCorrect, PTL

\* The middleware lets in the holders of live sessions of their own only.
THEOREM OnlyHoldersAdmitted == Spec => AdmittedRightly
<1>1. ASSUME AuthInv, Next
      PROVE  \A q \in Request : user'[q] # user[q] =>
               LET t == sent[q] IN
                 /\ form[t].kind \in {"register", "login"}
                 /\ user'[q] = form[t].name
                 /\ account[form[t].name] = form[t].password
                 /\ clock < openedAt[t] + TTL
                 /\ t \notin revoked
  <2> SUFFICES ASSUME NEW q \in Request, user'[q] # user[q]
               PROVE  LET t == sent[q] IN
                        /\ form[t].kind \in {"register", "login"}
                        /\ user'[q] = form[t].name
                        /\ account[form[t].name] = form[t].password
                        /\ clock < openedAt[t] + TTL
                        /\ t \notin revoked
    OBVIOUS
  <2>1. PICK p \in Request : Authenticate(p)
    BY <1>1 DEF Next, Send, Serve, Authenticate, Register, RegisterRefused, HashFails, CreateUser,
                NameTaken, CreateUserFails, Login, LoginMatches, LoginRefused, Open, OpenSession,
                OpenSessionFails, Logout, LogoutFails, Page, Receive, ForgetCookie, Crash, Tick,
                Terminated, vars
  <2>2. user' = [user EXCEPT ![p] = IF Live(sent[p]) THEN session[sent[p]].user ELSE NoOne]
    BY <2>1, <1>1 DEF Authenticate
  <2>3. user[p] = NoOne
    BY <2>1, <1>1 DEF Authenticate, AuthInv, Routed
  <2>4. p = q /\ Live(sent[q]) /\ user'[q] = session[sent[q]].user
    BY <2>2, <2>3, <1>1 DEF AuthInv, TypeOK
  <2>5. sent[q] \in Request /\ session[sent[q]] # NoSession /\ session[sent[q]].expires > clock
    BY <2>4, <1>1 DEF Live, AuthInv, TypeOK
  <2> QED  BY <2>4, <2>5, <1>1 DEF AuthInv, SessionsTrue, Opens
<1> QED  BY <1>1, AuthCorrect, PTL DEF Spec, AdmittedRightly
=============================================================================
