------------------------------ MODULE Session ------------------------------
(***************************************************************************)
(* The session of one browser (frontend/src/lib/api.ts) on top of Accounts *)
(* and Mails.  Its tabs share localStorage, where both tokens of the       *)
(* session are written and removed together, and navigator.locks, under    *)
(* which a tab exchanges the refresh token.  Between two awaits a tab runs *)
(* alone in its own process but not alone in the store.  A tab has at most *)
(* one request here, with the refresh that it waits for; its handler on    *)
(* the server is one step (Accounts takes it apart).                       *)
(*                                                                         *)
(* A pair of tokens is known by its refresh token.  "stale" stands for an  *)
(* epoch that has moved on since the request began.  A tab whose token is  *)
(* gone ends its session without the server; it begins nothing here.       *)
(***************************************************************************)
EXTENDS Mails

CONSTANT
    Tabs            \* tabs of the browser

VARIABLES
    store,          \* localStorage: the token of the session, or 0
    seen,           \* observedIdentity of each tab
    req,            \* api() and refreshAccess() of each tab
    uses,           \* bound: the kinds of requests each tab ever makes
    elsewhere,      \* bound: whether anything happens outside the browser
    expired,        \* tokens whose access token has expired
    lost            \* tokens sent to be rotated, and the answer given up

browserVars == <<store, seen, req, uses, elsewhere, expired, lost>>
sessionVars == <<vars, browserVars>>

NoReq == [at |-> "idle", kind |-> "plain", user |-> None, stale |-> FALSE,
          again |-> FALSE, token |-> 0, ok |-> FALSE, answer |-> 0]
Requests == {"plain", "password", "logout", "login"}
Open(b) == uses[b] # {}

\* The browser is signed in, and has open tabs or none.
SessionInit ==
    /\ MailsInit
    /\ \E t \in {t \in Tokens : Live(t)} :
        /\ store = t
        /\ seen = [b \in Tabs |-> token[t].user]
    /\ req = [b \in Tabs |-> NoReq]
    /\ uses \in [Tabs -> SUBSET Requests]
    /\ elsewhere \in BOOLEAN
    /\ elsewhere \/ \A l \in Links : ~Scheduled(l)
    /\ expired = {}
    /\ lost = {}

-----------------------------------------------------------------------------
(* What the functions of api.ts share. *)

Identity(t) == IF t = 0 THEN None ELSE token[t].user

\* syncSessionIdentity, at the start of every step of a tab: an identity that
\* is not the one observed moves the epoch.
Synced(b) == [seen EXCEPT ![b] = Identity(store)]
Stale(b) == req[b].stale \/ seen[b] # Identity(store)

Becomes(b, r) == req' = [req EXCEPT ![b] = r]
Ends(b) == Becomes(b, NoReq)

\* A failure is thrown to the view.
Throw(b) == Ends(b) /\ seen' = Synced(b) /\ UNCHANGED store

\* endSession.
EndSession(b) == Ends(b) /\ store' = 0 /\ seen' = [seen EXCEPT ![b] = None]

SaveTokens(b, t) == store' = t /\ seen' = Synced(b)

\* fetch of the request, with the access token of the store.
Sent(b, r) == Becomes(b, [r EXCEPT !.at = "sent", !.token = store])

Access(t) == t \notin expired /\ token[t].version = account[token[t].user].version

-----------------------------------------------------------------------------
(* Requests. *)

\* api() from a view of the session: to read or change something, to change
\* the password, or to log out.
Begin(b, kind) ==
    /\ req[b].at = "idle"
    /\ kind \in uses[b]
    /\ store # 0
    /\ seen' = Synced(b)
    /\ Sent(b, [NoReq EXCEPT !.kind = kind, !.user = Identity(store)])
    /\ UNCHANGED <<vars, store, uses, elsewhere, expired, lost>>

\* POST /login.
BeginLogin(b, u) ==
    /\ req[b].at = "idle"
    /\ "login" \in uses[b]
    /\ Registered(u)
    /\ seen' = Synced(b)
    /\ Becomes(b, [NoReq EXCEPT !.at = "sent", !.kind = "login", !.user = u])
    /\ UNCHANGED <<vars, store, uses, elsewhere, expired, lost>>

Answered(b, ok, answer) ==
    Becomes(b, [req[b] EXCEPT !.at = "answered", !.ok = ok, !.answer = answer])

\* The server answers a request: 401 for an access token that does not count,
\* a session for a login and a change of the password.
Serve(b) ==
    LET r == req[b]
        u == r.user
    IN  /\ r.at = "sent"
        /\ \/ /\ r.kind = "login" /\ FreshTokens # {}
              /\ token' = [token EXCEPT ![FreshToken] = NewSession(u, account[u].version, 0)]
              /\ Answered(b, TRUE, FreshToken)
              /\ UNCHANGED <<account, mailVars>>
           \/ /\ r.kind # "login" /\ ~Access(r.token)
              /\ Answered(b, FALSE, 0)
              /\ UNCHANGED <<account, token, mailVars>>
           \/ /\ r.kind = "plain" /\ Access(r.token)
              /\ Answered(b, TRUE, 0)
              /\ UNCHANGED <<account, token, mailVars>>
           \/ /\ r.kind = "logout" /\ Access(r.token)
              /\ token' = IF Live(r.token) THEN [token EXCEPT ![r.token].state = "dead"] ELSE token
              /\ Answered(b, TRUE, 0)
              /\ UNCHANGED <<account, mailVars>>
           \/ /\ r.kind = "password" /\ Access(r.token) /\ FreshTokens # {}
              /\ account' = [account EXCEPT ![u].version = @ + 1]
              /\ token' = ChangedSessions(u)
              /\ RetireReset(u)
              /\ Answered(b, TRUE, FreshToken)
        /\ UNCHANGED <<call, used, worker, store, seen, uses, elsewhere, expired, lost>>

\* Mutant: a final 401 ends the session whatever is stored by then.
RefusedAny(b) == TRUE

\* A second 401 is about the token that is stored.
Refused(b) == req[b].token = store

\* api() goes on with the answer.  A login saves its tokens over anything; a
\* first 401 leads to a refresh, or to another attempt if one has happened.
Receive(b) ==
    LET r == req[b] IN
    /\ r.at = "answered"
    /\ \/ /\ r.kind = "login"
          /\ SaveTokens(b, r.answer)
          /\ Ends(b)
       \/ /\ r.kind # "login" /\ Stale(b)
          /\ Throw(b)
       \/ /\ r.kind # "login" /\ ~Stale(b) /\ ~r.ok /\ ~r.again
          /\ IF r.token = store THEN Becomes(b, [r EXCEPT !.at = "queued"])
             ELSE Sent(b, [r EXCEPT !.again = TRUE])
          /\ UNCHANGED <<store, seen>>
       \/ /\ r.kind # "login" /\ ~Stale(b) /\ ~r.ok /\ r.again
          /\ IF Refused(b) THEN EndSession(b) ELSE Throw(b)
       \/ /\ r.kind = "plain" /\ ~Stale(b) /\ r.ok
          /\ Throw(b)
       \/ /\ r.kind = "logout" /\ ~Stale(b) /\ r.ok
          /\ EndSession(b)
       \/ /\ r.kind = "password" /\ ~Stale(b) /\ r.ok
          /\ SaveTokens(b, r.answer)
          /\ Ends(b)
    /\ UNCHANGED <<vars, uses, elsewhere, expired, lost>>

\* The network fails before or after the server has answered.
Fail(b) ==
    /\ req[b].at \in {"sent", "answered"}
    /\ Ends(b)
    /\ UNCHANGED <<vars, store, seen, uses, elsewhere, expired, lost>>

-----------------------------------------------------------------------------
(* refreshAccess, for the request that got a 401. *)

Holds(b) == req[b].at \in {"fetching", "rotated"}

\* Mutant: no lock between the tabs.
NoLock == TRUE

LockFree == \A b \in Tabs : ~Holds(b)

\* The lock is granted.  Credentials that another tab has rotated meanwhile
\* are taken over, and only of the same account.
Acquire(b) ==
    LET r == req[b] IN
    /\ r.at = "queued"
    /\ LockFree
    /\ \/ Stale(b) /\ Throw(b)
       \/ /\ ~Stale(b) /\ store # r.token
          /\ Becomes(b, [r EXCEPT !.at = "resume"])
          /\ UNCHANGED <<store, seen>>
       \/ /\ ~Stale(b) /\ store = r.token
          /\ Becomes(b, [r EXCEPT !.at = "fetching"])
          /\ UNCHANGED <<store, seen>>
    /\ UNCHANGED <<vars, uses, elsewhere, expired, lost>>

\* POST /refresh on the server: a new token, or 401.
Refresh(b) ==
    LET r == req[b] IN
    /\ r.at = "fetching"
    /\ \/ /\ Live(r.token) /\ FreshTokens # {}
          /\ token' = Rotated(r.token)
          /\ Becomes(b, [r EXCEPT !.at = "rotated", !.ok = TRUE, !.answer = FreshToken])
       \/ /\ ~Live(r.token)
          /\ Becomes(b, [r EXCEPT !.at = "rotated", !.ok = FALSE])
          /\ UNCHANGED token
    /\ UNCHANGED <<account, call, used, mailVars, worker, store, seen, uses, elsewhere, expired, lost>>

\* Mutant: an answer is saved whatever has happened to the store.
CurrentAny(b) == TRUE

\* The answer still concerns the session it was asked for.
IsCurrent(b) == ~Stale(b) /\ store = req[b].token

\* The answer to the refresh: it is saved, or ends the session.
Adopt(b) ==
    LET r == req[b] IN
    /\ r.at = "rotated"
    /\ \/ ~IsCurrent(b) /\ Throw(b)
       \/ IsCurrent(b) /\ ~r.ok /\ EndSession(b)
       \/ IsCurrent(b) /\ r.ok /\ SaveTokens(b, r.answer)
          /\ Becomes(b, [r EXCEPT !.at = "resume", !.answer = 0, !.ok = FALSE])
    /\ UNCHANGED <<vars, uses, elsewhere, expired, lost>>

\* The request is sent once more, with the token that is stored now.
Retry(b) ==
    LET r == req[b] IN
    /\ r.at = "resume"
    /\ \/ Stale(b) /\ Throw(b)
       \/ ~Stale(b) /\ Sent(b, [r EXCEPT !.again = TRUE]) /\ UNCHANGED <<store, seen>>
    /\ UNCHANGED <<vars, uses, elsewhere, expired, lost>>

\* The wait or the fetch is aborted after 15 s or fails, or the tab is left:
\* the lock is free again, and the server may have rotated or may still do so.
Abort(b) ==
    /\ req[b].at = "queued" \/ Holds(b)
    /\ lost' = IF Holds(b) THEN lost \union {req[b].token} ELSE lost
    /\ Ends(b)
    /\ UNCHANGED <<vars, store, seen, uses, elsewhere, expired>>

RefreshLate(t) ==
    /\ Live(t)
    /\ FreshTokens # {}
    /\ token' = Rotated(t)
    /\ UNCHANGED <<account, call, used, mailVars, worker, browserVars>>

\* A storage event reaches the tab.
Notice(b) ==
    /\ Open(b)
    /\ seen[b] # Identity(store)
    /\ seen' = Synced(b)
    /\ req' = [req EXCEPT ![b].stale = req[b].at # "idle"]
    /\ UNCHANGED <<vars, store, uses, elsewhere, expired, lost>>

\* The lifetime of the access token of t ends; tokens end in their order.
Expire(t) ==
    /\ \E b \in Tabs : Open(b)
    /\ token[t].state \in {"live", "dead"}
    /\ \A s \in Tokens : s < t <=> s \in expired
    /\ expired' = expired \union {t}
    /\ UNCHANGED <<vars, store, seen, req, uses, elsewhere, lost>>

-----------------------------------------------------------------------------
SessionStep(b) ==
    \/ \E kind \in {"plain", "logout", "password"} : Begin(b, kind)
    \/ \E u \in Users : BeginLogin(b, u)
    \/ Serve(b) \/ Receive(b) \/ Fail(b)
    \/ Acquire(b) \/ Refresh(b) \/ Adopt(b) \/ Retry(b) \/ Abort(b)
    \/ Notice(b)

SessionNext ==
    \/ elsewhere /\ MailsNext /\ UNCHANGED browserVars
    \/ \E b \in Tabs : SessionStep(b)
    \/ \E t \in lost : RefreshLate(t)
    \/ \E t \in Tokens : Expire(t)

SessionSpec == SessionInit /\ [][SessionNext]_sessionVars /\ MailsFairness

-----------------------------------------------------------------------------
(* Properties. *)

\* Nothing crosses from one account or session into another: a token that came
\* from a rotation only takes the place of the very token that was rotated,
\* and a request is only sent, again too, as the user it began with (api.ts:
\* "Never adopt credentials belonging to a different/unknown account").
KeepsAccount ==
    [][/\ store' \notin {0, store} /\ token'[store'].from # 0 => token'[store'].from = store
       /\ \A b \in Tabs : req'[b].at = "sent" /\ req'[b].kind # "login" =>
            Identity(req'[b].token) = req'[b].user]_sessionVars

LoggedOut(b) == req[b].at = "answered" /\ req[b].kind = "logout" /\ req[b].ok

\* Unless its user logs out, the browser loses its session only when the server
\* does not accept what is stored: a late refusal of older tokens, which another
\* tab has replaced, ends nothing (FRONTEND.md: between tabs the rotation is
\* serialised, and a network error does not remove the tokens).
EndsOnlyRefused ==
    [][store # 0 /\ store' = 0 =>
         \/ ~Live(store) \/ ~Access(store)
         \/ \E b \in Tabs : LoggedOut(b) /\ req'[b] = NoReq]_sessionVars

\* The tabs never rotate one token twice: a refresh that is refused because its
\* token was rotated follows an answer that was given up (api.ts: "An
\* uncoordinated refresh can revoke a valid session in another tab").
OneRotation ==
    \A b \in Tabs :
        /\ req[b].at = "rotated" /\ ~req[b].ok
        /\ \E t \in Tokens : token[t].from = req[b].token
        => req[b].token \in lost

=============================================================================
