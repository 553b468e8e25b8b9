------------------------------ MODULE Accounts ------------------------------
(***************************************************************************)
(* Accounts on the server: their credentials, the refresh tokens of their  *)
(* sessions, and the links that are mailed to confirm an address or reset  *)
(* a password.  Every transaction on credentials locks the users row first *)
(* and holds it to its end, so that what it does under the lock is one     *)
(* step here; what a handler reads before it has the lock (the user of a   *)
(* login, the owner of a token or a link, the version of an access token)  *)
(* is a step of its own, and may be old by then.                           *)
(*                                                                         *)
(* A password is known by the auth_version it was set under: whoever gives *)
(* the right one gives the one of the version that was read.               *)
(***************************************************************************)
EXTENDS Naturals

CONSTANTS
    Users,          \* people, who have an account or may register
    Emails,         \* addresses
    Address,        \* the address each user registered with
    MaxTokens,      \* bound: refresh tokens ever made
    MaxLinks,       \* bound: links ever made
    Calls,          \* request goroutines
    None            \* nothing

ASSUME AddressesDiffer ==
    /\ Address \in [Users -> Emails]
    /\ \A u, v \in Users : Address[u] = Address[v] => u = v
ASSUME NoneIsNobody == None \notin Users \cup Emails
ASSUME BoundsAreNumbers == MaxTokens \in Nat /\ MaxLinks \in Nat

Tokens == 1 .. MaxTokens
Links == 1 .. MaxLinks
Kinds == {"verification", "reset"}

VARIABLES
    account,        \* users: email, is_verified, auth_version
    token,          \* refresh_tokens, and those that are gone
    link,           \* email_verification_tokens and password_reset_tokens
    outbox,         \* the row of each link in its outbox table
    call,           \* what each request has read
    used            \* history: how often each link took effect

serverVars == <<account, token, call, used>>
mailVars == <<link, outbox>>

NoToken == [user |-> None, version |-> 0, state |-> "unused", from |-> 0]
NoLink == [kind |-> "reset", user |-> None, email |-> None, state |-> "unused", expired |-> FALSE]
NoRow == [status |-> "none", attempts |-> 0, lease |-> "none", due |-> FALSE]
NoCall == [at |-> "idle", user |-> None, version |-> 0, arg |-> 0, late |-> FALSE]
Absent == [NoCall EXCEPT !.at = "absent"]

Queued == [status |-> "scheduled", attempts |-> 0, lease |-> "none", due |-> TRUE]
Mailed == [status |-> "sent", attempts |-> 1, lease |-> "none", due |-> FALSE]
NewLink(kind, u, email) ==
    [kind |-> kind, user |-> u, email |-> email, state |-> "current", expired |-> FALSE]

\* A token and a link of the past, which bound how many more are made.
SpentToken == [NoToken EXCEPT !.state = "spent"]
SpentLink == [NoLink EXCEPT !.state = "spent"]

NewSession(u, version, from) ==
    [user |-> u, version |-> version, state |-> "live", from |-> from]

NoAccount == [email |-> None, verified |-> FALSE, version |-> 0]
NewAccount(u) == [NoAccount EXCEPT !.email = Address[u]]

\* How far the confirmation of the first address has come at the start.
Pasts == {"queued", "mailed", "confirmed"}

\* Some users are registered: each has an account, a link that confirms its
\* address or has confirmed it, and a session.
Beginning(past, n, First) ==
    /\ n <= MaxTokens
    /\ \A i, j \in 1 .. n : First[i] = First[j] => i = j
    /\ account = [u \in Users |->
                    IF \E i \in 1 .. n : First[i] = u
                    THEN [NewAccount(u) EXCEPT !.verified = past = "confirmed"]
                    ELSE NoAccount]
    /\ \E Spent \in SUBSET (Tokens \ 1 .. n) :
         token = [t \in Tokens |-> IF t \in 1 .. n THEN NewSession(First[t], 0, 0)
                                   ELSE IF t \in Spent THEN SpentToken ELSE NoToken]
    /\ \E Spent \in SUBSET (Links \ 1 .. n) :
         link = [l \in Links |->
                    IF l \in 1 .. n
                    THEN [NewLink("verification", First[l], Address[First[l]]) EXCEPT
                            !.state = IF past = "confirmed" THEN "gone" ELSE @]
                    ELSE IF l \in Spent THEN SpentLink ELSE NoLink]
    /\ outbox = [l \in Links |-> IF l \notin 1 .. n THEN NoRow
                                 ELSE IF past = "queued" THEN Queued ELSE Mailed]
    /\ call \in [Calls -> {NoCall, Absent}]
    /\ used = [l \in Links |-> IF l \in 1 .. n /\ past = "confirmed" THEN 1 ELSE 0]

AccountsInit ==
    \E past \in Pasts, n \in 0 .. MaxLinks :
        \E First \in [1 .. n -> Users] : Beginning(past, n, First)

-----------------------------------------------------------------------------
(* What the transactions do to the tables. *)

Registered(u) == account[u].email # None
Live(t) == token[t].state = "live"

FreshTokens == {t \in Tokens : token[t].state = "unused"}
FreshToken == CHOOSE t \in FreshTokens : \A s \in FreshTokens : t <= s
FreshLinks == {l \in Links : link[l].state = "unused"}
FreshLink == CHOOSE l \in FreshLinks : \A k \in FreshLinks : l <= k

\* The refresh tokens of u are deleted; f is what happens to the others.
Revoked(u) ==
    [t \in Tokens |-> IF Live(t) /\ token[t].user = u
                      THEN [token[t] EXCEPT !.state = "dead"] ELSE token[t]]

\* The current links of u of some kinds are deleted.
Unlinked(u, kinds) ==
    [l \in Links |-> IF link[l].user = u /\ link[l].kind \in kinds /\ link[l].state = "current"
                     THEN [link[l] EXCEPT !.state = "gone"] ELSE link[l]]

\* The scheduled mails of u of some kinds are closed with a status.
Closed(u, kinds, status) ==
    [l \in Links |-> IF /\ link[l].user = u /\ link[l].kind \in kinds
                        /\ outbox[l].status = "scheduled"
                     THEN [outbox[l] EXCEPT !.status = status, !.lease = "none"]
                     ELSE outbox[l]]

\* retireReset.
RetireReset(u) ==
    /\ link' = Unlinked(u, {"reset"})
    /\ outbox' = Closed(u, {"reset"}, "cancelled")

\* The links of some kinds go, their mails are closed, and a new link is queued.
Requeue(u, kinds, status, kind, email) ==
    /\ FreshLinks # {}
    /\ link' = [Unlinked(u, kinds) EXCEPT ![FreshLink] = NewLink(kind, u, email)]
    /\ outbox' = [Closed(u, kinds, status) EXCEPT ![FreshLink] = Queued]

Return(c) == call' = [call EXCEPT ![c] = NoCall]

Reads(c, at, u, arg, late) ==
    /\ call[c] = NoCall
    /\ call' = [call EXCEPT ![c] =
                  [at |-> at, user |-> u, version |-> account[u].version,
                   arg |-> arg, late |-> late]]
    /\ UNCHANGED <<account, token, link, outbox, used>>

-----------------------------------------------------------------------------
(* Sessions. *)

Taken(u, email) == \E v \in Users \ {u} : account[v].email = email

\* POST /register, RegisterAccount.
Register(u) ==
    /\ ~Registered(u)
    /\ ~Taken(u, Address[u])
    /\ FreshTokens # {}
    /\ account' = [account EXCEPT ![u] = NewAccount(u)]
    /\ token' = [token EXCEPT ![FreshToken] = NewSession(u, 0, 0)]
    /\ Requeue(u, {"verification"}, "cancelled", "verification", Address[u])
    /\ UNCHANGED <<call, used>>

\* POST /login: the user is read and the password compared.
LoginRead(c, u) == Registered(u) /\ Reads(c, "login", u, 0, FALSE)

\* Mutant: SaveRefreshToken, which does not compare the version.
LoginSaveAny(c) ==
    LET u == call[c].user IN
    /\ call[c].at = "login"
    /\ FreshTokens # {}
    /\ token' = [token EXCEPT ![FreshToken] = NewSession(u, call[c].version, 0)]
    /\ Return(c)
    /\ UNCHANGED <<account, link, outbox, used>>

\* SaveRefreshTokenVersion: the session is made if the credentials that were
\* compared are still those of the account.
LoginSave(c) ==
    LET u == call[c].user IN
    /\ call[c].at = "login"
    /\ FreshTokens # {}
    /\ token' = IF account[u].version = call[c].version
                THEN [token EXCEPT ![FreshToken] = NewSession(u, call[c].version, 0)]
                ELSE token
    /\ Return(c)
    /\ UNCHANGED <<account, link, outbox, used>>

\* What becomes of the tokens when t is exchanged for a fresh one.
Rotated(t) ==
    [token EXCEPT ![t].state = "dead",
                  ![FreshToken] = NewSession(token[t].user, token[t].version, t)]

\* POST /refresh: the owner of the token is found.
RotateFind(c, t) == Live(t) /\ Reads(c, "rotate", token[t].user, t, FALSE)

\* RotateRefreshToken, under the lock: the row is updated if it is still there.
Rotate(c) ==
    /\ call[c].at = "rotate"
    /\ FreshTokens # {}
    /\ token' = IF Live(call[c].arg) THEN Rotated(call[c].arg) ELSE token
    /\ Return(c)
    /\ UNCHANGED <<account, link, outbox, used>>

\* POST /logout of one session or of all, and the cleanup of expired tokens.
Logout(t) ==
    /\ Live(t)
    /\ token' = [token EXCEPT ![t].state = "dead"]
    /\ UNCHANGED <<account, link, outbox, call, used>>

LogoutAll(u) ==
    /\ token' = Revoked(u)
    /\ UNCHANGED <<account, link, outbox, call, used>>

-----------------------------------------------------------------------------
(* Credentials. *)

\* POST /me/email and /me/password: the middleware accepts an access token of
\* the present version.
ChangeRead(c, t) ==
    /\ token[t].state \in {"live", "dead"}
    /\ token[t].version = account[token[t].user].version
    /\ Reads(c, "change", token[t].user, 0, FALSE)

\* The new session of a change replaces all the others.
ChangedSessions(u) ==
    [Revoked(u) EXCEPT ![FreshToken] = NewSession(u, account[u].version + 1, 0)]

\* ChangeCredentials to a new address.
ChangeEmail(c, email) ==
    LET u == call[c].user IN
    /\ call[c].at = "change"
    /\ call[c].version = account[u].version
    /\ email # account[u].email
    /\ ~Taken(u, email)
    /\ FreshTokens # {}
    /\ account' = [account EXCEPT ![u] =
                     [email |-> email, verified |-> FALSE, version |-> @.version + 1]]
    /\ token' = ChangedSessions(u)
    /\ FreshLinks # {}
    /\ link' = [Unlinked(u, Kinds) EXCEPT ![FreshLink] = NewLink("verification", u, email)]
    /\ outbox' = [Closed(u, Kinds, "cancelled") EXCEPT ![FreshLink] = Queued]
    /\ Return(c)
    /\ UNCHANGED used

\* ChangeCredentials to a new password.
ChangePassword(c) ==
    LET u == call[c].user IN
    /\ call[c].at = "change"
    /\ call[c].version = account[u].version
    /\ FreshTokens # {}
    /\ account' = [account EXCEPT ![u].version = @ + 1]
    /\ token' = ChangedSessions(u)
    /\ RetireReset(u)
    /\ Return(c)
    /\ UNCHANGED used

\* A request ends without writing anything: the version, password or address
\* is refused, a query fails, or the client leaves.
GiveUp(c) ==
    /\ call[c].at \notin {"idle", "absent"}
    /\ Return(c)
    /\ UNCHANGED <<account, token, link, outbox, used>>

-----------------------------------------------------------------------------
(* Links. *)

\* POST /password/forgot, when the limit of mails to the address allows it.
RequestPasswordReset(u) ==
    /\ Registered(u)
    /\ Requeue(u, {"reset"}, "cancelled", "reset", account[u].email)
    /\ UNCHANGED <<account, token, call, used>>

Current(l, kind) == link[l].kind = kind /\ link[l].state = "current"

\* The owner of the link of a request is found.  Its expires_at will be compared
\* with CURRENT_TIMESTAMP, the time of BEGIN: a link that has expired by now may
\* have been in time then.
Finds(c, at, l, kind) ==
    /\ Current(l, kind)
    /\ \E late \in {FALSE, link[l].expired} : Reads(c, at, link[l].user, l, late)

\* Mutant: what was found before the lock is trusted.
FoundBefore(c, kind) == link[call[c].arg].kind = kind

\* Under the lock, the link of the request is looked at again.
Valid(c, kind) ==
    LET l == call[c].arg IN
    /\ Current(l, kind)
    /\ link[l].email = account[call[c].user].email
    /\ ~call[c].late

Take(c) == used' = [used EXCEPT ![call[c].arg] = @ + 1]

\* POST /password/reset.
ResetFind(c, l) == Finds(c, "reset", l, "reset")

ResetPassword(c) ==
    LET u == call[c].user IN
    /\ call[c].at = "reset"
    /\ Valid(c, "reset")
    /\ account' = [account EXCEPT ![u].version = @ + 1]
    /\ token' = Revoked(u)
    /\ RetireReset(u)
    /\ Take(c)
    /\ Return(c)

\* GET /verify.
ConfirmFind(c, l) == Finds(c, "confirm", l, "verification")

\* Mutant: the mail of the link is left in its outbox.
ConfirmLeavingMail(c) ==
    LET u == call[c].user IN
    /\ call[c].at = "confirm"
    /\ Valid(c, "verification")
    /\ account' = [account EXCEPT ![u].verified = TRUE]
    /\ link' = Unlinked(u, {"verification"})
    /\ Take(c)
    /\ Return(c)
    /\ UNCHANGED <<token, outbox>>

ConfirmEmail(c) ==
    LET u == call[c].user IN
    /\ call[c].at = "confirm"
    /\ Valid(c, "verification")
    /\ account' = [account EXCEPT ![u].verified = TRUE]
    /\ link' = Unlinked(u, {"verification"})
    /\ outbox' = Closed(u, {"verification"}, "cancelled")
    /\ Take(c)
    /\ Return(c)
    /\ UNCHANGED token

\* POST /verify/resend: the user is read, and SaveEmailVerificationToken does
\* not look again whether the address is confirmed.
ResendRead(c, u) == Registered(u) /\ ~account[u].verified /\ Reads(c, "resend", u, 0, FALSE)

Resend(c) ==
    LET u == call[c].user IN
    /\ call[c].at = "resend"
    /\ Requeue(u, {"verification"}, "failed", "verification", account[u].email)
    /\ Return(c)
    /\ UNCHANGED <<account, token, used>>

\* Time passes the expires_at of a link (24 hours or 30 minutes).
ExpireLink(l) ==
    /\ link[l].state = "current"
    /\ ~link[l].expired
    /\ link' = [link EXCEPT ![l].expired = TRUE]
    /\ UNCHANGED <<account, token, outbox, call, used>>

\* The cleanup worker deletes expired confirmation links.
CleanLinks ==
    LET Old == {l \in Links : Current(l, "verification") /\ link[l].expired} IN
    /\ Old # {}
    /\ link' = [l \in Links |-> IF l \in Old THEN [link[l] EXCEPT !.state = "gone"] ELSE link[l]]
    /\ UNCHANGED <<account, token, outbox, call, used>>

-----------------------------------------------------------------------------
AccountsNext ==
    \/ \E c \in Calls :
        \/ \E u \in Users : LoginRead(c, u) \/ ResendRead(c, u)
        \/ \E t \in Tokens : RotateFind(c, t) \/ ChangeRead(c, t)
        \/ \E l \in Links : ResetFind(c, l) \/ ConfirmFind(c, l)
        \/ LoginSave(c)
        \/ Rotate(c)
        \/ \E email \in Emails : ChangeEmail(c, email)
        \/ ChangePassword(c)
        \/ ResetPassword(c)
        \/ ConfirmEmail(c)
        \/ Resend(c)
        \/ GiveUp(c)
    \/ \E t \in Tokens : Logout(t)
    \/ \E u \in Users : Register(u) \/ LogoutAll(u) \/ RequestPasswordReset(u)
    \/ \E l \in Links : ExpireLink(l)
    \/ CleanLinks

-----------------------------------------------------------------------------
(* Properties. *)

\* No session outlives the credentials it was made with: every refresh token
\* that works was made under the present auth_version, whatever a login or a
\* rotation had read before the change (README.md: changes of email and
\* password revoke previous sessions, a reset ends all of them).
SessionsOfCurrentCredentials ==
    \A t \in Tokens : Live(t) => token[t].version = account[token[t].user].version

\* A link takes effect at most once, and an address counts as confirmed only
\* through a link that was sent to it (README.md: a change of email annuls the
\* previous links of both kinds; a new request replaces the link).
LinksWorkOnce ==
    /\ \A l \in Links : used[l] <= 1
    /\ \A u \in Users : account[u].verified =>
         \E l \in Links : /\ used[l] = 1
                          /\ link[l].kind = "verification"
                          /\ link[l].user = u
                          /\ link[l].email = account[u].email

=============================================================================
