----------------------------- MODULE MCAccounts -----------------------------
(***************************************************************************)
(* Instance of Session for TLC.  The scenarios share the run, so that      *)
(* their states add up and do not multiply.  They choose how many tokens   *)
(* and links can still be made, and who is there: requests on the server,  *)
(* workers that deliver, or the tabs of a browser.                         *)
(***************************************************************************)
EXTENDS Session, TLC

CONSTANTS u1, u2, e1, e2, c1, w1, b1, b2

MCAddress == u1 :> e1 @@ u2 :> e2

Fresh(ts, ls) ==
    /\ \A t \in Tokens : t \in ts <=> token[t] = NoToken
    /\ \A l \in Links : l \in ls <=> link[l] = NoLink

CallsAre(n) == \A c \in Calls : call[c] = IF n = 2 \/ (n = 1 /\ c = c1) THEN NoCall ELSE Absent
WorkersAre(n) == \A w \in Workers : worker[w] = IF n = 2 \/ (n = 1 /\ w = w1) THEN AtRest ELSE Away

OneAccount == account[u1] # NoAccount /\ account[u2] = NoAccount
TwoAccounts == account[u1] # NoAccount /\ account[u2] # NoAccount /\ token[1].user = u1
MailOf1(status) == ~account[u1].verified /\ outbox[1].status = status
NoBrowser == elsewhere /\ \A b \in Tabs : uses[b] = {}

\* Two requests at a time on the server, for sessions and for links.
OnServer ==
    /\ NoBrowser /\ OneAccount /\ MailOf1("sent") /\ CallsAre(2) /\ WorkersAre(0)
    /\ Fresh({2, 3}, {}) \/ Fresh({2}, {2})

\* Two links in turn with one worker, or one with two; and a request with one
\* worker or two.
Delivering ==
    /\ NoBrowser /\ OneAccount
    /\ \/ MailOf1("sent") /\ CallsAre(0) /\ WorkersAre(1) /\ Fresh({}, {2, 3})
       \/ MailOf1("sent") /\ CallsAre(0) /\ WorkersAre(2) /\ Fresh({}, {2})
       \/ MailOf1("sent") /\ CallsAre(1) /\ WorkersAre(1) /\ Fresh({4}, {2})
       \/ MailOf1("scheduled") /\ CallsAre(1) /\ WorkersAre(2) /\ Fresh({}, {})

\* Two tabs of the browser of u1.
Browsing ==
    /\ CallsAre(0) /\ WorkersAre(0) /\ store = 1 /\ account[u1].verified
    /\ \/ /\ OneAccount /\ elsewhere /\ Fresh({2, 3}, {})
          /\ uses[b1] = {"plain"} /\ uses[b2] \in {{"plain"}, {"logout"}, {"password"}}
       \/ /\ TwoAccounts /\ ~elsewhere /\ Fresh({3, 4}, {})
          /\ uses[b1] \in {{"plain"}, {"logout"}} /\ uses[b2] = {"login"}

MCInit == SessionInit /\ (OnServer \/ Delivering \/ Browsing)

MCSpec == MCInit /\ [][SessionNext]_sessionVars /\ MailsFairness

=============================================================================
