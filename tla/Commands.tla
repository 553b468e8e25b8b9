------------------------------ MODULE Commands ------------------------------
(***************************************************************************)
(* The browser's side of the idempotent commands (command and api of the   *)
(* frontend) in front of the server of Operations: the key of a command is *)
(* kept in sessionStorage until an answer settles it, so that a retry after*)
(* an uncertain response reuses it.  Here a command is what one tab stores *)
(* under one storage key: a user, a method, a path and a body.             *)
(***************************************************************************)
EXTENDS Operations

VARIABLES
    storageKey,     \* sessionStorage: the key kept for each command
    waiting,        \* requests whose response the browser still waits for
    signedIn,       \* whether the session's tokens are accepted
    meant,          \* for each command, how often the user meant it to happen
    announced,      \* and how often the user was told that it did
    open,           \* commands whose last outcome the user does not know
    keyLost         \* commands whose key was given up without an outcome

userVars == <<meant, announced, open, keyLost>>     \* history, not in the code
cmdVars == <<opVars, storageKey, waiting, signedIn, userVars>>

\* Mutant: only refusals give the key up.
SettledByRefusal == {"conflict", "rejected"}

\* Answers after which the key is removed.
Settled == {"success", "conflict", "rejected"}

CmdInit ==
    /\ OpInit
    /\ \A r \in Requests : req[r] = Unsent
    /\ storageKey = [c \in Commands |-> None]
    /\ waiting = {}
    /\ signedIn = TRUE
    /\ meant = [c \in Commands |-> 0]
    /\ announced = [c \in Commands |-> 0]
    /\ open = {}
    /\ keyLost = {}

\* The key that is stored for the command, or a new uuid.
KeyFor(c, k) ==
    IF storageKey[c] = None THEN \A q \in Requests : req[q].key # k
                            ELSE k = storageKey[c]

\* The button is pressed: a new key is stored unless one is there already.  A
\* press while the outcome of an earlier one is unknown is a retry of it.
\* The browser waits for one response of a command at a time.
Press(r, c, k) ==
    /\ \A q \in waiting : req[q].cmd # c
    /\ KeyFor(c, k)
    /\ Send(r, c, k)
    /\ storageKey' = [storageKey EXCEPT ![c] = k]
    /\ waiting' = waiting \cup {r}
    /\ meant' = IF c \in open THEN meant ELSE [meant EXCEPT ![c] = @ + 1]
    /\ open' = open \cup {c}
    /\ UNCHANGED <<signedIn, announced, keyLost>>

\* A success and any 4xx but 429 remove the key; after a 5xx it stays.
Receive(r) ==
    LET c == req[r].cmd
        kind == req[r].answer.kind
    IN
    /\ r \in waiting
    /\ req[r].at = "answered"
    /\ signedIn
    /\ waiting' = waiting \ {r}
    /\ storageKey' = [storageKey EXCEPT ![c] = IF kind \in Settled THEN None ELSE @]
    /\ open' = IF kind \in Settled THEN open \ {c} ELSE open
    /\ announced' = [announced EXCEPT ![c] = IF kind = "success" THEN @ + 1 ELSE @]
    /\ UNCHANGED <<opVars, signedIn, meant, keyLost>>

\* Mutant: a failed fetch is taken for a failed command.
NetworkErrorForgets(r) ==
    /\ r \in waiting
    /\ waiting' = waiting \ {r}
    /\ storageKey' = [storageKey EXCEPT ![req[r].cmd] = None]
    /\ UNCHANGED <<opVars, signedIn, userVars>>

\* fetch fails: the response is lost or too late, and the server may or may not
\* be at work on the request.  The key stays.
NetworkError(r) ==
    /\ r \in waiting
    /\ waiting' = waiting \ {r}
    /\ UNCHANGED <<opVars, storageKey, signedIn, userVars>>

\* 401 from the authentication in front of Operation and from the refresh the
\* browser then tries, or made up by api() for a response that comes when the
\* session has changed: a 4xx like another, the key is removed.
Unauthorized(r) ==
    /\ r \in waiting
    /\ req[r].at \in {"sent", "answered"}
    /\ ~signedIn
    /\ req' = [req EXCEPT ![r].at = IF @ = "sent" THEN "lost" ELSE @]
    /\ waiting' = waiting \ {r}
    /\ storageKey' = [storageKey EXCEPT ![req[r].cmd] = None]
    /\ keyLost' = keyLost \cup {req[r].cmd}
    /\ UNCHANGED <<stored, userLock, committed, notified, signedIn, meant, announced, open>>

\* The tokens are revoked or expire; the user signs in again.
EndSession ==
    /\ signedIn' = ~signedIn
    /\ UNCHANGED <<opVars, storageKey, waiting, userVars>>

\* The server's own steps; it serves only those that are signed in.
Server ==
    /\ \/ \E r \in Requests : /\ req[r].at = "sent" => signedIn
                              /\ Serve(r)
       \/ Crash
    /\ UNCHANGED <<storageKey, waiting, signedIn, userVars>>

CmdNext ==
    \/ \E r \in Requests, c \in Commands, k \in Keys : Press(r, c, k)
    \/ \E r \in Requests : Receive(r) \/ NetworkError(r) \/ Unauthorized(r)
    \/ EndSession
    \/ Server

CmdSpec == CmdInit /\ [][CmdNext]_cmdVars

-----------------------------------------------------------------------------
(* Properties. *)

Effects(c) == Cardinality({r \in committed : req[r].cmd = c})

\* The comment on command(): "Retrying an uncertain response, including after
\* reload, reuses the same operation instead of repeating its side effects".
\* A command takes effect at most as often as the user meant it to.
EffectsAsMeant == \A c \in Commands : Effects(c) <= meant[c]

\* That is so for every command that never met the 401 of a lost session, through
\* lost responses, failures, crashes and requests that are still running.
EffectsAsMeantWhileSignedIn ==
    \A c \in Commands \ keyLost : Effects(c) <= meant[c]

\* Every success the user is shown is an effect of its own: a new press is never
\* answered with the stored response of one that was shown before.
ConfirmedIsNew == \A c \in Commands : announced[c] <= Effects(c)

=============================================================================
