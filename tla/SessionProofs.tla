--------------------------- MODULE SessionProofs ---------------------------
(***************************************************************************)
(* Sessions and links on the server, and the session of the browser,       *)
(* proved for any number of users, requests, workers and tabs.             *)
(*                                                                         *)
(* A request on the server may hold what it read before it got the lock,   *)
(* and a tab what it was answered before it looked at the store again.     *)
(* The strengthening says what of that lasts: tokens and links keep their  *)
(* owner for ever and never come back to life, versions only grow, and an  *)
(* account that exists stays.  Two parts follow of their own: the mails of *)
(* the outboxes match the links, and the tabs exchange a token once.       *)
(***************************************************************************)
EXTENDS Session, TLAPS, WellFoundedInduction

AccountRec == [email : Emails \cup {None}, verified : BOOLEAN, version : Nat]
TokenRec == [user : Users \cup {None}, version : Nat,
             state : {"unused", "live", "dead", "spent"}, from : Nat]
LinkRec == [kind : Kinds, user : Users \cup {None}, email : Emails \cup {None},
            state : {"unused", "current", "gone", "spent"}, expired : BOOLEAN]

Issued(t) == token[t].state \in {"live", "dead"}

\* A session belongs to an account that exists, and was never made under a
\* version that is still to come.
CredInv ==
    /\ account \in [Users -> AccountRec]
    /\ token \in [Tokens -> TokenRec]
    /\ \A t \in Tokens : Issued(t) => /\ token[t].user \in Users
                                      /\ Registered(token[t].user)
                                      /\ token[t].version <= account[token[t].user].version
    /\ SessionsOfCurrentCredentials

\* What a step may do to credentials: none is taken back.
CredsGrow ==
    /\ \A u \in Users : Registered(u) => /\ Registered(u)'
                                         /\ account[u].version <= account'[u].version
    /\ \A t \in Tokens : Issued(t) => /\ Issued(t)'
                                      /\ token'[t].user = token[t].user
                                      /\ token'[t].version = token[t].version
                                      /\ token'[t].from = token[t].from
                                      /\ Live(t)' => Live(t)

-----------------------------------------------------------------------------
(* Fresh numbers. *)

\* A set of numbers that is not empty has a least element.
LEMMA Least == ASSUME NEW S \in SUBSET Nat, S # {} PROVE \E m \in S : \A k \in S : m <= k
  <1> DEFINE R == OpToRel(<, Nat)
  <1>1. \A x, y \in Nat : <<x, y>> \in R <=> x < y
    BY DEF OpToRel
  <1>2. IsWellFoundedOn(R, Nat)
    BY NatLessThanWellFounded
  <1> HIDE DEF R
  <1>3. \E x \in S : \A y \in S : ~(<<y, x>> \in R)
    BY <1>2, WFMin
  <1>4. PICK m \in S : \A k \in S : ~(<<k, m>> \in R)
    BY <1>3
  <1>5. \A k \in S : m <= k
    <2> SUFFICES ASSUME NEW k \in S PROVE m <= k
      OBVIOUS
    <2>1. ~(k < m)
      BY <1>1, <1>4
    <2> QED BY <2>1
  <1> QED BY <1>5

LEMMA FreshTokenIs ==
    ASSUME FreshTokens # {}
    PROVE  FreshToken \in Tokens /\ token[FreshToken].state = "unused"
  <1>1. FreshTokens \in SUBSET Nat
    BY BoundsAreNumbers DEF FreshTokens, Tokens
  <1>2. \E t \in FreshTokens : \A s \in FreshTokens : t <= s
    BY <1>1, Least
  <1>3. FreshToken \in FreshTokens
    BY <1>2 DEF FreshToken
  <1> QED BY <1>3 DEF FreshTokens

LEMMA FreshLinkIs ==
    ASSUME FreshLinks # {}
    PROVE  FreshLink \in Links /\ link[FreshLink].state = "unused"
  <1>1. FreshLinks \in SUBSET Nat
    BY BoundsAreNumbers DEF FreshLinks, Links
  <1>2. \E l \in FreshLinks : \A k \in FreshLinks : l <= k
    BY <1>1, Least
  <1>3. FreshLink \in FreshLinks
    BY <1>2 DEF FreshLink
  <1> QED BY <1>3 DEF FreshLinks

-----------------------------------------------------------------------------
(* What steps do to credentials. *)

LEMMA CredsSame ==
    ASSUME CredInv, UNCHANGED <<account, token>>
    PROVE  CredInv' /\ CredsGrow
  BY DEF CredInv, CredsGrow, SessionsOfCurrentCredentials, Issued, Live, Registered, AccountRec

\* A token was made that was not there.
Made(n, u, version, from) ==
    /\ n \in Tokens
    /\ ~Issued(n)
    /\ token'[n] = NewSession(u, version, from)

LEMMA SessionMade ==
    ASSUME CredInv, FreshTokens # {}, NEW u \in Users, Registered(u), UNCHANGED account,
           token' = [token EXCEPT ![FreshToken] = NewSession(u, account[u].version, 0)]
    PROVE  CredInv' /\ CredsGrow /\ Made(FreshToken, u, account[u].version, 0)
  <1> DEFINE n == FreshToken
             new == NewSession(u, account[u].version, 0)
  <1>1. n \in Tokens /\ token[n].state = "unused"
    BY FreshTokenIs
  <1>2. /\ new \in TokenRec
        /\ new.user = u /\ new.version = account[u].version
    BY DEF NewSession, TokenRec, CredInv, AccountRec
  <1> HIDE DEF n, new
  <1>3. /\ token' \in [Tokens -> TokenRec]
        /\ token'[n] = new
        /\ \A t \in Tokens : t # n => token'[t] = token[t]
    BY <1>1, <1>2 DEF CredInv, n, new
  <1>4. ~Issued(n)
    BY <1>1 DEF Issued
  <1>5. CredInv'
    BY <1>2, <1>3 DEF CredInv, SessionsOfCurrentCredentials, Issued, Live, Registered, AccountRec
  <1>6. CredsGrow
    BY <1>3, <1>4 DEF CredInv, CredsGrow, Issued, Live, Registered, AccountRec
  <1> QED BY <1>1, <1>3, <1>4, <1>5, <1>6 DEF Made, n, new

\* Some tokens die.
LEMMA SessionsEnd ==
    ASSUME CredInv, UNCHANGED account, token' \in [Tokens -> TokenRec],
           \A t \in Tokens : \/ token'[t] = token[t]
                             \/ token'[t] = [token[t] EXCEPT !.state = "dead"] /\ Live(t)
    PROVE  CredInv' /\ CredsGrow
  <1>1. \A t \in Tokens : /\ token'[t].user = token[t].user
                          /\ token'[t].version = token[t].version
                          /\ token'[t].from = token[t].from
                          /\ Issued(t)' <=> Issued(t)
                          /\ Live(t)' => Live(t)
    BY DEF CredInv, TokenRec, Issued, Live
  <1>2. CredInv'
    BY <1>1 DEF CredInv, SessionsOfCurrentCredentials, Issued, Live, Registered
  <1>3. CredsGrow
    BY <1>1 DEF CredInv, CredsGrow, Issued, Live, Registered, AccountRec
  <1> QED BY <1>2, <1>3

LEMMA SessionRotated ==
    ASSUME CredInv, FreshTokens # {}, NEW t \in Tokens, Live(t), UNCHANGED account,
           token' = Rotated(t)
    PROVE  CredInv' /\ CredsGrow /\ Made(FreshToken, token[t].user, token[t].version, t)
  <1> DEFINE n == FreshToken
             new == NewSession(token[t].user, token[t].version, t)
             old == [token[t] EXCEPT !.state = "dead"]
  <1>1. n \in Tokens /\ token[n].state = "unused" /\ n # t
    BY FreshTokenIs DEF Live
  <1>2. /\ new \in TokenRec
        /\ new.user = token[t].user /\ new.version = token[t].version
    BY BoundsAreNumbers DEF NewSession, TokenRec, CredInv, Tokens
  <1>3. /\ old \in TokenRec /\ old.user = token[t].user /\ old.version = token[t].version
        /\ old.from = token[t].from /\ old.state = "dead"
    BY DEF CredInv, TokenRec
  <1>4. token' = [token EXCEPT ![t] = old, ![n] = new]
    BY DEF Rotated
  <1> HIDE DEF n, new, old
  <1>5. /\ token' \in [Tokens -> TokenRec]
        /\ token'[n] = new
        /\ token'[t] = old
        /\ \A s \in Tokens : s # n /\ s # t => token'[s] = token[s]
    BY <1>1, <1>2, <1>3, <1>4 DEF CredInv
  <1>6. ~Issued(n) /\ Issued(t)
    BY <1>1 DEF Issued, Live
  <1>7. CredInv'
    BY <1>2, <1>3, <1>5, <1>6 DEF CredInv, SessionsOfCurrentCredentials, Issued, Live, Registered
  <1>8. CredsGrow
    BY <1>3, <1>5, <1>6 DEF CredInv, CredsGrow, Issued, Live, Registered, AccountRec
  <1> QED BY <1>1, <1>5, <1>6, <1>7, <1>8 DEF Made, n, new

\* What Revoked leaves of the tokens.
LEMMA RevokedIs ==
    ASSUME CredInv, NEW u
    PROVE  /\ Revoked(u) \in [Tokens -> TokenRec]
           /\ \A t \in Tokens : /\ Revoked(u)[t].user = token[t].user
                                /\ Revoked(u)[t].version = token[t].version
                                /\ Revoked(u)[t].from = token[t].from
                                /\ Revoked(u)[t].state \in {"live", "dead"} <=> Issued(t)
                                /\ Revoked(u)[t].state = "live" <=> Live(t) /\ token[t].user # u
                                /\ \/ Revoked(u)[t] = token[t]
                                   \/ /\ Revoked(u)[t] = [token[t] EXCEPT !.state = "dead"]
                                      /\ Live(t)
  BY DEF CredInv, Revoked, TokenRec, Issued, Live

\* The version of an account moves on, and its sessions end.
LEMMA VersionMoves ==
    ASSUME CredInv, NEW u \in Users, Registered(u), NEW a \in AccountRec,
           a.email # None, a.version = account[u].version + 1,
           account' = [account EXCEPT ![u] = a],
           \/ token' = Revoked(u)
           \/ FreshTokens # {} /\ token' = ChangedSessions(u)
    PROVE  /\ CredInv' /\ CredsGrow
           /\ token' # Revoked(u) => Made(FreshToken, u, account[u].version + 1, 0)
  <1> DEFINE n == FreshToken
             new == NewSession(u, a.version, 0)
             R == Revoked(u)
  <1>1. /\ account' \in [Users -> AccountRec]
        /\ \A v \in Users : account'[v] = IF v = u THEN a ELSE account[v]
        /\ account[u].version \in Nat
    BY DEF CredInv, AccountRec
  <1>2. /\ new \in TokenRec /\ new.user = u /\ new.version = a.version /\ new.state = "live"
        /\ new = NewSession(u, account[u].version + 1, 0)
    BY <1>1 DEF NewSession, TokenRec, CredInv
  <1>3. \A v \in Users : Registered(v) => Registered(v)' /\ account[v].version <= account'[v].version
    BY <1>1 DEF Registered, AccountRec, CredInv
  <1>4. \/ token' = R
        \/ FreshTokens # {} /\ token' = [R EXCEPT ![n] = new]
    BY <1>2 DEF ChangedSessions
  <1> HIDE DEF n, new
  <1>5. CASE token' = R
    <2> HIDE DEF R
    <2>1. /\ token' \in [Tokens -> TokenRec]
          /\ \A t \in Tokens : /\ token'[t].user = token[t].user
                               /\ token'[t].version = token[t].version
                               /\ token'[t].from = token[t].from
                               /\ Issued(t)' <=> Issued(t)
                               /\ Live(t)' <=> Live(t) /\ token[t].user # u
      BY <1>5, RevokedIs DEF R, Issued, Live
    <2>2. CredInv'
      BY <1>1, <1>3, <2>1 DEF CredInv, SessionsOfCurrentCredentials, Issued, Live, AccountRec, TokenRec
    <2>3. CredsGrow
      BY <1>3, <2>1 DEF CredsGrow
    <2> QED BY <1>5, <2>2, <2>3 DEF R
  <1>6. CASE FreshTokens # {} /\ token' = [R EXCEPT ![n] = new]
    <2>1. n \in Tokens /\ token[n].state = "unused"
      BY <1>6, FreshTokenIs DEF n
    <2>2. R \in [Tokens -> TokenRec]
      BY RevokedIs
    <2> HIDE DEF R
    <2>3. /\ token' \in [Tokens -> TokenRec]
          /\ token'[n] = new
          /\ \A t \in Tokens : t # n => token'[t] = R[t]
      BY <1>2, <1>6, <2>1, <2>2
    <2>4. ASSUME NEW t \in Tokens, t # n
          PROVE  /\ token'[t].user = token[t].user
                 /\ token'[t].version = token[t].version
                 /\ token'[t].from = token[t].from
                 /\ Issued(t)' <=> Issued(t)
                 /\ Live(t)' <=> Live(t) /\ token[t].user # u
      <3>1. token'[t] = R[t]
        BY <2>3, <2>4
      <3>2. /\ R[t].user = token[t].user /\ R[t].version = token[t].version
            /\ R[t].from = token[t].from
            /\ R[t].state \in {"live", "dead"} <=> Issued(t)
            /\ R[t].state = "live" <=> Live(t) /\ token[t].user # u
        BY RevokedIs DEF R
      <3>3. Issued(t)' <=> Issued(t)
        BY <3>1, <3>2 DEF Issued
      <3>4. Live(t)' <=> Live(t) /\ token[t].user # u
        BY <3>1, <3>2 DEF Live
      <3> QED BY <3>1, <3>2, <3>3, <3>4
    <2>5. ~Issued(n)
      BY <2>1 DEF Issued
    <2>6. Registered(u)' /\ new.version = account'[u].version /\ new.version \in Nat
      BY <1>1, <1>2, <1>3
    <2>7. ASSUME NEW t \in Tokens, Issued(t)'
          PROVE  /\ token'[t].user \in Users
                 /\ Registered(token[t].user)'
                 /\ token'[t].version <= account'[token'[t].user].version
                 /\ Live(t)' => token'[t].version = account'[token'[t].user].version
      <3>1. CASE t = n
        <4>1. token'[t] = new /\ token'[t].user = u
          BY <1>2, <2>3, <3>1
        <4> QED BY <2>6, <4>1 DEF Registered
      <3>2. CASE t # n
        <4>1. /\ Issued(t) /\ token'[t].user = token[t].user /\ token'[t].version = token[t].version
              /\ Live(t)' => Live(t) /\ token[t].user # u
          BY <2>4, <2>7, <3>2
        <4>2. /\ token[t].user \in Users /\ Registered(token[t].user)
              /\ token[t].version <= account[token[t].user].version
              /\ Live(t) => token[t].version = account[token[t].user].version
              /\ token[t].version \in Nat /\ account[token[t].user].version \in Nat
              /\ account'[token[t].user].version \in Nat
          BY <1>1, <4>1 DEF CredInv, SessionsOfCurrentCredentials, TokenRec, AccountRec
        <4> DEFINE v == token[t].user
        <4>3. v \in Users /\ account'[v].email # None /\ account[v].version <= account'[v].version
          BY <1>3, <4>2 DEF Registered
        <4>4. v # u => account'[v] = account[v]
          BY <1>1, <4>3
        <4>5. token'[t].user = v /\ token'[t].version <= account'[v].version
          BY <4>1, <4>2, <4>3
        <4>6. Live(t)' => token'[t].version = account'[v].version
          BY <4>1, <4>2, <4>4
        <4> HIDE DEF v
        <4> QED BY <4>3, <4>5, <4>6 DEF Registered
      <3> QED BY <3>1, <3>2
    <2>8. \A t \in Tokens : Live(t)' => Issued(t)'
      BY DEF Live, Issued
    <2>9. CredInv'
      BY <1>1, <2>3, <2>7, <2>8 DEF CredInv, SessionsOfCurrentCredentials
    <2>10. CredsGrow
      BY <1>3, <2>4, <2>5 DEF CredsGrow
    <2> QED BY <1>2, <2>1, <2>3, <2>5, <2>9, <2>10 DEF Made, n
  <1> QED BY <1>4, <1>5, <1>6

\* A registration makes an account that was not there, and its first session.
LEMMA AccountMade ==
    ASSUME CredInv, NEW u \in Users, ~Registered(u), FreshTokens # {},
           account' = [account EXCEPT ![u] = NewAccount(u)],
           token' = [token EXCEPT ![FreshToken] = NewSession(u, 0, 0)]
    PROVE  CredInv' /\ CredsGrow /\ Registered(u)'
  <1> DEFINE n == FreshToken
             new == NewSession(u, 0, 0)
             a == NewAccount(u)
  <1>1. n \in Tokens /\ token[n].state = "unused"
    BY FreshTokenIs
  <1>2. /\ a \in AccountRec /\ a.version = 0 /\ a.email # None
        /\ new \in TokenRec /\ new.user = u /\ new.version = 0
    BY AddressesDiffer, NoneIsNobody DEF NewAccount, NoAccount, AccountRec, NewSession, TokenRec
  <1> HIDE DEF n, new, a
  <1>3. /\ account' \in [Users -> AccountRec]
        /\ \A v \in Users : account'[v] = IF v = u THEN a ELSE account[v]
        /\ token' \in [Tokens -> TokenRec]
        /\ token'[n] = new
        /\ \A t \in Tokens : t # n => token'[t] = token[t]
    BY <1>1, <1>2 DEF CredInv, n, new, a
  <1>4. ~Issued(n) /\ \A t \in Tokens : Issued(t) => token[t].user # u
    BY <1>1 DEF Issued, CredInv
  <1>5. CredInv'
    BY <1>2, <1>3, <1>4 DEF CredInv, SessionsOfCurrentCredentials, Issued, Live, Registered
  <1>6. CredsGrow
    BY <1>2, <1>3, <1>4 DEF CredInv, CredsGrow, Issued, Live, Registered, AccountRec
  <1>7. Registered(u)'
    BY <1>2, <1>3 DEF Registered
  <1> QED BY <1>5, <1>6, <1>7

-----------------------------------------------------------------------------
(* What steps do to links, and to what requests have read. *)

\* A link is new, current or gone, in this order, and used when it goes, once.
LinkInv ==
    /\ link \in [Links -> LinkRec]
    /\ used \in [Links -> {0, 1}]
    /\ \A l \in Links :
        /\ link[l].state = "unused" => used[l] = 0
        /\ link[l].state = "current" => /\ used[l] = 0
                                        /\ link[l].user \in Users
                                        /\ Registered(link[l].user)
    /\ LinksWorkOnce

\* What a step may do to one link.
LinkMoves(l) ==
    \/ link'[l] = link[l]
    \/ link[l].state = "current" /\ link'[l] = [link[l] EXCEPT !.state = "gone"]
    \/ link[l].state = "current" /\ link'[l] = [link[l] EXCEPT !.expired = TRUE]
    \/ /\ link[l].state = "unused" /\ link'[l].state = "current"
       /\ link'[l].user \in Users /\ Registered(link[l].user)'

LinksGrow ==
    \A l \in Links : link[l].state # "unused" => /\ link'[l].state # "unused"
                                                 /\ link'[l].user = link[l].user

\* An address is confirmed by the use of a link to it, or was before.
ConfirmedByUse ==
    \A u \in Users : account'[u].verified =>
        \/ account[u].verified /\ account'[u].email = account[u].email
        \/ \E l \in Links : /\ used'[l] = 1
                            /\ link'[l].kind = "verification"
                            /\ link'[l].user = u
                            /\ link'[l].email = account'[u].email

LEMMA LinksStep ==
    ASSUME LinkInv, CredsGrow,
           link' \in [Links -> LinkRec], \A l \in Links : LinkMoves(l),
           used' \in [Links -> {0, 1}],
           \A l \in Links : \/ used'[l] = used[l]
                            \/ /\ used[l] = 0 /\ used'[l] = 1
                               /\ link[l].state = "current" /\ link'[l].state = "gone",
           ConfirmedByUse
    PROVE  LinkInv' /\ LinksGrow
  <1>1. \A l \in Links : link[l].state # "unused" =>
          /\ link'[l].state # "unused"
          /\ link'[l].kind = link[l].kind /\ link'[l].user = link[l].user
          /\ link'[l].email = link[l].email
          /\ link'[l].state = "current" => link[l].state = "current"
    BY DEF LinkInv, LinkRec, LinkMoves
  <1>2. LinksGrow
    BY <1>1 DEF LinksGrow
  <1>3. ASSUME NEW l \in Links
        PROVE  /\ link'[l].state = "unused" => used'[l] = 0
               /\ link'[l].state = "current" => /\ used'[l] = 0
                                                /\ link'[l].user \in Users
                                                /\ Registered(link[l].user)'
    <2>1. CASE link[l].state = "unused"
      BY <2>1 DEF LinkInv, LinkMoves
    <2>2. CASE link[l].state # "unused"
      BY <1>1, <2>2 DEF LinkInv, CredsGrow, Registered
    <2> QED BY <2>1, <2>2
  <1>4. \A l \in Links : used'[l] <= 1
    OBVIOUS
  <1>5. ASSUME NEW u \in Users, account'[u].verified
        PROVE  \E l \in Links : /\ used'[l] = 1
                                /\ link'[l].kind = "verification"
                                /\ link'[l].user = u
                                /\ link'[l].email = account'[u].email
    <2>1. CASE account[u].verified /\ account'[u].email = account[u].email
      <3>1. PICK l \in Links : /\ used[l] = 1
                               /\ link[l].kind = "verification"
                               /\ link[l].user = u
                               /\ link[l].email = account[u].email
        BY <2>1 DEF LinkInv, LinksWorkOnce
      <3>2. link[l].state # "unused" /\ used'[l] = 1
        BY <3>1 DEF LinkInv
      <3> QED BY <1>1, <2>1, <3>1, <3>2
    <2>2. CASE ~(account[u].verified /\ account'[u].email = account[u].email)
      BY <1>5, <2>2 DEF ConfirmedByUse
    <2> QED BY <2>1, <2>2
  <1>6. LinkInv'
    BY <1>3, <1>4, <1>5 DEF LinkInv, LinksWorkOnce
  <1> QED BY <1>2, <1>6

\* A step that uses no link and confirms nothing.
LEMMA LinksUnused ==
    ASSUME LinkInv, CredsGrow, UNCHANGED used,
           link' \in [Links -> LinkRec], \A l \in Links : LinkMoves(l),
           \A u \in Users : account'[u].verified =>
             account[u].verified /\ account'[u].email = account[u].email
    PROVE  LinkInv' /\ LinksGrow
  <1>1. used' \in [Links -> {0, 1}] /\ ConfirmedByUse
    BY DEF LinkInv, ConfirmedByUse
  <1> QED BY <1>1, LinksStep

LEMMA LinksSame ==
    ASSUME LinkInv, CredsGrow, UNCHANGED <<link, used>>,
           \A u \in Users : account'[u].verified =>
             account[u].verified /\ account'[u].email = account[u].email
    PROVE  LinkInv' /\ LinksGrow
  BY LinksUnused DEF LinkInv, LinkMoves

LEMMA UnlinkedMoves ==
    ASSUME LinkInv, NEW u, NEW kinds
    PROVE  /\ Unlinked(u, kinds) \in [Links -> LinkRec]
           /\ \A l \in Links :
                \/ Unlinked(u, kinds)[l] = link[l]
                \/ /\ link[l].state = "current"
                   /\ Unlinked(u, kinds)[l] = [link[l] EXCEPT !.state = "gone"]
  BY DEF LinkInv, LinkRec, Unlinked

\* The links of some kinds go, and a new one is made.
LEMMA Relinked ==
    ASSUME LinkInv, NEW u \in Users, NEW kinds, NEW kind \in Kinds, NEW email \in Emails \cup {None},
           Registered(u)', FreshLinks # {},
           link' = [Unlinked(u, kinds) EXCEPT ![FreshLink] = NewLink(kind, u, email)]
    PROVE  link' \in [Links -> LinkRec] /\ \A l \in Links : LinkMoves(l)
  <1> DEFINE n == FreshLink
             new == NewLink(kind, u, email)
             R == Unlinked(u, kinds)
  <1>1. n \in Links /\ link[n].state = "unused"
    BY FreshLinkIs
  <1>2. new \in LinkRec /\ new.state = "current" /\ new.user = u
    BY DEF NewLink, LinkRec
  <1>3. R \in [Links -> LinkRec]
    BY UnlinkedMoves
  <1> HIDE DEF n, new, R
  <1>4. /\ link' \in [Links -> LinkRec]
        /\ link'[n] = new
        /\ \A l \in Links : l # n => link'[l] = R[l]
    BY <1>1, <1>2, <1>3 DEF n, new, R
  <1>5. ASSUME NEW l \in Links, l = n
        PROVE  LinkMoves(l)
    <2>1. link[l].state = "unused" /\ link'[l].state = "current" /\ link'[l].user = u
      BY <1>1, <1>2, <1>4, <1>5
    <2> QED BY <2>1 DEF LinkMoves, Registered
  <1>6. \A l \in Links : l # n => LinkMoves(l)
    BY <1>4, UnlinkedMoves DEF LinkMoves, R
  <1> QED BY <1>4, <1>5, <1>6

CallRec == [at : {"idle", "absent", "login", "rotate", "change", "reset", "confirm", "resend"},
            user : Users \cup {None}, version : Nat, arg : Nat, late : BOOLEAN]

\* The user of a request exists; its token was made, its link is that user's.
CallInv ==
    /\ call \in [Calls -> CallRec]
    /\ \A c \in Calls : call[c].at \notin {"idle", "absent"} =>
        /\ call[c].user \in Users /\ Registered(call[c].user)
        /\ call[c].at = "rotate" => call[c].arg \in Tokens
        /\ call[c].at \in {"reset", "confirm"} => /\ call[c].arg \in Links
                                                  /\ link[call[c].arg].state # "unused"
                                                  /\ link[call[c].arg].user = call[c].user

LEMMA CallsStep ==
    ASSUME CallInv, CredsGrow, LinksGrow,
           UNCHANGED call \/ \E c \in Calls : Return(c)
    PROVE  CallInv'
  <1>1. /\ call' \in [Calls -> CallRec]
        /\ \A d \in Calls : call'[d].at \notin {"idle", "absent"} => call'[d] = call[d]
    <2>1. NoCall \in CallRec /\ NoCall.at = "idle"
      BY DEF NoCall, CallRec
    <2> QED BY <2>1 DEF CallInv, Return
  <1>2. ASSUME NEW d \in Calls, call'[d].at \notin {"idle", "absent"}
        PROVE  /\ call'[d].user \in Users /\ Registered(call[d].user)'
               /\ call'[d].at = "rotate" => call'[d].arg \in Tokens
               /\ call'[d].at \in {"reset", "confirm"} => /\ call'[d].arg \in Links
                                                          /\ link'[call'[d].arg].state # "unused"
                                                          /\ link'[call'[d].arg].user = call'[d].user
    BY <1>1, <1>2 DEF CallInv, CredsGrow, LinksGrow, Registered
  <1> QED BY <1>1, <1>2 DEF CallInv

-----------------------------------------------------------------------------
(* The steps of the server. *)

ServerInv == CredInv /\ LinkInv /\ CallInv

\* A request reads.
LEMMA ReadsKeep ==
    ASSUME ServerInv, NEW c \in Calls, NEW u \in Users, Registered(u), NEW arg \in Nat,
           NEW late \in BOOLEAN, NEW at \in {"login", "rotate", "change", "reset", "confirm", "resend"},
           at = "rotate" => arg \in Tokens,
           at \in {"reset", "confirm"} => /\ arg \in Links
                                          /\ link[arg].state # "unused"
                                          /\ link[arg].user = u,
           Reads(c, at, u, arg, late)
    PROVE  ServerInv' /\ CredsGrow
  <1> DEFINE new == [at |-> at, user |-> u, version |-> account[u].version, arg |-> arg, late |-> late]
  <1>1. /\ call' = [call EXCEPT ![c] = new]
        /\ account' = account /\ token' = token /\ link' = link /\ used' = used
    BY DEF Reads
  <1>2. CredInv' /\ CredsGrow
    BY <1>1, CredsSame DEF ServerInv
  <1>3. LinkInv'
    BY <1>1, <1>2, LinksSame DEF ServerInv
  <1>4. new \in CallRec /\ new.at = at /\ new.user = u /\ new.arg = arg
    BY DEF CallRec, ServerInv, CredInv, AccountRec
  <1> HIDE DEF new
  <1>5. /\ call' \in [Calls -> CallRec]
        /\ \A d \in Calls : call'[d] = IF d = c THEN new ELSE call[d]
    BY <1>1, <1>4 DEF ServerInv, CallInv
  <1>6. CallInv'
    BY <1>1, <1>4, <1>5 DEF ServerInv, CallInv, Registered
  <1> QED BY <1>2, <1>3, <1>6 DEF ServerInv

\* A request writes and ends, or something happens beside the requests.
LEMMA WritesKeep ==
    ASSUME ServerInv, CredInv', CredsGrow, LinkInv', LinksGrow,
           UNCHANGED call \/ \E c \in Calls : Return(c)
    PROVE  ServerInv' /\ CredsGrow
  BY CallsStep DEF ServerInv

\* A step that only writes tokens.
LEMMA TokensWritten ==
    ASSUME ServerInv, CredInv', CredsGrow, UNCHANGED <<account, link, used>>,
           UNCHANGED call \/ \E c \in Calls : Return(c)
    PROVE  ServerInv' /\ CredsGrow
  <1>1. LinkInv' /\ LinksGrow
    BY LinksSame DEF ServerInv
  <1> QED BY <1>1, WritesKeep

LEMMA LoginKeeps == ASSUME ServerInv, NEW c \in Calls, LoginSave(c) PROVE ServerInv' /\ CredsGrow
  <1> DEFINE u == call[c].user
  <1>1. u \in Users /\ Registered(u)
    BY DEF LoginSave, ServerInv, CallInv
  <1>2. CASE account[u].version = call[c].version
    <2>1. token' = [token EXCEPT ![FreshToken] = NewSession(u, account[u].version, 0)]
      BY <1>2 DEF LoginSave
    <2>2. CredInv' /\ CredsGrow
      BY <1>1, <2>1, SessionMade DEF LoginSave, ServerInv
    <2> QED BY <2>2, TokensWritten DEF LoginSave
  <1>3. CASE account[u].version # call[c].version
    <2>1. CredInv' /\ CredsGrow
      BY <1>3, CredsSame DEF LoginSave, ServerInv
    <2> QED BY <2>1, TokensWritten DEF LoginSave
  <1> QED BY <1>2, <1>3

LEMMA RotateKeeps == ASSUME ServerInv, NEW c \in Calls, Rotate(c) PROVE ServerInv' /\ CredsGrow
  <1> DEFINE t == call[c].arg
  <1>1. t \in Tokens
    BY DEF Rotate, ServerInv, CallInv
  <1>2. CASE Live(t)
    <2>1. token' = Rotated(t)
      BY <1>2 DEF Rotate
    <2>2. CredInv' /\ CredsGrow
      BY <1>1, <1>2, <2>1, SessionRotated DEF Rotate, ServerInv
    <2> QED BY <2>2, TokensWritten DEF Rotate
  <1>3. CASE ~Live(t)
    <2>1. CredInv' /\ CredsGrow
      BY <1>3, CredsSame DEF Rotate, ServerInv
    <2> QED BY <2>1, TokensWritten DEF Rotate
  <1> QED BY <1>2, <1>3

LEMMA LogoutEnds ==
    ASSUME CredInv, NEW t \in Tokens, Live(t), UNCHANGED account,
           token' = [token EXCEPT ![t].state = "dead"]
    PROVE  CredInv' /\ CredsGrow
  <1>1. /\ token' \in [Tokens -> TokenRec]
        /\ \A s \in Tokens : \/ token'[s] = token[s]
                             \/ token'[s] = [token[s] EXCEPT !.state = "dead"] /\ Live(s)
    BY DEF CredInv, TokenRec
  <1> QED BY <1>1, SessionsEnd

LEMMA LogoutKeeps == ASSUME ServerInv, NEW t \in Tokens, Logout(t) PROVE ServerInv' /\ CredsGrow
  <1>1. CredInv' /\ CredsGrow
    BY LogoutEnds DEF Logout, ServerInv
  <1> QED BY <1>1, TokensWritten DEF Logout

LEMMA LogoutAllKeeps == ASSUME ServerInv, NEW u \in Users, LogoutAll(u) PROVE ServerInv' /\ CredsGrow
  <1>1. /\ token' \in [Tokens -> TokenRec]
        /\ \A s \in Tokens : \/ token'[s] = token[s]
                             \/ token'[s] = [token[s] EXCEPT !.state = "dead"] /\ Live(s)
    BY RevokedIs DEF LogoutAll, ServerInv
  <1>2. CredInv' /\ CredsGrow
    BY <1>1, SessionsEnd DEF LogoutAll, ServerInv
  <1> QED BY <1>2, TokensWritten DEF LogoutAll

LEMMA RegisterKeeps == ASSUME ServerInv, NEW u \in Users, Register(u) PROVE ServerInv' /\ CredsGrow
  <1>1. CredInv' /\ CredsGrow /\ Registered(u)'
    BY AccountMade DEF Register, ServerInv
  <1>2. link' \in [Links -> LinkRec] /\ \A l \in Links : LinkMoves(l)
    BY <1>1, Relinked, AddressesDiffer DEF Register, Requeue, ServerInv, Kinds
  <1>3. \A v \in Users : account'[v].verified => account[v].verified /\ account'[v].email = account[v].email
    <2>1. NewAccount(u).verified = FALSE
      BY DEF NewAccount, NoAccount
    <2> QED BY <2>1 DEF Register, ServerInv, CredInv
  <1>4. LinkInv' /\ LinksGrow
    BY <1>1, <1>2, <1>3, LinksUnused DEF Register, ServerInv
  <1> QED BY <1>1, <1>4, WritesKeep DEF Register

\* A change of credentials: the version of an account moves on, and at most a
\* link of its user takes effect.
LEMMA ChangeKeeps ==
    ASSUME ServerInv, NEW u \in Users, Registered(u), NEW a \in AccountRec,
           a.email # None, a.version = account[u].version + 1,
           account' = [account EXCEPT ![u] = a],
           \/ token' = Revoked(u)
           \/ FreshTokens # {} /\ token' = ChangedSessions(u)
    PROVE  /\ CredInv' /\ CredsGrow /\ Registered(u)'
           /\ \A v \in Users : account'[v] = IF v = u THEN a ELSE account[v]
  <1>1. CredInv' /\ CredsGrow
    BY VersionMoves DEF ServerInv
  <1>2. \A v \in Users : account'[v] = IF v = u THEN a ELSE account[v]
    BY DEF ServerInv, CredInv
  <1>3. Registered(u)'
    BY <1>1 DEF CredsGrow
  <1> QED BY <1>1, <1>2, <1>3

LEMMA ChangeEmailKeeps ==
    ASSUME ServerInv, NEW c \in Calls, NEW email \in Emails, ChangeEmail(c, email)
    PROVE  ServerInv' /\ CredsGrow
  <1>1. PICK u \in Users : u = call[c].user /\ Registered(u)
    BY DEF ChangeEmail, ServerInv, CallInv
  <1> DEFINE a == [email |-> email, verified |-> FALSE, version |-> account[u].version + 1]
  <1>2. a \in AccountRec /\ a.email # None /\ a.version = account[u].version + 1 /\ a.verified = FALSE
    BY NoneIsNobody DEF AccountRec, ServerInv, CredInv
  <1>3. /\ account' = [account EXCEPT ![u] = a]
        /\ FreshTokens # {} /\ token' = ChangedSessions(u)
    BY <1>1 DEF ChangeEmail, ServerInv, CredInv
  <1> HIDE DEF a
  <1>4. /\ CredInv' /\ CredsGrow /\ Registered(u)'
        /\ \A v \in Users : account'[v] = IF v = u THEN a ELSE account[v]
    BY <1>1, <1>2, <1>3, ChangeKeeps
  <1>5. link' \in [Links -> LinkRec] /\ \A l \in Links : LinkMoves(l)
    BY <1>1, <1>4, Relinked DEF ChangeEmail, ServerInv, Kinds
  <1>6. LinkInv' /\ LinksGrow
    BY <1>2, <1>4, <1>5, LinksUnused DEF ChangeEmail, ServerInv
  <1> QED BY <1>4, <1>6, WritesKeep DEF ChangeEmail

\* The reset links of a user go.
LEMMA ResetLinksGo ==
    ASSUME LinkInv, NEW u \in Users, NEW kinds, link' = Unlinked(u, kinds)
    PROVE  /\ link' \in [Links -> LinkRec] /\ \A l \in Links : LinkMoves(l)
           /\ \A l \in Links : link[l].user = u /\ link[l].kind \in kinds /\ link[l].state = "current"
                => link'[l].state = "gone"
  <1>1. link' \in [Links -> LinkRec] /\ \A l \in Links : LinkMoves(l)
    BY UnlinkedMoves DEF LinkMoves
  <1>2. \A l \in Links : link[l].user = u /\ link[l].kind \in kinds /\ link[l].state = "current"
                => link'[l].state = "gone"
    BY DEF Unlinked, LinkInv, LinkRec
  <1> QED BY <1>1, <1>2

\* The version of u moves on, and its address and confirmation stay.
LEMMA PasswordKeeps ==
    ASSUME ServerInv, NEW u \in Users, Registered(u),
           account' = [account EXCEPT ![u].version = @ + 1],
           \/ token' = Revoked(u)
           \/ FreshTokens # {} /\ token' = ChangedSessions(u)
    PROVE  /\ CredInv' /\ CredsGrow
           /\ \A v \in Users : account'[v].verified = account[v].verified /\ account'[v].email = account[v].email
  <1> DEFINE a == [account[u] EXCEPT !.version = @ + 1]
  <1>1. /\ a \in AccountRec /\ a.email = account[u].email /\ a.verified = account[u].verified
        /\ a.version = account[u].version + 1
    BY DEF AccountRec, ServerInv, CredInv
  <1>2. account' = [account EXCEPT ![u] = a] /\ a.email # None
    BY <1>1 DEF Registered
  <1> HIDE DEF a
  <1>3. CredInv' /\ CredsGrow /\ \A v \in Users : account'[v] = IF v = u THEN a ELSE account[v]
    BY <1>1, <1>2, ChangeKeeps
  <1> QED BY <1>1, <1>3

LEMMA ChangePasswordKeeps ==
    ASSUME ServerInv, NEW c \in Calls, ChangePassword(c)
    PROVE  ServerInv' /\ CredsGrow
  <1>1. PICK u \in Users : u = call[c].user /\ Registered(u)
    BY DEF ChangePassword, ServerInv, CallInv
  <1>2. /\ account' = [account EXCEPT ![u].version = @ + 1]
        /\ FreshTokens # {} /\ token' = ChangedSessions(u) /\ link' = Unlinked(u, {"reset"})
        /\ used' = used /\ Return(c)
    BY <1>1 DEF ChangePassword, RetireReset
  <1>3. /\ CredInv' /\ CredsGrow
        /\ \A v \in Users : account'[v].verified = account[v].verified /\ account'[v].email = account[v].email
    BY <1>1, <1>2, PasswordKeeps
  <1>4. link' \in [Links -> LinkRec] /\ \A l \in Links : LinkMoves(l)
    BY <1>2, ResetLinksGo DEF ServerInv
  <1>5. LinkInv' /\ LinksGrow
    BY <1>2, <1>3, <1>4, LinksUnused DEF ServerInv
  <1> QED BY <1>2, <1>3, <1>5, WritesKeep

\* A link takes effect, and is gone with it.
LEMMA LinkTaken ==
    ASSUME LinkInv, NEW c \in Calls, NEW l \in Links, l = call[c].arg, Take(c),
           link[l].state = "current", link'[l].state = "gone"
    PROVE  /\ used' \in [Links -> {0, 1}]
           /\ used'[l] = 1
           /\ \A k \in Links : \/ used'[k] = used[k]
                               \/ /\ used[k] = 0 /\ used'[k] = 1
                                  /\ link[k].state = "current" /\ link'[k].state = "gone"
  <1>1. used[l] = 0 /\ used' = [used EXCEPT ![l] = @ + 1]
    BY DEF LinkInv, Take
  <1>2. used' = [used EXCEPT ![l] = 1]
    BY <1>1
  <1> QED BY <1>1, <1>2 DEF LinkInv

LEMMA ResetKeeps == ASSUME ServerInv, NEW c \in Calls, ResetPassword(c) PROVE ServerInv' /\ CredsGrow
  <1>1. PICK u \in Users : u = call[c].user /\ Registered(u)
    BY DEF ResetPassword, ServerInv, CallInv
  <1>2. PICK l \in Links : l = call[c].arg /\ link[l].user = u
    BY <1>1 DEF ResetPassword, ServerInv, CallInv
  <1>3. /\ link[l].kind = "reset" /\ link[l].state = "current"
        /\ account' = [account EXCEPT ![u].version = @ + 1]
        /\ token' = Revoked(u) /\ link' = Unlinked(u, {"reset"})
        /\ Take(c) /\ Return(c)
    BY <1>1, <1>2 DEF ResetPassword, RetireReset, Valid, Current
  <1>4. /\ CredInv' /\ CredsGrow
        /\ \A v \in Users : account'[v].verified = account[v].verified /\ account'[v].email = account[v].email
    BY <1>1, <1>3, PasswordKeeps
  <1>5. link' \in [Links -> LinkRec] /\ (\A k \in Links : LinkMoves(k)) /\ link'[l].state = "gone"
    BY <1>2, <1>3, ResetLinksGo DEF ServerInv
  <1>6. /\ used' \in [Links -> {0, 1}]
        /\ \A k \in Links : \/ used'[k] = used[k]
                            \/ /\ used[k] = 0 /\ used'[k] = 1
                               /\ link[k].state = "current" /\ link'[k].state = "gone"
    BY <1>2, <1>3, <1>5, LinkTaken DEF ServerInv
  <1>7. ConfirmedByUse
    BY <1>4 DEF ConfirmedByUse
  <1>8. LinkInv' /\ LinksGrow
    BY <1>4, <1>5, <1>6, <1>7, LinksStep DEF ServerInv
  <1> QED BY <1>3, <1>4, <1>8, WritesKeep

LEMMA ConfirmKeeps == ASSUME ServerInv, NEW c \in Calls, ConfirmEmail(c) PROVE ServerInv' /\ CredsGrow
  <1>1. PICK u \in Users : u = call[c].user /\ Registered(u)
    BY DEF ConfirmEmail, ServerInv, CallInv
  <1>2. PICK l \in Links : l = call[c].arg /\ link[l].user = u
    BY <1>1 DEF ConfirmEmail, ServerInv, CallInv
  <1>3. /\ link[l].kind = "verification" /\ link[l].state = "current" /\ link[l].email = account[u].email
        /\ account' = [account EXCEPT ![u].verified = TRUE]
        /\ token' = token /\ link' = Unlinked(u, {"verification"})
        /\ Take(c) /\ Return(c)
    BY <1>1, <1>2 DEF ConfirmEmail, Valid, Current
  <1>4. /\ account' \in [Users -> AccountRec]
        /\ \A v \in Users : /\ account'[v].version = account[v].version
                            /\ account'[v].email = account[v].email
                            /\ v # u => account'[v].verified = account[v].verified
    BY <1>3 DEF ServerInv, CredInv, AccountRec
  <1>5. CredInv'
    BY <1>3, <1>4 DEF ServerInv, CredInv, SessionsOfCurrentCredentials, Issued, Live, Registered
  <1>6. CredsGrow
    BY <1>3, <1>4 DEF ServerInv, CredInv, CredsGrow, Issued, Live, Registered, AccountRec
  <1>7. link' \in [Links -> LinkRec] /\ (\A k \in Links : LinkMoves(k)) /\ link'[l].state = "gone"
    BY <1>2, <1>3, ResetLinksGo DEF ServerInv
  <1>8. /\ used' \in [Links -> {0, 1}] /\ used'[l] = 1
        /\ \A k \in Links : \/ used'[k] = used[k]
                            \/ /\ used[k] = 0 /\ used'[k] = 1
                               /\ link[k].state = "current" /\ link'[k].state = "gone"
    BY <1>2, <1>3, <1>7, LinkTaken DEF ServerInv
  <1>9. link'[l].kind = "verification" /\ link'[l].user = u /\ link'[l].email = account[u].email
    BY <1>2, <1>3 DEF Unlinked, ServerInv, LinkInv, LinkRec
  <1>10. ConfirmedByUse
    BY <1>4, <1>8, <1>9 DEF ConfirmedByUse
  <1>11. LinkInv' /\ LinksGrow
    BY <1>6, <1>7, <1>8, <1>10, LinksStep DEF ServerInv
  <1> QED BY <1>3, <1>5, <1>6, <1>11, WritesKeep

\* A step that only writes links.
LEMMA LinksWritten ==
    ASSUME ServerInv, UNCHANGED <<account, token, used>>,
           link' \in [Links -> LinkRec], \A l \in Links : LinkMoves(l),
           UNCHANGED call \/ \E c \in Calls : Return(c)
    PROVE  ServerInv' /\ CredsGrow
  <1>1. CredInv' /\ CredsGrow
    BY CredsSame DEF ServerInv
  <1>2. LinkInv' /\ LinksGrow
    BY <1>1, LinksUnused DEF ServerInv
  <1> QED BY <1>1, <1>2, WritesKeep

LEMMA LinkStepsKeep ==
    ASSUME ServerInv,
           \/ \E u \in Users : RequestPasswordReset(u)
           \/ \E c \in Calls : Resend(c)
           \/ \E l \in Links : ExpireLink(l)
           \/ CleanLinks
    PROVE  ServerInv' /\ CredsGrow
  <1>1. ASSUME NEW u \in Users, RequestPasswordReset(u)
        PROVE  ServerInv' /\ CredsGrow
    <2>1. Registered(u)'  /\ account[u].email \in Emails \cup {None}
      BY <1>1 DEF RequestPasswordReset, Registered, ServerInv, CredInv, AccountRec
    <2>2. link' \in [Links -> LinkRec] /\ \A l \in Links : LinkMoves(l)
      BY <1>1, <2>1, Relinked DEF RequestPasswordReset, Requeue, ServerInv, Kinds
    <2> QED BY <1>1, <2>2, LinksWritten DEF RequestPasswordReset
  <1>2. ASSUME NEW c \in Calls, Resend(c)
        PROVE  ServerInv' /\ CredsGrow
    <2>1. PICK u \in Users : u = call[c].user /\ Registered(u)
      BY <1>2 DEF Resend, ServerInv, CallInv
    <2>2. Registered(u)' /\ account[u].email \in Emails \cup {None}
      BY <1>2, <2>1 DEF Resend, Registered, ServerInv, CredInv, AccountRec
    <2>3. link' \in [Links -> LinkRec] /\ \A l \in Links : LinkMoves(l)
      BY <1>2, <2>1, <2>2, Relinked DEF Resend, Requeue, ServerInv, Kinds
    <2> QED BY <1>2, <2>3, LinksWritten DEF Resend
  <1>3. ASSUME NEW l \in Links, ExpireLink(l)
        PROVE  ServerInv' /\ CredsGrow
    <2>1. link' \in [Links -> LinkRec] /\ \A k \in Links : LinkMoves(k)
      BY <1>3 DEF ExpireLink, LinkMoves, ServerInv, LinkInv, LinkRec
    <2> QED BY <1>3, <2>1, LinksWritten DEF ExpireLink
  <1>4. CASE CleanLinks
    <2>1. link' \in [Links -> LinkRec] /\ \A k \in Links : LinkMoves(k)
      BY <1>4 DEF CleanLinks, Current, LinkMoves, ServerInv, LinkInv, LinkRec
    <2> QED BY <1>4, <2>1, LinksWritten DEF CleanLinks
  <1> QED BY <1>1, <1>2, <1>3, <1>4

\* What one request reads.
LEMMA RequestReads ==
    ASSUME ServerInv, NEW c \in Calls,
           \/ \E u \in Users : LoginRead(c, u) \/ ResendRead(c, u)
           \/ \E t \in Tokens : RotateFind(c, t) \/ ChangeRead(c, t)
           \/ \E l \in Links : ResetFind(c, l) \/ ConfirmFind(c, l)
    PROVE  ServerInv' /\ CredsGrow
  <1>1. ASSUME NEW u \in Users, LoginRead(c, u) \/ ResendRead(c, u)
        PROVE  ServerInv' /\ CredsGrow
    BY <1>1, ReadsKeep DEF LoginRead, ResendRead
  <1>2. ASSUME NEW t \in Tokens, RotateFind(c, t) \/ ChangeRead(c, t)
        PROVE  ServerInv' /\ CredsGrow
    <2>1. PICK u \in Users : u = token[t].user /\ Registered(u)
      BY <1>2 DEF RotateFind, ChangeRead, Live, Issued, ServerInv, CredInv
    <2>2. Reads(c, "rotate", u, t, FALSE) \/ Reads(c, "change", u, 0, FALSE)
      BY <1>2, <2>1 DEF RotateFind, ChangeRead
    <2>3. t \in Nat
      BY BoundsAreNumbers DEF Tokens
    <2> QED BY <2>1, <2>2, <2>3, ReadsKeep
  <1>3. ASSUME NEW l \in Links, ResetFind(c, l) \/ ConfirmFind(c, l)
        PROVE  ServerInv' /\ CredsGrow
    <2>1. PICK u \in Users : u = link[l].user /\ Registered(u)
      BY <1>3 DEF ResetFind, ConfirmFind, Finds, Current, ServerInv, LinkInv
    <2>2. PICK late \in BOOLEAN : Reads(c, "reset", u, l, late) \/ Reads(c, "confirm", u, l, late)
      BY <1>3, <2>1 DEF ResetFind, ConfirmFind, Finds, ServerInv, LinkInv, LinkRec
    <2>3. link[l].state # "unused"
      BY <1>3 DEF ResetFind, ConfirmFind, Finds, Current
    <2>4. l \in Nat
      BY BoundsAreNumbers DEF Links
    <2> QED BY <2>1, <2>2, <2>3, <2>4, ReadsKeep
  <1> QED BY <1>1, <1>2, <1>3

LEMMA AccountsStep == ASSUME ServerInv, AccountsNext PROVE ServerInv' /\ CredsGrow
  <1>1. ASSUME NEW c \in Calls, GiveUp(c)
        PROVE  ServerInv' /\ CredsGrow
    <2>1. CredInv' /\ CredsGrow
      BY <1>1, CredsSame DEF GiveUp, ServerInv
    <2> QED BY <1>1, <2>1, TokensWritten DEF GiveUp
  <1>2. ASSUME NEW c \in Calls,
               \/ LoginSave(c) \/ Rotate(c) \/ ChangePassword(c) \/ ResetPassword(c) \/ ConfirmEmail(c)
               \/ \E email \in Emails : ChangeEmail(c, email)
        PROVE  ServerInv' /\ CredsGrow
    BY <1>2, LoginKeeps, RotateKeeps, ChangeEmailKeeps, ChangePasswordKeeps, ResetKeeps, ConfirmKeeps
  <1>3. ASSUME \/ \E t \in Tokens : Logout(t)
               \/ \E u \in Users : Register(u) \/ LogoutAll(u)
        PROVE  ServerInv' /\ CredsGrow
    BY <1>3, LogoutKeeps, LogoutAllKeeps, RegisterKeeps
  <1>4. CASE \E c \in Calls : \/ \E u \in Users : LoginRead(c, u) \/ ResendRead(c, u)
                              \/ \E t \in Tokens : RotateFind(c, t) \/ ChangeRead(c, t)
                              \/ \E l \in Links : ResetFind(c, l) \/ ConfirmFind(c, l)
    BY <1>4, RequestReads
  <1> QED BY <1>1, <1>2, <1>3, <1>4, LinkStepsKeep DEF AccountsNext

\* The workers write no row of the server but their outboxes.
LEMMA MailsStep == ASSUME ServerInv, MailsNext PROVE ServerInv' /\ CredsGrow
  <1>1. CASE UNCHANGED <<account, token, call, used, link>>
    <2>1. CredInv' /\ CredsGrow
      BY <1>1, CredsSame DEF ServerInv
    <2> QED BY <1>1, <2>1, TokensWritten
  <1>2. CASE AccountsNext
    BY <1>2, AccountsStep
  <1> QED BY <1>1, <1>2 DEF MailsNext, Deliver, Claim, ClaimNothing, Check, Send, Finish, Drop, TimePasses,
                            BecomesDue, Lapse, serverVars, mailVars

-----------------------------------------------------------------------------
(* The initial states. *)

LEMMA ServerInitHolds == AccountsInit => ServerInv
  <1> SUFFICES ASSUME AccountsInit PROVE ServerInv
    OBVIOUS
  <1>1. PICK past \in Pasts, n \in 0 .. MaxLinks : \E First \in [1 .. n -> Users] : Beginning(past, n, First)
    BY DEF AccountsInit
  <1>2. PICK First \in [1 .. n -> Users] : Beginning(past, n, First)
    BY <1>1
  <1> DEFINE confirmed == past = "confirmed"
  <1>3. \A i \in 1 .. n : i \in Tokens /\ i \in Links
    BY <1>2, BoundsAreNumbers DEF Beginning, Tokens, Links
  <1>4. ASSUME NEW u \in Users
        PROVE  /\ account[u] \in AccountRec /\ account[u].version = 0
               /\ Registered(u) <=> \E i \in 1 .. n : First[i] = u
               /\ account[u].verified => confirmed /\ Registered(u) /\ account[u].email = Address[u]
    <2>1. Address[u] \in Emails /\ Address[u] # None
      BY AddressesDiffer, NoneIsNobody
    <2>2. CASE \E i \in 1 .. n : First[i] = u
      <3>1. account[u] = [NewAccount(u) EXCEPT !.verified = confirmed]
        BY <1>2, <2>2 DEF Beginning
      <3>2. account[u] = [email |-> Address[u], verified |-> confirmed, version |-> 0]
        BY <3>1 DEF NewAccount, NoAccount
      <3> HIDE DEF confirmed
      <3>3. account[u].email = Address[u] /\ account[u].version = 0 /\ account[u].verified = confirmed
        BY <3>2
      <3>4. confirmed \in BOOLEAN
        BY DEF confirmed
      <3> QED BY <2>1, <2>2, <3>2, <3>3, <3>4 DEF AccountRec, Registered
    <2>3. CASE ~\E i \in 1 .. n : First[i] = u
      <3>1. account[u] = NoAccount
        BY <1>2, <2>3 DEF Beginning
      <3> QED BY <2>3, <3>1 DEF NoAccount, AccountRec, Registered
    <2> QED BY <2>2, <2>3
  <1>5. ASSUME NEW t \in Tokens
        PROVE  /\ token[t] \in TokenRec
               /\ Issued(t) => /\ token[t].user \in Users /\ Registered(token[t].user)
                               /\ token[t].version = 0
    <2>1. CASE t \in 1 .. n
      <3>1. token[t] = NewSession(First[t], 0, 0) /\ First[t] \in Users
        BY <1>2, <2>1 DEF Beginning
      <3> QED BY <1>4, <2>1, <3>1 DEF NewSession, TokenRec
    <2>2. CASE t \notin 1 .. n
      <3>1. token[t] = SpentToken \/ token[t] = NoToken
        BY <1>2, <2>2 DEF Beginning
      <3> QED BY <3>1 DEF SpentToken, NoToken, TokenRec, Issued
    <2> QED BY <2>1, <2>2
  <1>6. CredInv
    <2>1. account \in [Users -> AccountRec] /\ token \in [Tokens -> TokenRec]
      BY <1>2, <1>4, <1>5 DEF Beginning
    <2>2. \A t \in Tokens : Live(t) => Issued(t)
      BY DEF Live, Issued
    <2> QED BY <1>4, <1>5, <2>1, <2>2 DEF CredInv, SessionsOfCurrentCredentials
  <1>7. ASSUME NEW l \in Links
        PROVE  /\ link[l] \in LinkRec
               /\ used[l] \in {0, 1}
               /\ link[l].state = "unused" => used[l] = 0
               /\ link[l].state = "current" => /\ used[l] = 0 /\ link[l].user \in Users
                                               /\ Registered(link[l].user)
               /\ l \in 1 .. n => /\ link[l].user = First[l] /\ link[l].kind = "verification"
                                  /\ link[l].email = Address[First[l]]
                                  /\ used[l] = IF confirmed THEN 1 ELSE 0
    <2>1. CASE l \in 1 .. n
      <3>1. First[l] \in Users /\ Address[First[l]] \in Emails
        BY <2>1, AddressesDiffer
      <3>2. link[l] = [NewLink("verification", First[l], Address[First[l]]) EXCEPT
                         !.state = IF confirmed THEN "gone" ELSE @]
        BY <1>2, <2>1 DEF Beginning
      <3>3. used[l] = IF confirmed THEN 1 ELSE 0
        BY <1>2, <2>1 DEF Beginning
      <3> HIDE DEF confirmed
      <3>4. link[l] = [kind |-> "verification", user |-> First[l], email |-> Address[First[l]],
                       state |-> IF confirmed THEN "gone" ELSE "current", expired |-> FALSE]
        BY <3>2 DEF NewLink
      <3>5. Registered(First[l])
        BY <1>4, <2>1, <3>1
      <3> QED BY <3>1, <3>3, <3>4, <3>5 DEF LinkRec, Kinds
    <2>2. CASE l \notin 1 .. n
      <3>1. (link[l] = SpentLink \/ link[l] = NoLink) /\ used[l] = 0
        BY <1>2, <2>2 DEF Beginning
      <3>2. /\ SpentLink \in LinkRec /\ SpentLink.state = "spent"
            /\ NoLink \in LinkRec /\ NoLink.state = "unused"
        BY DEF SpentLink, NoLink, LinkRec, Kinds
      <3>3. link[l] \in LinkRec /\ link[l].state # "current"
        BY <3>1, <3>2
      <3> QED BY <2>2, <3>1, <3>3
    <2> QED BY <2>1, <2>2
  <1>8. LinkInv
    <2>1. link \in [Links -> LinkRec] /\ used \in [Links -> {0, 1}]
      BY <1>2, <1>7 DEF Beginning
    <2>2. ASSUME NEW u \in Users, account[u].verified
          PROVE  \E l \in Links : /\ used[l] = 1 /\ link[l].kind = "verification"
                                  /\ link[l].user = u /\ link[l].email = account[u].email
      <3>1. PICK i \in 1 .. n : First[i] = u
        BY <1>4, <2>2
      <3> QED BY <1>3, <1>4, <1>7, <2>2, <3>1
    <2>3. \A l \in Links : used[l] <= 1
      BY <2>1
    <2> QED BY <1>7, <2>1, <2>2, <2>3 DEF LinkInv, LinksWorkOnce
  <1>9. CallInv
    <2>1. /\ NoCall \in CallRec /\ NoCall.at = "idle"
          /\ Absent \in CallRec /\ Absent.at = "absent"
      BY DEF NoCall, Absent, CallRec
    <2> QED BY <1>2, <2>1 DEF Beginning, CallInv
  <1> QED BY <1>6, <1>8, <1>9 DEF ServerInv

-----------------------------------------------------------------------------
(* The browser. *)

ReqRec == [at : {"idle", "sent", "answered", "queued", "fetching", "rotated", "resume"},
           kind : Requests, user : Users \cup {None}, stale : BOOLEAN, again : BOOLEAN,
           token : Tokens \cup {0}, ok : BOOLEAN, answer : Tokens \cup {0}]

BrowserTypeOK ==
    /\ store \in Tokens \cup {0}
    /\ store # 0 => Issued(store)
    /\ seen \in [Tabs -> Users \cup {None}]
    /\ req \in [Tabs -> ReqRec]
    /\ expired \subseteq Tokens
    /\ lost \subseteq Tokens

\* A request is for the user whose token it carries, and unless it is stale the
\* tab has seen no other since.
Whose(b) ==
    req[b].at # "idle" =>
        /\ req[b].user \in Users /\ Registered(req[b].user)
        /\ req[b].kind = "login" => req[b].at \in {"sent", "answered"}
        /\ req[b].kind # "login" => /\ req[b].token \in Tokens /\ Issued(req[b].token)
                                    /\ token[req[b].token].user = req[b].user
                                    /\ ~req[b].stale => seen[b] = req[b].user

\* What a tab was answered is still so: a refusal is for good, and a token that
\* was handed out is from where the tab believes it to be.
AnswersLast(b) ==
    /\ req[b].at = "answered" /\ req[b].ok /\ req[b].kind \in {"login", "password"} =>
         req[b].answer \in Tokens /\ Issued(req[b].answer) /\ token[req[b].answer].from = 0
    /\ req[b].at = "answered" /\ ~req[b].ok => req[b].kind # "login" /\ ~Access(req[b].token)
    /\ req[b].at = "rotated" /\ req[b].ok =>
         /\ req[b].answer \in Tokens /\ Issued(req[b].answer)
         /\ token[req[b].answer].from = req[b].token
    /\ req[b].at = "rotated" /\ ~req[b].ok => ~Live(req[b].token)

SessionInv ==
    /\ ServerInv
    /\ BrowserTypeOK
    /\ \A b \in Tabs : Whose(b) /\ AnswersLast(b)

LEMMA NoReqIs == NoReq \in ReqRec /\ NoReq.at = "idle"
  BY DEF NoReq, ReqRec, Requests

LEMMA SessionInitHolds == SessionInit => SessionInv
  <1> SUFFICES ASSUME SessionInit PROVE SessionInv
    OBVIOUS
  <1>1. ServerInv
    BY ServerInitHolds DEF SessionInit, MailsInit
  <1>2. store \in Tokens /\ Live(store) /\ seen = [b \in Tabs |-> token[store].user]
    BY DEF SessionInit
  <1>3. Issued(store) /\ token[store].user \in Users
    BY <1>1, <1>2 DEF Live, Issued, ServerInv, CredInv
  <1>4. NoReq \in ReqRec /\ NoReq.at = "idle"
    BY NoReqIs
  <1>5. req = [b \in Tabs |-> NoReq] /\ expired = {} /\ lost = {}
    BY DEF SessionInit
  <1>6. BrowserTypeOK
    BY <1>2, <1>3, <1>4, <1>5 DEF BrowserTypeOK
  <1>7. \A b \in Tabs : Whose(b) /\ AnswersLast(b)
    BY <1>4, <1>5 DEF Whose, AnswersLast
  <1> QED BY <1>1, <1>6, <1>7 DEF SessionInv

\* An access token that does not count never counts again.
LEMMA AccessLost ==
    ASSUME CredInv, CredInv', CredsGrow, expired \subseteq expired',
           NEW t \in Tokens, Issued(t), ~Access(t)
    PROVE  ~Access(t)'
  <1> DEFINE u == token[t].user
  <1>1. /\ u \in Users /\ Registered(u)
        /\ token[t].version \in Nat /\ account[u].version \in Nat
        /\ token[t].version <= account[u].version
    BY DEF CredInv, TokenRec, AccountRec
  <1>2. /\ token'[t].user = u /\ token'[t].version = token[t].version
        /\ account[u].version <= account'[u].version /\ account'[u].version \in Nat
    BY <1>1 DEF CredsGrow, CredInv, AccountRec
  <1>3. CASE t \in expired
    BY <1>3 DEF Access
  <1>4. CASE token[t].version # account[u].version
    <2>1. token[t].version # account'[u].version
      BY <1>1, <1>2, <1>4
    <2>2. token'[t].version # account'[token'[t].user].version
      BY <1>2, <2>1
    <2> QED BY <2>2 DEF Access
  <1> QED BY <1>3, <1>4 DEF Access

\* A request goes on as what it was.
LEMMA WhoseKeeps ==
    ASSUME NEW b \in Tabs, Whose(b), CredsGrow, req[b].at # "idle",
           req'[b].user = req[b].user, req'[b].kind = req[b].kind, req'[b].token = req[b].token,
           req[b].kind = "login" => req'[b].at \in {"sent", "answered"},
           \/ req'[b].stale = req[b].stale /\ seen'[b] = seen[b]
           \/ req'[b].stale = TRUE
    PROVE  Whose(b)'
  BY DEF Whose, CredsGrow, Registered, Issued

\* A tab where nothing happens.
LEMMA TabKeeps ==
    ASSUME SessionInv, CredInv', CredsGrow, expired \subseteq expired', NEW b \in Tabs,
           req'[b] = req[b], seen'[b] = seen[b]
    PROVE  Whose(b)' /\ AnswersLast(b)'
  <1>1. Whose(b)'
    BY DEF SessionInv, Whose, CredsGrow, Registered, Issued
  <1>2. req[b].at = "answered" /\ ~req[b].ok => ~Access(req[b].token)'
    <2>1. req[b].at = "answered" /\ ~req[b].ok =>
            req[b].token \in Tokens /\ Issued(req[b].token) /\ ~Access(req[b].token)
      BY DEF SessionInv, AnswersLast, Whose
    <2>2. \A t \in Tokens : Issued(t) /\ ~Access(t) => ~Access(t)'
      BY AccessLost DEF SessionInv, ServerInv
    <2> QED BY <2>1, <2>2 DEF Access
  <1>3. AnswersLast(b)'
    <2>1. \A t \in Tokens : Issued(t) => /\ token'[t].state \in {"live", "dead"}
                                         /\ token'[t].from = token[t].from
                                         /\ token[t].state # "live" => token'[t].state # "live"
      BY DEF CredsGrow, Issued, Live
    <2>2. req[b].at = "rotated" => req[b].token \in Tokens /\ Issued(req[b].token)
      BY DEF SessionInv, Whose
    <2>3. req[b].at = "rotated" /\ ~req[b].ok => token'[req[b].token].state # "live"
      BY <2>1, <2>2 DEF SessionInv, AnswersLast, Live
    <2>4. /\ req[b].at = "answered" /\ req[b].ok /\ req[b].kind \in {"login", "password"} =>
               /\ req[b].answer \in Tokens /\ token'[req[b].answer].from = 0
               /\ token'[req[b].answer].state \in {"live", "dead"}
          /\ req[b].at = "rotated" /\ req[b].ok =>
               /\ req[b].answer \in Tokens /\ token'[req[b].answer].from = req[b].token
               /\ token'[req[b].answer].state \in {"live", "dead"}
      BY <2>1 DEF SessionInv, AnswersLast
    <2>5. req[b].at = "answered" /\ ~req[b].ok => req[b].kind # "login"
      BY DEF SessionInv, AnswersLast
    <2>6. req[b].at = "answered" /\ ~req[b].ok => ~Access(req[b].token)'
      BY <1>2
    <2> QED BY <2>3, <2>4, <2>5, <2>6 DEF AnswersLast, Issued, Live, Access
  <1> QED BY <1>1, <1>3

LEMMA ServerStill == ASSUME ServerInv, UNCHANGED vars PROVE ServerInv' /\ CredsGrow
  <1>1. UNCHANGED <<account, token, link, used, call>>
    BY DEF vars, serverVars, mailVars
  <1>2. CredInv' /\ CredsGrow
    BY <1>1, CredsSame DEF ServerInv
  <1> QED BY <1>1, <1>2, TokensWritten

\* Who the store belongs to.
LEMMA IdentityIs ==
    ASSUME SessionInv
    PROVE  /\ Identity(store) \in Users \cup {None}
           /\ Identity(store) # None => /\ store \in Tokens /\ Issued(store)
                                        /\ token[store].user = Identity(store)
           /\ store # 0 => /\ store \in Tokens /\ Identity(store) \in Users
                           /\ Registered(Identity(store))
           /\ 0 \notin Tokens
  BY NoneIsNobody, BoundsAreNumbers DEF SessionInv, BrowserTypeOK, ServerInv, CredInv, Identity, Tokens

\* A step of one tab.
LEMMA TabStep ==
    ASSUME SessionInv, ServerInv', CredsGrow, NEW b \in Tabs, NEW r \in ReqRec, Becomes(b, r),
           store' \in Tokens \cup {0}, store' # 0 => Issued(store)',
           seen' \in [Tabs -> Users \cup {None}], \A d \in Tabs : d # b => seen'[d] = seen[d],
           expired' = expired, lost' \subseteq Tokens,
           Whose(b)', AnswersLast(b)'
    PROVE  SessionInv'
  <1>1. req' \in [Tabs -> ReqRec] /\ \A d \in Tabs : d # b => req'[d] = req[d]
    BY DEF SessionInv, BrowserTypeOK, Becomes
  <1>2. BrowserTypeOK'
    BY <1>1 DEF SessionInv, BrowserTypeOK
  <1>3. \A d \in Tabs : d # b => Whose(d)' /\ AnswersLast(d)'
    BY <1>1, TabKeeps DEF ServerInv
  <1> QED BY <1>2, <1>3 DEF SessionInv

\* Its request ends.
LEMMA TabEnds ==
    ASSUME SessionInv, ServerInv', CredsGrow, NEW b \in Tabs, Ends(b),
           store' \in Tokens \cup {0}, store' # 0 => Issued(store)',
           seen' = seen \/ seen' = Synced(b) \/ seen' = [seen EXCEPT ![b] = None],
           expired' = expired, lost' \subseteq Tokens
    PROVE  SessionInv'
  <1>1. NoReq \in ReqRec /\ NoReq.at = "idle"
    BY NoReqIs
  <1>2. seen' \in [Tabs -> Users \cup {None}] /\ \A d \in Tabs : d # b => seen'[d] = seen[d]
    BY IdentityIs DEF SessionInv, BrowserTypeOK, Synced
  <1>3. req'[b].at = "idle"
    BY <1>1 DEF Ends, Becomes, SessionInv, BrowserTypeOK
  <1>4. Whose(b)' /\ AnswersLast(b)'
    BY <1>3 DEF Whose, AnswersLast
  <1> QED BY <1>1, <1>2, <1>4, TabStep DEF Ends

\* The store stays, or takes a token that was made.
LEMMA StoreKeeps ==
    ASSUME SessionInv, CredsGrow, UNCHANGED store
    PROVE  store' \in Tokens \cup {0} /\ (store' # 0 => Issued(store)')
  BY DEF SessionInv, BrowserTypeOK, CredsGrow

\* A request ends, and the tokens that it was answered are stored.
LEMMA TabSaves ==
    ASSUME SessionInv, UNCHANGED vars, NEW b \in Tabs, Ends(b), SaveTokens(b, req[b].answer),
           req[b].answer \in Tokens, Issued(req[b].answer), expired' = expired, lost' = lost
    PROVE  SessionInv'
  <1>1. ServerInv' /\ CredsGrow
    BY ServerStill DEF SessionInv
  <1>2. store' \in Tokens /\ Issued(store)' /\ seen' = Synced(b)
    <2>1. token' = token /\ store' = req[b].answer
      BY DEF vars, serverVars, SaveTokens
    <2> QED BY <2>1 DEF SaveTokens, Issued
  <1> QED BY <1>1, <1>2, TabEnds DEF SessionInv, BrowserTypeOK

\* A request is over without tokens to save.
LEMMA TabStops ==
    ASSUME SessionInv, UNCHANGED vars, NEW b \in Tabs,
           \/ Throw(b)
           \/ EndSession(b)
           \/ Ends(b) /\ UNCHANGED <<store, seen>>,
           expired' = expired, lost' \subseteq Tokens
    PROVE  SessionInv'
  <1>1. ServerInv' /\ CredsGrow
    BY ServerStill DEF SessionInv
  <1>2. Ends(b) /\ (store' = store \/ store' = 0)
    BY DEF Throw, EndSession
  <1>3. store' \in Tokens \cup {0} /\ (store' # 0 => Issued(store)')
    BY <1>1, <1>2, StoreKeeps
  <1>4. seen' = seen \/ seen' = Synced(b) \/ seen' = [seen EXCEPT ![b] = None]
    BY DEF Throw, EndSession
  <1> QED BY <1>1, <1>2, <1>3, <1>4, TabEnds

\* A request goes on in the tab, and nothing else happens.
LEMMA TabMoves ==
    ASSUME SessionInv, UNCHANGED <<vars, store, expired, lost>>, NEW b \in Tabs, NEW r \in ReqRec,
           Becomes(b, r), r.at \in {"sent", "queued", "fetching", "resume"},
           seen' = seen \/ seen' = Synced(b), Whose(b)'
    PROVE  SessionInv'
  <1>1. ServerInv' /\ CredsGrow
    BY ServerStill DEF SessionInv
  <1>2. store' \in Tokens \cup {0} /\ (store' # 0 => Issued(store)')
    BY <1>1, StoreKeeps
  <1>3. seen' \in [Tabs -> Users \cup {None}] /\ \A d \in Tabs : d # b => seen'[d] = seen[d]
    BY IdentityIs DEF SessionInv, BrowserTypeOK, Synced
  <1>4. req'[b].at \notin {"answered", "rotated"}
    BY DEF Becomes, SessionInv, BrowserTypeOK
  <1>5. AnswersLast(b)'
    BY <1>4 DEF AnswersLast
  <1> QED BY <1>1, <1>2, <1>3, <1>5, TabStep DEF SessionInv, BrowserTypeOK

\* The request of a tab is sent with the token that is stored, as its user.
LEMMA TabSends ==
    ASSUME SessionInv, UNCHANGED <<vars, store, expired, lost>>, NEW b \in Tabs, NEW r \in ReqRec,
           Becomes(b, r), r.at = "sent", r.kind # "login", r.token = store, store # 0,
           r.user = Identity(store), seen' = seen \/ seen' = Synced(b), seen'[b] = r.user
    PROVE  SessionInv'
  <1>1. req'[b] = r
    BY DEF Becomes, SessionInv, BrowserTypeOK
  <1>2. token' = token /\ account' = account
    BY DEF vars, serverVars
  <1>3. r.user \in Users /\ Registered(r.user) /\ r.token \in Tokens /\ Issued(r.token)
        /\ token[r.token].user = r.user
    BY IdentityIs, NoneIsNobody
  <1>4. Whose(b)'
    BY <1>1, <1>2, <1>3 DEF Whose, Registered, Issued
  <1> QED BY <1>4, TabMoves

LEMMA BeginKeeps ==
    ASSUME SessionInv, NEW b \in Tabs, NEW kind \in {"plain", "logout", "password"}, Begin(b, kind)
    PROVE  SessionInv'
  <1> DEFINE x == [NoReq EXCEPT !.kind = kind, !.user = Identity(store), !.at = "sent", !.token = store]
  <1>1. store \in Tokens /\ Identity(store) \in Users
    BY IdentityIs DEF Begin
  <1>2. x.at = "sent" /\ x.kind = kind /\ x.user = Identity(store) /\ x.token = store
    BY NoReqIs DEF ReqRec
  <1>3. x \in ReqRec
    BY <1>1, NoReqIs DEF ReqRec, Requests
  <1>4. Becomes(b, x)
    BY DEF Begin, Sent
  <1> HIDE DEF x
  <1>5. PICK r \in ReqRec : r = x
    BY <1>3
  <1>6. /\ Becomes(b, r) /\ r.at = "sent" /\ r.kind # "login" /\ r.token = store
        /\ r.user = Identity(store)
    BY <1>2, <1>4, <1>5
  <1>7. store # 0 /\ seen' = Synced(b) /\ seen'[b] = Identity(store)
    BY DEF Begin, Synced, SessionInv, BrowserTypeOK
  <1> QED BY <1>6, <1>7, TabSends DEF Begin

LEMMA BeginLoginKeeps ==
    ASSUME SessionInv, NEW b \in Tabs, NEW u \in Users, BeginLogin(b, u)
    PROVE  SessionInv'
  <1> DEFINE r == [NoReq EXCEPT !.at = "sent", !.kind = "login", !.user = u]
  <1>2. r \in ReqRec /\ r.at = "sent" /\ r.kind = "login" /\ r.user = u
    BY NoReqIs DEF ReqRec, Requests
  <1>3. Becomes(b, r) /\ seen' = Synced(b) /\ Registered(u)
    BY DEF BeginLogin
  <1> HIDE DEF r
  <1>4. req'[b] = r
    BY <1>3 DEF Becomes, SessionInv, BrowserTypeOK
  <1>5. account' = account
    BY DEF BeginLogin, vars, serverVars
  <1>6. Whose(b)'
    BY <1>2, <1>3, <1>4, <1>5 DEF Whose, Registered
  <1> QED BY <1>2, <1>3, <1>6, TabMoves DEF BeginLogin

\* The request is sent once more, with the token that is stored now.
LEMMA ResendKeeps ==
    ASSUME SessionInv, NEW b \in Tabs, req[b].at # "idle", req[b].kind # "login", ~Stale(b),
           Sent(b, [req[b] EXCEPT !.again = TRUE]), UNCHANGED <<vars, store, seen, expired, lost>>
    PROVE  SessionInv'
  <1> DEFINE x == [req[b] EXCEPT !.again = TRUE, !.at = "sent", !.token = store]
  <1>1. /\ x \in ReqRec /\ x.at = "sent" /\ x.user = req[b].user /\ x.kind = req[b].kind
        /\ x.token = store
    BY DEF SessionInv, BrowserTypeOK, ReqRec
  <1>2. Becomes(b, x)
    BY DEF Sent
  <1> HIDE DEF x
  <1>3. PICK r \in ReqRec : r = x
    BY <1>1
  <1>4. seen[b] = req[b].user /\ seen[b] = Identity(store) /\ req[b].user \in Users
    BY DEF Stale, SessionInv, Whose
  <1>5. store # 0
    BY <1>4, NoneIsNobody DEF Identity
  <1> QED BY <1>1, <1>2, <1>3, <1>4, <1>5, TabSends

\* The server answers the request of a tab.
LEMMA Answering ==
    ASSUME SessionInv, ServerInv', CredsGrow, NEW b \in Tabs, req[b].at = "sent",
           NEW ok \in BOOLEAN, NEW answer \in Tokens \cup {0}, Answered(b, ok, answer),
           UNCHANGED <<store, seen, expired, lost>>,
           ok /\ req[b].kind \in {"login", "password"} =>
             answer \in Tokens /\ Issued(answer)' /\ token'[answer].from = 0,
           ~ok => req[b].kind # "login" /\ ~Access(req[b].token)
    PROVE  SessionInv'
  <1> DEFINE x == [req[b] EXCEPT !.at = "answered", !.ok = ok, !.answer = answer]
  <1>1. /\ x \in ReqRec /\ x.at = "answered" /\ x.ok = ok /\ x.answer = answer
        /\ x.user = req[b].user /\ x.kind = req[b].kind /\ x.token = req[b].token
        /\ x.stale = req[b].stale
    BY DEF SessionInv, BrowserTypeOK, ReqRec
  <1>2. Becomes(b, x)
    BY DEF Answered
  <1> HIDE DEF x
  <1>3. PICK r \in ReqRec : r = x
    BY <1>1
  <1>4. Becomes(b, r) /\ req'[b] = r
    BY <1>2, <1>3 DEF Becomes, SessionInv, BrowserTypeOK
  <1>5. Whose(b)'
    BY <1>1, <1>3, <1>4, WhoseKeeps DEF SessionInv
  <1>6. ~ok => ~Access(req[b].token)' /\ req'[b].token = req[b].token
    <2>1. ~ok => req[b].token \in Tokens /\ Issued(req[b].token)
      BY DEF SessionInv, Whose
    <2>2. \A t \in Tokens : Issued(t) /\ ~Access(t) => ~Access(t)'
      BY AccessLost DEF SessionInv, ServerInv
    <2> QED BY <1>1, <1>3, <1>4, <2>1, <2>2 DEF Access
  <1>7. AnswersLast(b)'
    BY <1>1, <1>3, <1>4, <1>6 DEF AnswersLast, Issued, Access
  <1>8. store' \in Tokens \cup {0} /\ (store' # 0 => Issued(store)')
    BY StoreKeeps
  <1> QED BY <1>4, <1>5, <1>7, <1>8, TabStep DEF SessionInv, BrowserTypeOK

LEMMA ServeKeeps == ASSUME SessionInv, NEW b \in Tabs, Serve(b) PROVE SessionInv' /\ CredsGrow
  <1>1. PICK u \in Users : u = req[b].user /\ Registered(u)
    BY DEF Serve, SessionInv, Whose
  <1>2. /\ req[b].at = "sent" /\ UNCHANGED <<store, seen, expired, lost>>
        /\ UNCHANGED call /\ used' = used
    BY DEF Serve
  <1>3. req[b].kind # "login" => req[b].token \in Tokens
    BY <1>2 DEF SessionInv, Whose
  <1>4. ASSUME FreshTokens # {}
        PROVE  \E n \in Tokens : n = FreshToken
    BY <1>4, FreshTokenIs
  <1>5. CASE /\ req[b].kind = "login" /\ FreshTokens # {}
             /\ token' = [token EXCEPT ![FreshToken] = NewSession(u, account[u].version, 0)]
             /\ Answered(b, TRUE, FreshToken)
             /\ UNCHANGED <<account, mailVars>>
    <2>1. PICK n \in Tokens : n = FreshToken
      BY <1>4, <1>5
    <2>2. CredInv' /\ CredsGrow /\ Made(n, u, account[u].version, 0)
      BY <1>1, <1>5, <2>1, SessionMade DEF SessionInv, ServerInv
    <2>3. ServerInv' /\ CredsGrow
      BY <1>2, <1>5, <2>2, TokensWritten DEF SessionInv, mailVars
    <2>4. Issued(n)' /\ token'[n].from = 0
      BY <2>2 DEF Made, NewSession, Issued
    <2> QED BY <1>2, <1>5, <2>1, <2>3, <2>4, Answering
  <1>6. CASE /\ req[b].kind # "login"
             /\ \/ ~Access(req[b].token) /\ Answered(b, FALSE, 0)
                \/ req[b].kind = "plain" /\ Answered(b, TRUE, 0)
             /\ UNCHANGED <<account, token, mailVars>>
    <2>1. CredInv' /\ CredsGrow
      BY <1>6, CredsSame DEF SessionInv, ServerInv
    <2>2. ServerInv' /\ CredsGrow
      BY <1>2, <1>6, <2>1, TokensWritten DEF SessionInv, mailVars
    <2>3. CASE ~Access(req[b].token) /\ Answered(b, FALSE, 0)
      BY <1>2, <1>6, <2>2, <2>3, Answering
    <2>4. CASE req[b].kind = "plain" /\ Answered(b, TRUE, 0)
      BY <1>2, <2>2, <2>4, Answering
    <2> QED BY <1>6, <2>3, <2>4
  <1>7. CASE /\ req[b].kind = "logout"
             /\ token' = IF Live(req[b].token) THEN [token EXCEPT ![req[b].token].state = "dead"] ELSE token
             /\ Answered(b, TRUE, 0)
             /\ UNCHANGED <<account, mailVars>>
    <2>1. CredInv' /\ CredsGrow
      <3>1. CASE Live(req[b].token)
        BY <1>3, <1>7, <3>1, LogoutEnds DEF SessionInv, ServerInv
      <3>2. CASE ~Live(req[b].token)
        BY <1>7, <3>2, CredsSame DEF SessionInv, ServerInv
      <3> QED BY <3>1, <3>2
    <2>2. ServerInv' /\ CredsGrow
      BY <1>2, <1>7, <2>1, TokensWritten DEF SessionInv, mailVars
    <2> QED BY <1>2, <1>7, <2>2, Answering
  <1>8. CASE /\ req[b].kind = "password" /\ FreshTokens # {}
             /\ account' = [account EXCEPT ![u].version = @ + 1]
             /\ token' = ChangedSessions(u)
             /\ RetireReset(u)
             /\ Answered(b, TRUE, FreshToken)
    <2>1. PICK n \in Tokens : n = FreshToken
      BY <1>4, <1>8
    <2>2. /\ CredInv' /\ CredsGrow
          /\ \A v \in Users : /\ account'[v].verified = account[v].verified
                              /\ account'[v].email = account[v].email
      BY <1>1, <1>8, PasswordKeeps DEF SessionInv
    <2>3. link' \in [Links -> LinkRec] /\ \A l \in Links : LinkMoves(l)
      BY <1>8, ResetLinksGo DEF SessionInv, ServerInv, RetireReset
    <2>4. LinkInv' /\ LinksGrow
      BY <1>2, <2>2, <2>3, LinksUnused DEF SessionInv, ServerInv
    <2>5. ServerInv' /\ CredsGrow
      BY <1>2, <2>2, <2>4, WritesKeep DEF SessionInv
    <2>6. token'[n] = NewSession(u, account[u].version + 1, 0)
      <3>1. Revoked(u) \in [Tokens -> TokenRec]
        BY RevokedIs DEF SessionInv, ServerInv
      <3> QED BY <1>8, <2>1, <3>1 DEF ChangedSessions
    <2>7. Issued(n)' /\ token'[n].from = 0
      BY <2>6 DEF NewSession, Issued
    <2> QED BY <1>2, <1>8, <2>1, <2>5, <2>7, Answering
  <1> QED BY <1>1, <1>5, <1>6, <1>7, <1>8 DEF Serve

LEMMA ReceiveKeeps == ASSUME SessionInv, NEW b \in Tabs, Receive(b) PROVE SessionInv'
  <1>1. /\ req[b].at = "answered" /\ UNCHANGED <<vars, expired, lost>>
        /\ expired' = expired /\ lost' \subseteq Tokens
    BY DEF Receive, SessionInv, BrowserTypeOK
  <1>2. CASE Throw(b) \/ EndSession(b)
    BY <1>1, <1>2, TabStops
  <1>3. CASE /\ req[b].kind = "login" \/ (req[b].kind = "password" /\ req[b].ok)
             /\ SaveTokens(b, req[b].answer) /\ Ends(b)
    <2>1. req[b].answer \in Tokens /\ Issued(req[b].answer)
      BY <1>1, <1>3 DEF SessionInv, AnswersLast
    <2> QED BY <1>1, <1>3, <2>1, TabSaves
  <1>4. CASE /\ req[b].kind # "login" /\ ~Stale(b) /\ req[b].token = store
             /\ Becomes(b, [req[b] EXCEPT !.at = "queued"])
             /\ UNCHANGED <<store, seen>>
    <2> DEFINE x == [req[b] EXCEPT !.at = "queued"]
    <2>1. /\ x \in ReqRec /\ x.at = "queued" /\ x.user = req[b].user /\ x.kind = req[b].kind
          /\ x.token = req[b].token /\ x.stale = req[b].stale
      BY DEF SessionInv, BrowserTypeOK, ReqRec
    <2> HIDE DEF x
    <2>2. PICK r \in ReqRec : r = x
      BY <2>1
    <2>3. Becomes(b, r) /\ req'[b] = r
      BY <1>4, <2>2 DEF Becomes, SessionInv, BrowserTypeOK, x
    <2>4. CredsGrow
      BY <1>1, ServerStill DEF SessionInv
    <2>5. Whose(b)'
      BY <1>1, <1>4, <2>1, <2>2, <2>3, <2>4, WhoseKeeps DEF SessionInv
    <2> QED BY <1>1, <1>4, <2>1, <2>2, <2>3, <2>5, TabMoves
  <1>5. CASE /\ req[b].kind # "login" /\ ~Stale(b)
             /\ Sent(b, [req[b] EXCEPT !.again = TRUE])
             /\ UNCHANGED <<store, seen>>
    BY <1>1, <1>5, ResendKeeps
  <1>6. CASE /\ req[b].kind # "login" /\ ~Stale(b) /\ ~req[b].ok /\ ~req[b].again
             /\ IF req[b].token = store THEN Becomes(b, [req[b] EXCEPT !.at = "queued"])
                ELSE Sent(b, [req[b] EXCEPT !.again = TRUE])
             /\ UNCHANGED <<store, seen>>
    <2>1. CASE req[b].token = store
      BY <1>4, <1>6, <2>1
    <2>2. CASE req[b].token # store
      BY <1>5, <1>6, <2>2
    <2> QED BY <2>1, <2>2
  <1>7. CASE ~(/\ req[b].kind # "login" /\ ~Stale(b) /\ ~req[b].ok /\ ~req[b].again
               /\ IF req[b].token = store THEN Becomes(b, [req[b] EXCEPT !.at = "queued"])
                  ELSE Sent(b, [req[b] EXCEPT !.again = TRUE])
               /\ UNCHANGED <<store, seen>>)
    <2>1. \/ Throw(b) \/ EndSession(b)
          \/ /\ req[b].kind = "login" \/ (req[b].kind = "password" /\ req[b].ok)
             /\ SaveTokens(b, req[b].answer) /\ Ends(b)
      BY <1>7 DEF Receive
    <2> QED BY <1>2, <1>3, <2>1
  <1> QED BY <1>6, <1>7

\* The request of a tab goes on inside of it, as what it was.
LEMMA RequestMoves ==
    ASSUME SessionInv, UNCHANGED <<vars, store, seen, expired, lost>>, NEW b \in Tabs,
           req[b].at # "idle", req[b].kind # "login",
           NEW at \in {"queued", "fetching", "resume"}, Becomes(b, [req[b] EXCEPT !.at = at])
    PROVE  SessionInv'
  <1> DEFINE x == [req[b] EXCEPT !.at = at]
  <1>1. /\ x \in ReqRec /\ x.at = at /\ x.user = req[b].user /\ x.kind = req[b].kind
        /\ x.token = req[b].token /\ x.stale = req[b].stale
    BY DEF SessionInv, BrowserTypeOK, ReqRec
  <1> HIDE DEF x
  <1>2. PICK r \in ReqRec : r = x
    BY <1>1
  <1>3. Becomes(b, r) /\ req'[b] = r
    BY <1>2 DEF Becomes, SessionInv, BrowserTypeOK, x
  <1>4. CredsGrow
    BY ServerStill DEF SessionInv
  <1>5. Whose(b)'
    BY <1>1, <1>2, <1>3, <1>4, WhoseKeeps DEF SessionInv
  <1> QED BY <1>1, <1>2, <1>3, <1>5, TabMoves

LEMMA FailKeeps == ASSUME SessionInv, NEW b \in Tabs, Fail(b) PROVE SessionInv'
  BY TabStops DEF Fail, SessionInv, BrowserTypeOK

\* A request that waits for a refresh is not a login.
LEMMA NoLogin ==
    ASSUME SessionInv, NEW b \in Tabs, req[b].at \notin {"idle", "sent", "answered"}
    PROVE  req[b].kind # "login" /\ req[b].token \in Tokens /\ Issued(req[b].token)
  BY DEF SessionInv, Whose

LEMMA AcquireKeeps == ASSUME SessionInv, NEW b \in Tabs, Acquire(b) PROVE SessionInv'
  <1>1. /\ req[b].at = "queued" /\ UNCHANGED <<vars, expired, lost>>
        /\ expired' = expired /\ lost' \subseteq Tokens
    BY DEF Acquire, SessionInv, BrowserTypeOK
  <1>2. CASE Throw(b)
    BY <1>1, <1>2, TabStops
  <1>3. CASE Becomes(b, [req[b] EXCEPT !.at = "resume"]) /\ UNCHANGED <<store, seen>>
    BY <1>1, <1>3, NoLogin, RequestMoves
  <1>4. CASE Becomes(b, [req[b] EXCEPT !.at = "fetching"]) /\ UNCHANGED <<store, seen>>
    BY <1>1, <1>4, NoLogin, RequestMoves
  <1> QED BY <1>2, <1>3, <1>4 DEF Acquire

\* The server answers a refresh.
LEMMA Exchanging ==
    ASSUME SessionInv, ServerInv', CredsGrow, NEW b \in Tabs, req[b].at = "fetching",
           NEW ok \in BOOLEAN, NEW answer \in Tokens \cup {0},
           Becomes(b, [req[b] EXCEPT !.at = "rotated", !.ok = ok, !.answer = answer]),
           UNCHANGED <<store, seen, expired, lost>>,
           ok => answer \in Tokens /\ Issued(answer)' /\ token'[answer].from = req[b].token,
           ~ok => token'[req[b].token].state # "live"
    PROVE  SessionInv'
  <1> DEFINE x == [req[b] EXCEPT !.at = "rotated", !.ok = ok, !.answer = answer]
  <1>1. /\ x \in ReqRec /\ x.at = "rotated" /\ x.ok = ok /\ x.answer = answer
        /\ x.user = req[b].user /\ x.kind = req[b].kind /\ x.token = req[b].token
        /\ x.stale = req[b].stale
    BY DEF SessionInv, BrowserTypeOK, ReqRec
  <1>2. Becomes(b, x)
    OBVIOUS
  <1> HIDE DEF x
  <1>3. PICK r \in ReqRec : r = x
    BY <1>1
  <1>4. Becomes(b, r) /\ req'[b] = r
    BY <1>2, <1>3 DEF Becomes, SessionInv, BrowserTypeOK
  <1>5. Whose(b)'
    BY <1>1, <1>3, <1>4, NoLogin, WhoseKeeps DEF SessionInv
  <1>6. AnswersLast(b)'
    BY <1>1, <1>3, <1>4 DEF AnswersLast, Issued, Live
  <1>7. store' \in Tokens \cup {0} /\ (store' # 0 => Issued(store)')
    BY StoreKeeps
  <1> QED BY <1>4, <1>5, <1>6, <1>7, TabStep DEF SessionInv, BrowserTypeOK

\* The rotation of a token is a step that keeps what the server keeps.
LEMMA RotationKeeps ==
    ASSUME ServerInv, NEW t \in Tokens, Live(t), FreshTokens # {}, token' = Rotated(t),
           UNCHANGED <<account, call, used, mailVars>>
    PROVE  /\ ServerInv' /\ CredsGrow
           /\ \E n \in Tokens : n = FreshToken /\ Issued(n)' /\ token'[n].from = t
  <1>1. PICK n \in Tokens : n = FreshToken
    BY FreshTokenIs
  <1>2. CredInv' /\ CredsGrow /\ Made(n, token[t].user, token[t].version, t)
    BY <1>1, SessionRotated DEF ServerInv
  <1>3. ServerInv'
    BY <1>2, TokensWritten DEF mailVars
  <1>4. Issued(n)' /\ token'[n].from = t
    BY <1>2 DEF Made, NewSession, Issued
  <1> QED BY <1>1, <1>2, <1>3, <1>4

LEMMA RefreshKeeps == ASSUME SessionInv, NEW b \in Tabs, Refresh(b) PROVE SessionInv'
  <1>1. /\ req[b].at = "fetching" /\ UNCHANGED <<account, call, used, mailVars>>
        /\ UNCHANGED <<store, seen, expired, lost>>
    BY DEF Refresh
  <1>2. req[b].token \in Tokens /\ req[b] \in ReqRec
    BY <1>1, NoLogin DEF SessionInv, BrowserTypeOK
  <1>3. CASE /\ Live(req[b].token) /\ FreshTokens # {}
             /\ token' = Rotated(req[b].token)
             /\ Becomes(b, [req[b] EXCEPT !.at = "rotated", !.ok = TRUE, !.answer = FreshToken])
    <2>1. /\ ServerInv' /\ CredsGrow
          /\ \E n \in Tokens : n = FreshToken /\ Issued(n)' /\ token'[n].from = req[b].token
      BY <1>1, <1>2, <1>3, RotationKeeps DEF SessionInv
    <2>2. PICK n \in Tokens : n = FreshToken /\ Issued(n)' /\ token'[n].from = req[b].token
      BY <2>1
    <2> QED BY <1>1, <1>3, <2>1, <2>2, Exchanging
  <1>4. CASE /\ ~Live(req[b].token)
             /\ Becomes(b, [req[b] EXCEPT !.at = "rotated", !.ok = FALSE])
             /\ UNCHANGED token
    <2>1. CredInv' /\ CredsGrow
      BY <1>1, <1>4, CredsSame DEF SessionInv, ServerInv
    <2>2. ServerInv'
      BY <1>1, <1>4, <2>1, TokensWritten DEF SessionInv, mailVars
    <2>3. PICK answer \in Tokens \cup {0} : answer = req[b].answer
      BY <1>2 DEF ReqRec
    <2>4. Becomes(b, [req[b] EXCEPT !.at = "rotated", !.ok = FALSE, !.answer = answer])
      <3>1. [req[b] EXCEPT !.at = "rotated", !.ok = FALSE, !.answer = answer]
              = [req[b] EXCEPT !.at = "rotated", !.ok = FALSE]
        BY <1>2, <2>3 DEF ReqRec
      <3> QED BY <1>4, <3>1
    <2>5. token'[req[b].token].state # "live"
      BY <1>4 DEF Live
    <2> QED BY <1>1, <2>1, <2>2, <2>4, <2>5, Exchanging
  <1> QED BY <1>3, <1>4 DEF Refresh

LEMMA AdoptKeeps == ASSUME SessionInv, NEW b \in Tabs, Adopt(b) PROVE SessionInv'
  <1>1. /\ req[b].at = "rotated" /\ UNCHANGED <<vars, expired, lost>>
        /\ expired' = expired /\ lost' \subseteq Tokens
    BY DEF Adopt, SessionInv, BrowserTypeOK
  <1>2. CASE Throw(b) \/ EndSession(b)
    BY <1>1, <1>2, TabStops
  <1>3. CASE /\ IsCurrent(b) /\ req[b].ok /\ SaveTokens(b, req[b].answer)
             /\ Becomes(b, [req[b] EXCEPT !.at = "resume", !.answer = 0, !.ok = FALSE])
    <2> DEFINE x == [req[b] EXCEPT !.at = "resume", !.answer = 0, !.ok = FALSE]
    <2>1. /\ x \in ReqRec /\ x.at = "resume" /\ x.user = req[b].user /\ x.kind = req[b].kind
          /\ x.token = req[b].token /\ x.stale = req[b].stale
      BY DEF SessionInv, BrowserTypeOK, ReqRec
    <2>2. Becomes(b, x)
      BY <1>3
    <2> HIDE DEF x
    <2>3. PICK r \in ReqRec : r = x
      BY <2>1
    <2>4. Becomes(b, r) /\ req'[b] = r
      BY <2>2, <2>3 DEF Becomes, SessionInv, BrowserTypeOK
    <2>5. ServerInv' /\ CredsGrow
      BY <1>1, ServerStill DEF SessionInv
    <2>6. /\ seen' \in [Tabs -> Users \cup {None}] /\ seen'[b] = seen[b]
          /\ \A d \in Tabs : d # b => seen'[d] = seen[d]
      BY <1>3, IdentityIs DEF SaveTokens, Synced, IsCurrent, Stale, SessionInv, BrowserTypeOK
    <2>7. store' \in Tokens \cup {0} /\ (store' # 0 => Issued(store)')
      <3>1. req[b].answer \in Tokens /\ Issued(req[b].answer)
        BY <1>1, <1>3 DEF SessionInv, AnswersLast
      <3>2. store' = req[b].answer /\ token' = token
        BY <1>1, <1>3 DEF SaveTokens, vars, serverVars
      <3> QED BY <3>1, <3>2 DEF Issued
    <2>8. Whose(b)'
      BY <1>1, <2>1, <2>3, <2>4, <2>5, <2>6, NoLogin, WhoseKeeps DEF SessionInv
    <2>9. AnswersLast(b)'
      BY <2>1, <2>3, <2>4 DEF AnswersLast
    <2> QED BY <1>1, <2>4, <2>5, <2>6, <2>7, <2>8, <2>9, TabStep
  <1> QED BY <1>2, <1>3 DEF Adopt

LEMMA RetryKeeps == ASSUME SessionInv, NEW b \in Tabs, Retry(b) PROVE SessionInv'
  <1>1. /\ req[b].at = "resume" /\ UNCHANGED <<vars, expired, lost>>
        /\ expired' = expired /\ lost' \subseteq Tokens
    BY DEF Retry, SessionInv, BrowserTypeOK
  <1>2. CASE Throw(b)
    BY <1>1, <1>2, TabStops
  <1>3. CASE ~Stale(b) /\ Sent(b, [req[b] EXCEPT !.again = TRUE]) /\ UNCHANGED <<store, seen>>
    BY <1>1, <1>3, NoLogin, ResendKeeps
  <1> QED BY <1>2, <1>3 DEF Retry

LEMMA AbortKeeps == ASSUME SessionInv, NEW b \in Tabs, Abort(b) PROVE SessionInv'
  <1>1. req[b].token \in Tokens
    BY NoLogin DEF Abort, Holds
  <1>2. lost' \subseteq Tokens
    BY <1>1 DEF Abort, SessionInv, BrowserTypeOK
  <1> QED BY <1>2, TabStops DEF Abort

\* Something happens outside of the tabs.
LEMMA OutsideKeeps ==
    ASSUME SessionInv, ServerInv', CredsGrow, UNCHANGED <<store, seen, req, lost>>,
           expired \subseteq expired', expired' \subseteq Tokens
    PROVE  SessionInv'
  <1>1. store' \in Tokens \cup {0} /\ (store' # 0 => Issued(store)')
    BY StoreKeeps
  <1>2. BrowserTypeOK'
    BY <1>1 DEF SessionInv, BrowserTypeOK
  <1>3. \A d \in Tabs : Whose(d)' /\ AnswersLast(d)'
    BY TabKeeps DEF ServerInv
  <1> QED BY <1>2, <1>3 DEF SessionInv

LEMMA NoticeKeeps == ASSUME SessionInv, NEW b \in Tabs, Notice(b) PROVE SessionInv'
  <1> DEFINE x == [req[b] EXCEPT !.stale = req[b].at # "idle"]
  <1>1. /\ x \in ReqRec /\ x.at = req[b].at /\ x.user = req[b].user /\ x.kind = req[b].kind
        /\ x.token = req[b].token /\ x.stale = (req[b].at # "idle")
        /\ x.ok = req[b].ok /\ x.answer = req[b].answer
    BY DEF SessionInv, BrowserTypeOK, ReqRec
  <1>2. Becomes(b, x)
    BY DEF Notice, Becomes
  <1> HIDE DEF x
  <1>3. PICK r \in ReqRec : r = x
    BY <1>1
  <1>4. Becomes(b, r) /\ req'[b] = r
    BY <1>2, <1>3 DEF Becomes, SessionInv, BrowserTypeOK
  <1>5. UNCHANGED <<vars, store, expired, lost>> /\ seen' = Synced(b)
    BY DEF Notice
  <1>6. ServerInv' /\ CredsGrow /\ account' = account /\ token' = token
    BY <1>5, ServerStill DEF SessionInv, vars, serverVars
  <1>7. seen' \in [Tabs -> Users \cup {None}] /\ \A d \in Tabs : d # b => seen'[d] = seen[d]
    BY <1>5, IdentityIs DEF SessionInv, BrowserTypeOK, Synced
  <1>8. Whose(b)'
    <2>1. CASE req[b].at = "idle"
      BY <1>1, <1>3, <1>4, <2>1 DEF Whose
    <2>2. CASE req[b].at # "idle"
      <3>1. req[b].kind = "login" => req'[b].at \in {"sent", "answered"}
        BY <1>1, <1>3, <1>4, <2>2 DEF SessionInv, Whose
      <3> QED BY <1>1, <1>3, <1>4, <1>6, <2>2, <3>1, WhoseKeeps DEF SessionInv
    <2> QED BY <2>1, <2>2
  <1>9. AnswersLast(b)'
    BY <1>1, <1>3, <1>4, <1>5, <1>6 DEF SessionInv, AnswersLast, Issued, Live, Access
  <1>10. store' \in Tokens \cup {0} /\ (store' # 0 => Issued(store)')
    BY <1>5, <1>6, StoreKeeps
  <1> QED BY <1>4, <1>5, <1>6, <1>7, <1>8, <1>9, <1>10, TabStep DEF SessionInv, BrowserTypeOK

LEMMA SessionStepKeeps == ASSUME SessionInv, [SessionNext]_sessionVars PROVE SessionInv'
  <1>1. CASE UNCHANGED sessionVars
    <2>1. UNCHANGED vars /\ UNCHANGED browserVars
      BY <1>1 DEF sessionVars
    <2>2. ServerInv' /\ CredsGrow
      BY <2>1, ServerStill DEF SessionInv
    <2> QED BY <2>1, <2>2, OutsideKeeps DEF browserVars, SessionInv, BrowserTypeOK
  <1>2. CASE MailsNext /\ UNCHANGED browserVars
    <2>1. ServerInv' /\ CredsGrow
      BY <1>2, MailsStep DEF SessionInv
    <2> QED BY <1>2, <2>1, OutsideKeeps DEF browserVars, SessionInv, BrowserTypeOK
  <1>3. ASSUME NEW b \in Tabs, SessionStep(b)
        PROVE  SessionInv'
    BY <1>3, BeginKeeps, BeginLoginKeeps, ServeKeeps, ReceiveKeeps, FailKeeps, AcquireKeeps,
       RefreshKeeps, AdoptKeeps, RetryKeeps, AbortKeeps, NoticeKeeps DEF SessionStep
  <1>4. ASSUME NEW t \in lost, RefreshLate(t)
        PROVE  SessionInv'
    <2>1. t \in Tokens
      BY DEF SessionInv, BrowserTypeOK
    <2>2. ServerInv' /\ CredsGrow
      BY <1>4, <2>1, RotationKeeps DEF RefreshLate, SessionInv
    <2> QED BY <1>4, <2>2, OutsideKeeps DEF RefreshLate, browserVars, SessionInv, BrowserTypeOK
  <1>5. ASSUME NEW t \in Tokens, Expire(t)
        PROVE  SessionInv'
    <2>1. ServerInv' /\ CredsGrow
      BY <1>5, ServerStill DEF Expire, SessionInv
    <2> QED BY <1>5, <2>1, OutsideKeeps DEF Expire, SessionInv, BrowserTypeOK
  <1> QED BY <1>1, <1>2, <1>3, <1>4, <1>5 DEF SessionNext

-----------------------------------------------------------------------------
(* The theorems. *)

\* SessionInv holds of every server and every browser: what a request or a tab
\* read before it waited still says what is needed of it after.
THEOREM SessionHolds == SessionSpec => []SessionInv
  <1>1. SessionInit => SessionInv
    BY SessionInitHolds
  <1>2. SessionInv /\ [SessionNext]_sessionVars => SessionInv'
    BY SessionStepKeeps
  <1> QED BY <1>1, <1>2, PTL DEF SessionSpec

\* A session that is alive was made under the credentials its account has now:
\* a change or a reset of the password, and a rotation that has waited for
\* one, leaves none of the former (storage/postgres/account.go,
\* and RotateRefreshToken of postgres.go).
THEOREM CurrentCredentials == SessionSpec => []SessionsOfCurrentCredentials
  <1>1. SessionInv => SessionsOfCurrentCredentials
    BY DEF SessionInv, ServerInv, CredInv
  <1> QED BY <1>1, SessionHolds, PTL

\* A link takes effect at most once, whoever uses it and how often, and an
\* address counts as confirmed only by a link that went to it (account.go:
\* ConfirmEmail, ResetPassword, ChangeEmail).
THEOREM LinksTakeEffectOnce == SessionSpec => []LinksWorkOnce
  <1>1. SessionInv => LinksWorkOnce
    BY DEF SessionInv, ServerInv, LinkInv
  <1> QED BY <1>1, SessionHolds, PTL

\* Only an answer that was received changes the store.
LEMMA StoreMoves ==
    ASSUME SessionInv, [SessionNext]_sessionVars, store' # store
    PROVE  \E b \in Tabs : Receive(b) \/ Adopt(b)
  BY DEF SessionNext, SessionStep, Begin, BeginLogin, Serve, Fail, Acquire, Throw, Refresh, Retry,
         Abort, RefreshLate, Notice, Expire, sessionVars, browserVars

\* While sessions change on the server, no tab sends a request.
LEMMA NothingSent ==
    ASSUME SessionInv, [SessionNext]_sessionVars, NEW b \in Tabs
    PROVE  token' = token \/ req'[b] = req[b] \/ req'[b].at # "sent"
  <1>1. CASE UNCHANGED sessionVars \/ UNCHANGED browserVars
    BY <1>1 DEF sessionVars, browserVars
  <1>2. ASSUME NEW d \in Tabs, SessionStep(d)
        PROVE  token' = token \/ req'[b] = req[b] \/ req'[b].at # "sent"
    <2>1. CASE Serve(d)
      <3>1. \E ok, answer : Answered(d, ok, answer)
        BY <2>1 DEF Serve
      <3>2. d # b => req'[b] = req[b]
        BY <3>1 DEF Answered, Becomes, SessionInv, BrowserTypeOK
      <3>3. d = b => req'[b].at = "answered"
        BY <3>1 DEF Answered, Becomes, SessionInv, BrowserTypeOK, ReqRec
      <3> QED BY <3>2, <3>3
    <2>2. CASE Refresh(d)
      <3>1. d # b => req'[b] = req[b]
        BY <2>2 DEF Refresh, Becomes, SessionInv, BrowserTypeOK
      <3>2. \/ \E n : Becomes(d, [req[d] EXCEPT !.at = "rotated", !.ok = TRUE, !.answer = n])
            \/ Becomes(d, [req[d] EXCEPT !.at = "rotated", !.ok = FALSE])
        BY <2>2 DEF Refresh
      <3>3. \E x : x.at = "rotated" /\ Becomes(d, x)
        <4>1. req[d] \in ReqRec
          BY DEF SessionInv, BrowserTypeOK
        <4>2. [req[d] EXCEPT !.at = "rotated", !.ok = FALSE].at = "rotated"
          BY <4>1 DEF ReqRec
        <4>3. \A n : [req[d] EXCEPT !.at = "rotated", !.ok = TRUE, !.answer = n].at = "rotated"
          BY <4>1 DEF ReqRec
        <4> QED BY <3>2, <4>2, <4>3
      <3>4. d = b => req'[b].at = "rotated"
        BY <3>3 DEF Becomes, SessionInv, BrowserTypeOK
      <3> QED BY <3>1, <3>4
    <2>3. CASE UNCHANGED vars
      BY <2>3 DEF vars, serverVars
    <2> QED BY <1>2, <2>1, <2>2, <2>3 DEF SessionStep, Begin, BeginLogin, Receive, Fail, Acquire,
                                          Adopt, Retry, Abort, Notice
  <1>3. CASE UNCHANGED vars
    BY <1>3 DEF vars, serverVars
  <1> QED BY <1>1, <1>2, <1>3 DEF SessionNext, RefreshLate, Expire

\* No token of one account comes to stand in for that of another, and no
\* request is sent as another user than the one it was begun as, by any tab
\* and after any wait (frontend/src/lib/api.ts).
THEOREM AccountKept == SessionSpec => KeepsAccount
  <1> DEFINE Kept ==
        /\ store' \notin {0, store} /\ token'[store'].from # 0 => token'[store'].from = store
        /\ \A b \in Tabs : req'[b].at = "sent" /\ req'[b].kind # "login" =>
             Identity(req'[b].token) = req'[b].user
  <1>1. ASSUME SessionInv, SessionInv', [SessionNext]_sessionVars
        PROVE  Kept
    <2>1. ASSUME store' # store, store' # 0
          PROVE  token'[store'].from \in {0, store}
      <3>1. PICK b \in Tabs : Receive(b) \/ Adopt(b)
        BY <1>1, <2>1, StoreMoves
      <3>2. token' = token
        BY <3>1 DEF Receive, Adopt, vars, serverVars
      <3>3. CASE Receive(b)
        <4>1. /\ req[b].at = "answered" /\ store' = req[b].answer
              /\ req[b].kind = "login" \/ (req[b].kind = "password" /\ req[b].ok)
          BY <2>1, <3>3 DEF Receive, Throw, EndSession, SaveTokens
        <4> QED BY <1>1, <3>2, <4>1 DEF SessionInv, AnswersLast
      <3>4. CASE Adopt(b)
        <4>1. /\ req[b].at = "rotated" /\ store' = req[b].answer /\ req[b].ok
              /\ store = req[b].token
          BY <2>1, <3>4 DEF Adopt, Throw, EndSession, SaveTokens, IsCurrent
        <4> QED BY <1>1, <3>2, <4>1 DEF SessionInv, AnswersLast
      <3> QED BY <3>1, <3>3, <3>4
    <2>2. ASSUME NEW b \in Tabs, req'[b].at = "sent", req'[b].kind # "login"
          PROVE  Identity(req'[b].token) = req'[b].user
      <3>1. req'[b].token \in Tokens /\ token'[req'[b].token].user = req'[b].user
        BY <1>1, <2>2 DEF SessionInv, Whose
      <3>2. req'[b].token # 0
        BY <3>1, BoundsAreNumbers DEF Tokens
      <3>3. CASE token' = token
        BY <3>1, <3>2, <3>3 DEF Identity
      <3>4. CASE req'[b] = req[b]
        <4>1. token[req[b].token].user = req[b].user
          BY <1>1, <2>2, <3>4 DEF SessionInv, Whose
        <4> QED BY <3>2, <3>4, <4>1 DEF Identity
      <3> QED BY <1>1, <2>2, <3>3, <3>4, NothingSent
    <2> QED BY <2>1, <2>2
  <1>2. SessionInv /\ SessionInv' /\ [SessionNext]_sessionVars => [Kept]_sessionVars
    BY <1>1
  <1> QED BY <1>2, SessionHolds, PTL DEF SessionSpec, KeepsAccount

\* A session of the browser ends because its user logged out, or because the
\* server accepts no longer what is stored at that moment, in every
\* interleaving of the tabs.
THEOREM EndsRefused == SessionSpec => EndsOnlyRefused
  <1> DEFINE Refusal == store # 0 /\ store' = 0 =>
        \/ ~Live(store) \/ ~Access(store)
        \/ \E b \in Tabs : LoggedOut(b) /\ req'[b] = NoReq
  <1>1. ASSUME SessionInv, [SessionNext]_sessionVars
        PROVE  Refusal
    <2> SUFFICES ASSUME store # 0, store' = 0
                 PROVE  \/ ~Live(store) \/ ~Access(store)
                        \/ \E b \in Tabs : LoggedOut(b) /\ req'[b] = NoReq
      OBVIOUS
    <2>1. PICK b \in Tabs : Receive(b) \/ Adopt(b)
      BY <1>1, StoreMoves
    <2>2. Ends(b) => req'[b] = NoReq
      BY <1>1 DEF Ends, Becomes, SessionInv, BrowserTypeOK
    <2>3. 0 \notin Tokens
      BY BoundsAreNumbers DEF Tokens
    <2>4. CASE Receive(b)
      <3>1. req[b].at = "answered"
        BY <2>4 DEF Receive
      <3>2. CASE SaveTokens(b, req[b].answer) /\ (req[b].kind = "login" \/ (req[b].kind = "password" /\ req[b].ok))
        BY <1>1, <2>3, <3>1, <3>2 DEF SaveTokens, SessionInv, AnswersLast
      <3>3. CASE ~req[b].ok /\ Refused(b)
        BY <1>1, <3>1, <3>3 DEF SessionInv, AnswersLast, Refused
      <3>4. CASE req[b].kind = "logout" /\ req[b].ok /\ EndSession(b)
        BY <2>2, <3>1, <3>4 DEF EndSession, LoggedOut
      <3> QED BY <2>4, <3>2, <3>3, <3>4 DEF Receive, Throw
    <2>5. CASE Adopt(b)
      <3>1. req[b].at = "rotated" /\ req[b].token = store
        BY <2>5 DEF Adopt, IsCurrent, Throw
      <3>2. CASE req[b].ok /\ SaveTokens(b, req[b].answer)
        BY <1>1, <2>3, <3>1, <3>2 DEF SaveTokens, SessionInv, AnswersLast
      <3>3. CASE ~req[b].ok
        BY <1>1, <3>1, <3>3 DEF SessionInv, AnswersLast
      <3> QED BY <2>5, <3>2, <3>3 DEF Adopt, Throw
    <2> QED BY <2>1, <2>4, <2>5
  <1>2. SessionInv /\ [SessionNext]_sessionVars => [Refusal]_sessionVars
    BY <1>1
  <1> QED BY <1>2, SessionHolds, PTL DEF SessionSpec, EndsOnlyRefused

-----------------------------------------------------------------------------
(* The outboxes. *)

RowRec == [status : {"none", "scheduled", "sent", "failed", "cancelled"}, attempts : Nat,
           lease : {"none", "held", "lapsed"}, due : BOOLEAN]

\* A current link goes to the address of its account: a change of the address
\* annuls the links to the former one.
AddressKept(l) == link[l].state = "current" => link[l].email = UserOf(l).email

\* MailMatchesLink, of one link.
Matched(l) ==
    /\ Scheduled(l) => link[l].state = "current" \/ link[l].expired
    /\ Usable(l) /\ link[l].user # None =>
         \/ outbox[l].status \in {"scheduled", "sent"}
         \/ outbox[l].status = "failed" /\ outbox[l].attempts = MaxAttempts
         \/ link[l].kind = "verification" /\ UserOf(l).verified

InOrder(l) ==
    /\ outbox[l] \in RowRec
    /\ outbox[l].attempts <= MaxAttempts
    /\ AddressKept(l)
    /\ Matched(l)

MailInv == outbox = [l \in Links |-> outbox[l]] /\ \A l \in Links : InOrder(l)

\* The account of a link keeps its address and its confirmation.
OwnerKept(l) ==
    link[l].state = "current" => /\ account'[link[l].user].email = UserOf(l).email
                                 /\ UserOf(l).verified => account'[link[l].user].verified

\* Neither the link nor its row changes.
LEMMA RowStays ==
    ASSUME ServerInv, NEW l \in Links, InOrder(l), OwnerKept(l),
           link'[l] = link[l], outbox'[l] = outbox[l]
    PROVE  InOrder(l)'
  BY DEF InOrder, AddressKept, Matched, Usable, UserOf, Scheduled, OwnerKept

LEMMA RowsStay ==
    ASSUME ServerInv, MailInv, \A l \in Links : OwnerKept(l), UNCHANGED mailVars
    PROVE  MailInv'
  BY RowStays DEF MailInv, mailVars

\* A link of u goes and its mail is closed, whatever becomes of u's account; the
\* other links keep theirs.
LEMMA RowClosed ==
    ASSUME ServerInv, NEW l \in Links, InOrder(l), NEW u, NEW kinds,
           NEW status \in {"failed", "cancelled"},
           link'[l] = Unlinked(u, kinds)[l], outbox'[l] = Closed(u, kinds, status)[l],
           (link[l].user = u /\ link[l].kind \in kinds) \/ OwnerKept(l)
    PROVE  InOrder(l)'
  <1> USE DEF InOrder
  <1>1. CASE ~(link[l].user = u /\ link[l].kind \in kinds)
    <2>1. link'[l] = link[l] /\ outbox'[l] = outbox[l]
      BY <1>1 DEF Unlinked, Closed
    <2>2. QED
      BY <1>1, <2>1, RowStays
  <1>2. CASE link[l].user = u /\ link[l].kind \in kinds
    <2>1. link'[l].state # "current"
      BY <1>2 DEF Unlinked, ServerInv, LinkInv, LinkRec
    <2>2. /\ outbox'[l] \in RowRec /\ outbox'[l].attempts = outbox[l].attempts
          /\ outbox'[l].status # "scheduled"
      BY <1>2 DEF Closed, RowRec
    <2>3. QED
      BY <2>1, <2>2 DEF AddressKept, Matched, Usable, Scheduled
  <1>3. QED
    BY <1>1, <1>2

LEMMA RowsClosed ==
    ASSUME ServerInv, MailInv, NEW u, NEW kinds, NEW status \in {"failed", "cancelled"},
           link' = Unlinked(u, kinds), outbox' = Closed(u, kinds, status),
           \A l \in Links : OwnerKept(l)
    PROVE  MailInv'
  <1>1. outbox' = [l \in Links |-> outbox'[l]]
    BY DEF Closed
  <1>2. \A l \in Links : InOrder(l)'
    BY RowClosed DEF MailInv
  <1>3. QED
    BY <1>1, <1>2 DEF MailInv

\* The new link is queued.
LEMMA RowsQueued ==
    ASSUME ServerInv, MailInv, NEW u \in Users, NEW kinds, NEW status \in {"failed", "cancelled"},
           NEW kind \in Kinds, NEW email, email = account'[u].email, FreshLinks # {},
           link' = [Unlinked(u, kinds) EXCEPT ![FreshLink] = NewLink(kind, u, email)],
           outbox' = [Closed(u, kinds, status) EXCEPT ![FreshLink] = Queued],
           \A l \in Links : (link[l].user = u /\ link[l].kind \in kinds) \/ OwnerKept(l)
    PROVE  MailInv'
  <1>1. PICK n \in Links : n = FreshLink
    BY FreshLinkIs
  <1> DEFINE new == NewLink(kind, u, email)
             R == Unlinked(u, kinds)
             C == Closed(u, kinds, status)
  <1>2. DOMAIN R = Links /\ DOMAIN C = Links /\ C = [l \in Links |-> C[l]]
    BY DEF Unlinked, Closed
  <1>3. /\ new.state = "current" /\ new.user = u /\ new.email = email
        /\ Queued \in RowRec /\ Queued.status = "scheduled" /\ Queued.attempts = 0
    BY DEF NewLink, Queued, RowRec
  <1>31. 0 <= MaxAttempts
    BY AttemptsPositive
  <1> HIDE DEF new, R, C
  <1>4. /\ link'[n] = new /\ outbox'[n] = Queued
        /\ outbox' = [l \in Links |-> outbox'[l]]
        /\ \A l \in Links \ {n} : link'[l] = R[l] /\ outbox'[l] = C[l]
    BY <1>1, <1>2 DEF new, R, C
  <1>5. InOrder(n)'
    BY <1>3, <1>31, <1>4 DEF InOrder, AddressKept, Matched, Usable, UserOf, Scheduled
  <1>6. ASSUME NEW l \in Links \ {n}
        PROVE  InOrder(l)'
    BY <1>4, RowClosed DEF MailInv, R, C
  <1>7. QED
    BY <1>4, <1>5, <1>6 DEF MailInv

\* A step of the server.
LEMMA AccountsMail == ASSUME ServerInv, MailInv, AccountsNext PROVE MailInv'
  <1> USE DEF ServerInv
  <1>1. \A l \in Links : link[l].state = "current" => link[l].user \in Users /\ Registered(link[l].user)
    BY DEF LinkInv
  <1>2. ASSUME UNCHANGED <<account, link, outbox>>
        PROVE  MailInv'
    BY <1>2, RowsStay DEF OwnerKept, UserOf, mailVars
  <1>3. ASSUME NEW u \in Users, Register(u)
        PROVE  MailInv'
    <2>1. account' = [account EXCEPT ![u] = NewAccount(u)] /\ ~Registered(u) /\ NewAccount(u).email = Address[u]
      BY <1>3 DEF Register, NewAccount, NoAccount
    <2>2. account'[u].email = Address[u] /\ \A v \in Users \ {u} : account'[v] = account[v]
      BY <2>1 DEF CredInv
    <2>3. \A l \in Links : OwnerKept(l)
      BY <1>1, <2>1, <2>2 DEF OwnerKept, UserOf
    <2>4. QED
      BY <1>3, <2>2, <2>3, RowsQueued DEF Register, Requeue, Kinds
  <1>4. ASSUME NEW u \in Users, NEW kinds, NEW status \in {"failed", "cancelled"}, NEW kind \in Kinds,
               Requeue(u, kinds, status, kind, account[u].email), account' = account
        PROVE  MailInv'
    BY <1>4, RowsQueued DEF Requeue, OwnerKept, UserOf
  <1>5. ASSUME NEW c \in Calls, NEW email \in Emails, ChangeEmail(c, email)
        PROVE  MailInv'
    <2>1. PICK u \in Users : u = call[c].user
      BY <1>5 DEF ChangeEmail, CallInv
    <2>2. account'[u].email = email /\ \A v \in Users \ {u} : account'[v] = account[v]
      BY <1>5, <2>1 DEF ChangeEmail, CredInv
    <2>3. \A l \in Links : (link[l].user = u /\ link[l].kind \in Kinds) \/ OwnerKept(l)
      BY <1>1, <2>2 DEF OwnerKept, UserOf, LinkInv, LinkRec
    <2>4. QED
      BY <1>5, <2>1, <2>2, <2>3, RowsQueued DEF ChangeEmail, Kinds
  <1>6. ASSUME NEW c \in Calls, ChangePassword(c) \/ ResetPassword(c)
        PROVE  MailInv'
    <2>1. PICK u \in Users : u = call[c].user
      BY <1>6 DEF ChangePassword, ResetPassword, CallInv
    <2>2. account' = [account EXCEPT ![u].version = @ + 1] /\ RetireReset(u)
      BY <1>6, <2>1 DEF ChangePassword, ResetPassword
    <2>3. \A l \in Links : OwnerKept(l)
      BY <1>1, <2>2 DEF OwnerKept, UserOf, CredInv, AccountRec
    <2>4. QED
      BY <2>2, <2>3, RowsClosed DEF RetireReset
  <1>7. ASSUME NEW c \in Calls, ConfirmEmail(c)
        PROVE  MailInv'
    <2>1. PICK u \in Users : u = call[c].user
      BY <1>7 DEF ConfirmEmail, CallInv
    <2>2. \A l \in Links : OwnerKept(l)
      BY <1>1, <1>7, <2>1 DEF ConfirmEmail, OwnerKept, UserOf, CredInv, AccountRec
    <2>3. QED
      BY <1>7, <2>1, <2>2, RowsClosed DEF ConfirmEmail
  <1>8. ASSUME UNCHANGED <<account, outbox>>, link' \in [Links -> LinkRec],
               \A l \in Links :
                 \/ link'[l] = link[l]
                 \/ link'[l] = [link[l] EXCEPT !.expired = TRUE]
                 \/ link[l].expired /\ link'[l] = [link[l] EXCEPT !.state = "gone"]
        PROVE  MailInv'
    <2>1. ASSUME NEW l \in Links
          PROVE  InOrder(l)'
      <3>1. CASE link'[l] = link[l]
        BY <1>8, <3>1, RowStays DEF MailInv, OwnerKept, UserOf
      <3>2. CASE link'[l] # link[l]
        <4>1. /\ link'[l].expired /\ link'[l].user = link[l].user /\ link'[l].email = link[l].email
              /\ link'[l].state = "current" => link[l].state = "current"
          BY <1>8, <3>2 DEF LinkInv, LinkRec
        <4>2. InOrder(l)
          BY DEF MailInv
        <4>3. QED
          BY <1>8, <4>1, <4>2 DEF InOrder, AddressKept, Matched, Usable, UserOf, Scheduled
      <3>3. QED
        BY <3>1, <3>2
    <2>2. QED
      BY <1>8, <2>1 DEF MailInv
  <1>9. ASSUME NEW l \in Links, ExpireLink(l)
        PROVE  MailInv'
    BY <1>8, <1>9 DEF ExpireLink, LinkInv, LinkRec
  <1>10. CASE CleanLinks
    BY <1>8, <1>10 DEF CleanLinks, Current, LinkInv, LinkRec
  <1>11. ASSUME NEW c \in Calls, Resend(c)
         PROVE  MailInv'
    <2>1. PICK u \in Users : u = call[c].user
      BY <1>11 DEF Resend, CallInv
    <2>2. QED
      BY <1>4, <1>11, <2>1 DEF Resend, Kinds
  <1>12. ASSUME NEW u \in Users, RequestPasswordReset(u)
         PROVE  MailInv'
    BY <1>4, <1>12 DEF RequestPasswordReset, Kinds
  <1>13. ASSUME NEW c \in Calls,
                \/ \E u \in Users : LoginRead(c, u) \/ ResendRead(c, u)
                \/ \E t \in Tokens : RotateFind(c, t) \/ ChangeRead(c, t)
                \/ \E l \in Links : ResetFind(c, l) \/ ConfirmFind(c, l)
                \/ LoginSave(c) \/ Rotate(c) \/ GiveUp(c)
         PROVE  MailInv'
    BY <1>2, <1>13 DEF LoginRead, ResendRead, RotateFind, ChangeRead, ResetFind, ConfirmFind, Finds, Reads,
                       LoginSave, Rotate, GiveUp
  <1>14. ASSUME \/ \E t \in Tokens : Logout(t)
                \/ \E u \in Users : LogoutAll(u)
         PROVE  MailInv'
    BY <1>2, <1>14 DEF Logout, LogoutAll
  <1>15. QED
    BY <1>3, <1>5, <1>6, <1>7, <1>9, <1>10, <1>11, <1>12, <1>13, <1>14 DEF AccountsNext

\* A step of a worker, or of the clock.
LEMMA WorkersMail ==
    ASSUME ServerInv, MailInv, UNCHANGED <<account, link>>,
           \/ \E w \in Workers : Deliver(w) \/ Drop(w)
           \/ TimePasses
    PROVE  MailInv'
  <1>1. \A l \in Links : outbox[l] \in RowRec /\ outbox[l].attempts <= MaxAttempts
    BY DEF MailInv, InOrder
  <1>2. MaxAttempts \in Nat
    BY AttemptsPositive
  <1>3. ASSUME NEW l \in Links, outbox'[l] \in RowRec, outbox'[l].attempts <= MaxAttempts,
               \/ /\ outbox'[l].status = outbox[l].status
                  /\ outbox[l].status = "failed" => outbox'[l].attempts = outbox[l].attempts
               \/ outbox'[l].status = "sent" /\ Scheduled(l)
               \/ outbox'[l].status = "failed" /\ (outbox'[l].attempts = MaxAttempts \/ ~Usable(l))
               \/ outbox'[l].status = "cancelled"
                  /\ (~Usable(l) \/ (link[l].kind = "verification" /\ UserOf(l).verified))
        PROVE  InOrder(l)'
    <2>1. InOrder(l)
      BY DEF MailInv
    <2>2. QED
      BY <1>3, <2>1 DEF InOrder, AddressKept, Matched, Usable, UserOf, Scheduled
  <1>4. ASSUME NEW l \in Links
        PROVE  /\ AfterRetire[l] \in RowRec /\ AfterRetire[l].attempts = outbox[l].attempts
               /\ AfterRetire[l].status = Retired(l)
               /\ \/ Retired(l) = outbox[l].status
                  \/ Retired(l) = "failed" /\ (outbox[l].attempts = MaxAttempts \/ ~Usable(l))
                  \/ Retired(l) = "cancelled"
                     /\ (~Usable(l) \/ (link[l].kind = "verification" /\ UserOf(l).verified))
    <2>1. \/ Retired(l) = outbox[l].status
          \/ Retired(l) = "failed" /\ (outbox[l].attempts >= MaxAttempts \/ ~Usable(l))
          \/ Retired(l) = "cancelled"
             /\ (~Usable(l) \/ (link[l].kind = "verification" /\ UserOf(l).verified))
      <3>1. link[l].kind \in {"verification", "reset"}
        BY DEF ServerInv, LinkInv, LinkRec, Kinds
      <3>2. CASE Scheduled(l)
        <4>1. outbox[l].status = "scheduled"
          BY <3>2 DEF Scheduled
        <4>2. CASE link[l].kind = "reset"
          <5>1. Retired(l) = IF ~Usable(l) THEN "cancelled"
                             ELSE IF outbox[l].attempts >= MaxAttempts /\ ~Held(l) THEN "failed"
                             ELSE "scheduled"
            BY <3>2, <4>2 DEF Retired
          <5>2. QED
            BY <4>1, <5>1
        <4>3. CASE link[l].kind = "verification"
          <5>1. Retired(l) = IF Held(l) THEN "scheduled"
                             ELSE IF UserOf(l).verified THEN "cancelled"
                             ELSE IF link[l].expired \/ outbox[l].attempts >= MaxAttempts THEN "failed"
                             ELSE "scheduled"
            BY <3>2, <4>3 DEF Retired
          <5>2. link[l].expired => ~Usable(l)
            BY DEF Usable
          <5>3. QED
            BY <4>1, <4>3, <5>1, <5>2
        <4>4. QED
          BY <3>1, <4>2, <4>3
      <3>3. CASE ~Scheduled(l)
        BY <3>3 DEF Retired
      <3>4. QED
        BY <3>2, <3>3
    <2>2. outbox[l].attempts \in Nat /\ outbox[l].attempts <= MaxAttempts
      BY <1>1 DEF RowRec
    <2>3. outbox[l].attempts >= MaxAttempts => outbox[l].attempts = MaxAttempts
      BY <1>2, <2>2
    <2>4. Retired(l) \in {"none", "scheduled", "sent", "failed", "cancelled"}
      BY <1>1, <2>1 DEF RowRec
    <2>5. /\ AfterRetire[l] \in RowRec /\ AfterRetire[l].attempts = outbox[l].attempts
          /\ AfterRetire[l].status = Retired(l)
      BY <1>1, <2>4 DEF AfterRetire, RowRec
    <2>6. QED
      BY <2>1, <2>3, <2>5
  <1>5. ASSUME NEW w \in Workers, ClaimNothing(w)
        PROVE  MailInv'
    <2>1. outbox' = AfterRetire
      BY <1>5 DEF ClaimNothing
    <2>2. \A l \in Links : InOrder(l)'
      BY <1>1, <1>3, <1>4, <2>1
    <2>3. outbox' = [l \in Links |-> outbox'[l]]
      BY <2>1 DEF AfterRetire
    <2>4. QED
      BY <2>2, <2>3 DEF MailInv
  <1>6. ASSUME NEW w \in Workers, NEW k \in Links, Claimable(k),
               outbox' = [AfterRetire EXCEPT ![k].attempts = @ + 1, ![k].lease = "held"]
        PROVE  MailInv'
    <2> DEFINE A == AfterRetire
               row == [A[k] EXCEPT !.attempts = @ + 1, !.lease = "held"]
    <2>1. outbox' = [A EXCEPT ![k] = row] /\ DOMAIN A = Links
      BY <1>6 DEF AfterRetire
    <2>2. /\ A[k] \in RowRec /\ A[k].status = "scheduled" /\ A[k].attempts = outbox[k].attempts
          /\ outbox[k].attempts < MaxAttempts /\ outbox[k].attempts \in Nat
          /\ outbox[k].status = "scheduled"
      BY <1>1, <1>4, <1>6 DEF Claimable, RowRec
    <2>3. /\ row \in RowRec /\ row.status = "scheduled" /\ row.attempts = outbox[k].attempts + 1
      <3> DEFINE n == A[k].attempts + 1
      <3>1. n \in Nat /\ n = outbox[k].attempts + 1
        BY <2>2
      <3>2. row = [A[k] EXCEPT !.attempts = n, !.lease = "held"]
        OBVIOUS
      <3> HIDE DEF A, n, row
      <3>3. row \in RowRec /\ row.status = "scheduled" /\ row.attempts = n
        BY <2>2, <3>1, <3>2 DEF RowRec
      <3>4. QED
        BY <3>1, <3>3
    <2> HIDE DEF A, row
    <2>4. /\ outbox'[k] = row /\ \A l \in Links \ {k} : outbox'[l] = A[l]
          /\ outbox' = [l \in Links |-> outbox'[l]]
      BY <2>1
    <2>5. row.attempts <= MaxAttempts
      BY <1>2, <2>2, <2>3
    <2>6. InOrder(k)'
      BY <1>3, <2>2, <2>3, <2>4, <2>5
    <2>7. \A l \in Links \ {k} : InOrder(l)'
      BY <1>1, <1>3, <1>4, <2>4 DEF A
    <2>8. QED
      BY <2>4, <2>6, <2>7 DEF MailInv
  <1>7. ASSUME NEW k \in Links, NEW row \in RowRec, outbox' = [outbox EXCEPT ![k] = row],
               row.attempts = outbox[k].attempts,
               \/ row.status = outbox[k].status
               \/ row.status = "sent" /\ Scheduled(k)
               \/ row.status = "failed" /\ row.attempts = MaxAttempts
        PROVE  MailInv'
    <2>1. /\ outbox'[k] = row /\ \A l \in Links \ {k} : outbox'[l] = outbox[l]
          /\ outbox' = [l \in Links |-> outbox'[l]]
      BY <1>7 DEF MailInv
    <2>2. InOrder(k)'
      BY <1>1, <1>3, <1>7, <2>1
    <2>3. \A l \in Links \ {k} : InOrder(l)'
      BY <1>1, <1>3, <2>1
    <2>4. QED
      BY <2>1, <2>2, <2>3 DEF MailInv
  <1>8. ASSUME NEW w \in Workers, Finish(w), outbox' # outbox
        PROVE  MailInv'
    <2> DEFINE k == worker[w].row
               failed == outbox[k].attempts >= MaxAttempts
               status == IF worker[w].at = "sent" THEN "sent"
                         ELSE IF failed THEN "failed" ELSE "scheduled"
               row == [outbox[k] EXCEPT !.lease = "none", !.due = FALSE, !.status = status]
    <2>1. Scheduled(k) /\ outbox' = [outbox EXCEPT ![k] = row]
      BY <1>8 DEF Finish, HasLease, Acknowledged
    <2>2. k \in Links
      BY <1>8, <2>1 DEF MailInv
    <2>3. outbox[k] \in RowRec /\ outbox[k].attempts <= MaxAttempts
      BY <1>1, <2>2
    <2>4. status \in {"sent", "failed", "scheduled"} /\ (status = "failed" => failed)
      OBVIOUS
    <2>5. failed => outbox[k].attempts = MaxAttempts
      BY <1>2, <2>3 DEF RowRec
    <2> HIDE DEF status, failed
    <2>6. row \in RowRec /\ row.attempts = outbox[k].attempts /\ row.status = status
      BY <2>3, <2>4 DEF RowRec
    <2> HIDE DEF row, k
    <2>7. QED
      BY <1>7, <2>1, <2>2, <2>4, <2>5, <2>6 DEF Scheduled
  <1>9. ASSUME NEW k \in Links, BecomesDue(k) \/ Lapse(k)
        PROVE  MailInv'
    <2>1. \E row \in {[outbox[k] EXCEPT !.due = TRUE], [outbox[k] EXCEPT !.lease = "lapsed"]} :
            outbox' = [outbox EXCEPT ![k] = row]
      BY <1>9 DEF BecomesDue, Lapse
    <2>2. PICK row \in {[outbox[k] EXCEPT !.due = TRUE], [outbox[k] EXCEPT !.lease = "lapsed"]} :
            outbox' = [outbox EXCEPT ![k] = row]
      BY <2>1
    <2>3. row \in RowRec /\ row.attempts = outbox[k].attempts /\ row.status = outbox[k].status
      BY <1>1, <2>2 DEF RowRec
    <2>4. QED
      BY <1>7, <2>2, <2>3
  <1>10. CASE outbox' = outbox
    BY <1>10, RowsStay DEF OwnerKept, UserOf, mailVars
  <1>11. QED
    BY <1>5, <1>6, <1>8, <1>9, <1>10 DEF Deliver, Claim, Check, Send, Drop, TimePasses, mailVars

\* A step of the browser that reaches the server: only a change of the password
\* touches links, and takes those of a reset away.
LEMMA MailStep ==
    ASSUME SessionInv, MailInv, [SessionNext]_sessionVars
    PROVE  MailInv'
  <1> USE DEF SessionInv, ServerInv
  <1>1. ASSUME UNCHANGED <<account, link, outbox>>
        PROVE  MailInv'
    BY <1>1, RowsStay DEF OwnerKept, UserOf, mailVars
  <1>2. CASE MailsNext
    BY <1>2, AccountsMail, WorkersMail DEF MailsNext, serverVars, Deliver, Claim, ClaimNothing, Check,
       Send, Finish, Drop, TimePasses, BecomesDue, Lapse, mailVars
  <1>3. ASSUME NEW b \in Tabs, Serve(b)
        PROVE  MailInv'
    <2>1. CASE UNCHANGED <<account, mailVars>>
      BY <1>1, <2>1 DEF mailVars
    <2>2. CASE account' = [account EXCEPT ![req[b].user].version = @ + 1] /\ RetireReset(req[b].user)
      <3>1. PICK u \in Users : u = req[b].user
        BY <1>3 DEF Serve, Whose
      <3>2. \A l \in Links : OwnerKept(l)
        BY <2>2, <3>1 DEF OwnerKept, UserOf, LinkInv, CredInv, AccountRec
      <3>3. QED
        BY <2>2, <3>1, <3>2, RowsClosed DEF RetireReset
    <2>3. QED
      BY <1>3, <2>1, <2>2 DEF Serve
  <1>4. ASSUME NEW b \in Tabs, SessionStep(b), ~Serve(b)
        PROVE  MailInv'
    BY <1>1, <1>4 DEF SessionStep, Begin, BeginLogin, Receive, Fail, Acquire, Refresh, Adopt, Retry,
       Abort, Notice, vars, serverVars, mailVars
  <1>5. ASSUME NEW t, RefreshLate(t) \/ Expire(t) \/ UNCHANGED sessionVars
        PROVE  MailInv'
    BY <1>1, <1>5 DEF RefreshLate, Expire, sessionVars, vars, serverVars, mailVars
  <1>6. QED
    BY <1>2, <1>3, <1>4, <1>5 DEF SessionNext

LEMMA MailInitHolds == AccountsInit => MailInv
  <1> SUFFICES ASSUME AccountsInit PROVE MailInv
    OBVIOUS
  <1>1. PICK past \in Pasts, n \in 0 .. MaxLinks : \E First \in [1 .. n -> Users] : Beginning(past, n, First)
    BY DEF AccountsInit
  <1>2. PICK First \in [1 .. n -> Users] : Beginning(past, n, First)
    BY <1>1
  <1>3. /\ {NoRow, Queued, Mailed} \subseteq RowRec
        /\ NoRow.status = "none" /\ Queued.status = "scheduled" /\ Mailed.status = "sent"
        /\ NoRow.attempts = 0 /\ Queued.attempts = 0 /\ Mailed.attempts = 1
    BY DEF NoRow, Queued, Mailed, RowRec
  <1>4. 0 <= MaxAttempts /\ 1 <= MaxAttempts
    BY AttemptsPositive
  <1>5. ASSUME NEW l \in Links, l \notin 1 .. n
        PROVE  InOrder(l)
    <2>1. outbox[l] = NoRow /\ link[l] \in {SpentLink, NoLink}
      BY <1>2, <1>5 DEF Beginning
    <2>2. SpentLink.state = "spent" /\ NoLink.state = "unused"
      BY DEF SpentLink, NoLink
    <2>3. QED
      BY <1>3, <1>4, <2>1, <2>2 DEF InOrder, AddressKept, Matched, Usable, Scheduled
  <1>6. ASSUME NEW l \in Links, l \in 1 .. n
        PROVE  InOrder(l)
    <2>1. First[l] \in Users /\ Address[First[l]] \in Emails
      BY <1>6, AddressesDiffer
    <2> DEFINE u == First[l]
               confirmed == past = "confirmed"
    <2>2. account[u] = [NewAccount(u) EXCEPT !.verified = confirmed]
      BY <1>2, <1>6, <2>1 DEF Beginning
    <2>3. link[l] = [NewLink("verification", u, Address[u]) EXCEPT !.state = IF confirmed THEN "gone" ELSE @]
      BY <1>2, <1>6 DEF Beginning
    <2>4. outbox[l] = IF past = "queued" THEN Queued ELSE Mailed
      BY <1>2, <1>6 DEF Beginning
    <2>5. past = "queued" => ~confirmed
      OBVIOUS
    <2> HIDE DEF confirmed
    <2>6. account[u].email = Address[u]
      BY <2>2 DEF NewAccount, NoAccount
    <2>7. /\ link[l].user = u /\ link[l].email = Address[u]
          /\ ~confirmed => link[l].state = "current"
      BY <2>3 DEF NewLink
    <2>8. QED
      BY <1>3, <1>4, <2>4, <2>5, <2>6, <2>7 DEF InOrder, AddressKept, Matched, UserOf, Scheduled
  <1>7. outbox = [l \in Links |-> outbox[l]]
    BY <1>2 DEF Beginning
  <1>8. QED
    BY <1>5, <1>6, <1>7 DEF MailInv

\* The outbox and the links agree, whoever writes either: a mail is scheduled for
\* current links only, and each link that can be used has its mail scheduled or
\* sent, or all its attempts made (account.go, and the claims of the notifier).
THEOREM MailsMatch == SessionSpec => []MailMatchesLink
  <1>1. SessionInit => MailInv
    BY MailInitHolds DEF SessionInit, MailsInit
  <1>2. MailInv => MailMatchesLink
    BY DEF MailInv, InOrder, Matched, MailMatchesLink
  <1>3. QED
    BY <1>1, <1>2, MailStep, SessionHolds, PTL DEF SessionSpec

-----------------------------------------------------------------------------
(* The exchange of tokens. *)

\* Nobody but the tabs of the browser exchanges a token that they have: what
\* requests from elsewhere exchange is unknown to them.
Private ==
    \A c \in Calls : call[c].at = "rotate" =>
        /\ call[c].arg # store
        /\ \A b \in Tabs : call[c].arg \notin {req[b].token, req[b].answer}

Exchanged(t) == \E n \in Tokens : token[n].from = t

\* A tab has been given a token that it has not stored yet.
Given(b) ==
    /\ req[b].ok
    /\ \/ req[b].at = "rotated"
       \/ req[b].at = "answered" /\ req[b].kind \in {"login", "password"}

\* Nobody else has that token, and it is not exchanged yet.
Unseen(b) ==
    Given(b) => /\ req[b].answer # store
                /\ req[b].answer \notin lost
                /\ ~Exchanged(req[b].answer)
                /\ \A d \in Tabs : /\ req[d].token # req[b].answer
                                   /\ Given(d) /\ d # b => req[d].answer # req[b].answer

\* A refusal is about a token that nobody has exchanged, unless an answer was
\* given up; while one waits for it, no other tab exchanges.
Awaits(b) ==
    /\ req[b].at = "fetching" \/ (req[b].at = "rotated" /\ ~req[b].ok) =>
         (Exchanged(req[b].token) => req[b].token \in lost)
    /\ Holds(b) /\ store = req[b].token => ~req[b].stale
    /\ \A d \in Tabs : Holds(b) /\ Holds(d) => b = d

\* The token that is stored is exchanged only while the tab that has done so
\* holds the lock.
StoreFresh ==
    store # 0 /\ Exchanged(store) /\ store \notin lost =>
        \E b \in Tabs : req[b].at = "rotated" /\ req[b].ok /\ req[b].token = store

\* Tokens that are spoken of have been issued.
Spoken ==
    \A t \in Tokens :
        Exchanged(t) \/ t \in lost \/ (\E b \in Tabs : req[b].token = t) => Issued(t)

TurnInv == Spoken /\ StoreFresh /\ \A b \in Tabs : Unseen(b) /\ Awaits(b)

\* What a tab was given has been issued.
LEMMA GivenIssued ==
    ASSUME SessionInv, NEW b \in Tabs, Given(b)
    PROVE  req[b].answer \in Tokens /\ Issued(req[b].answer) /\ req[b].answer # 0
  BY BoundsAreNumbers DEF SessionInv, AnswersLast, Given, Tokens

\* Tokens are made, and at most t is exchanged.
Turns(t) == \A n \in Tokens : token'[n].from \in {token[n].from, 0, t}

LEMMA Turned ==
    ASSUME TurnInv, CredsGrow, NEW t \in Tokens \cup {0}, t # 0 => Issued(t), Turns(t)
    PROVE  /\ \A s \in Tokens : Exchanged(s)' => Exchanged(s) \/ s = t
           /\ \A s \in Tokens : Issued(s) => Issued(s)'
           /\ \A s \in Tokens : Exchanged(s)' => Issued(s)'
  <1>1. 0 \notin Tokens
    BY BoundsAreNumbers DEF Tokens
  <1>2. \A s \in Tokens : Issued(s) => Issued(s)'
    BY DEF CredsGrow
  <1>3. \A s \in Tokens : Exchanged(s)' => Exchanged(s) \/ s = t
    BY <1>1 DEF Turns, Exchanged
  <1>4. \A s \in Tokens : Exchanged(s)' => Issued(s)'
    BY <1>1, <1>2, <1>3 DEF TurnInv, Spoken
  <1> QED BY <1>2, <1>3, <1>4

\* A tab that holds the lock speaks of a token, and its request has an account.
LEMMA HolderSpeaks ==
    ASSUME SessionInv, NEW b \in Tabs, Holds(b)
    PROVE  req[b].kind # "login" /\ req[b].token \in Tokens /\ req[b].token # 0 /\ Issued(req[b].token)
  BY NoLogin, BoundsAreNumbers DEF Holds, Tokens

\* Something happens outside of the tabs.
LEMMA OutsideTurns ==
    ASSUME SessionInv, TurnInv, CredsGrow, UNCHANGED <<store, req, lost>>,
           NEW t \in Tokens \cup {0}, t # 0 => Issued(t), Turns(t),
           \/ t \in {0} \cup lost
           \/ t # store /\ \A b \in Tabs : t \notin {req[b].token, req[b].answer}
    PROVE  TurnInv'
  <1>1. /\ \A s \in Tokens : Exchanged(s)' => Exchanged(s) \/ s = t
        /\ \A s \in Tokens : Issued(s) => Issued(s)'
        /\ \A s \in Tokens : Exchanged(s)' => Issued(s)'
    BY Turned
  <1>2. Spoken'
    BY <1>1 DEF TurnInv, Spoken
  <1>3. store \in Tokens \cup {0} /\ 0 \notin Tokens /\ 0 \notin lost
    BY BoundsAreNumbers DEF SessionInv, BrowserTypeOK, Tokens
  <1>4. StoreFresh'
    BY <1>1, <1>3 DEF TurnInv, StoreFresh
  <1>5. ASSUME NEW b \in Tabs PROVE Awaits(b)'
    <2>1. Holds(b) => req[b].token \in Tokens
      BY HolderSpeaks
    <2>2. Awaits(b)
      BY DEF TurnInv
    <2> QED BY <1>1, <1>3, <2>1, <2>2 DEF Awaits, Holds
  <1>6. ASSUME NEW b \in Tabs PROVE Unseen(b)'
    <2>1. Given(b) => req[b].answer \in Tokens
      BY GivenIssued
    <2>2. Unseen(b)
      BY DEF TurnInv
    <2> QED BY <1>1, <1>3, <2>1, <2>2 DEF Unseen, Given
  <1> QED BY <1>2, <1>4, <1>5, <1>6 DEF TurnInv

\* A tab goes on, without holding the lock and without being given a token: it
\* may have saved the token it was given, have given up what it waited for, and
\* have lost its session.
LEMMA TabTurns ==
    ASSUME SessionInv, TurnInv, CredsGrow, Turns(0), NEW b \in Tabs, NEW r \in ReqRec,
           Becomes(b, r), ~Holds(b)', ~Given(b)',
           r.token \in {0, store, req[b].token},
           store' \in {store, 0} \/ (Given(b) /\ store' = req[b].answer),
           lost' = lost \/ (Holds(b) /\ lost' = lost \cup {req[b].token}),
           req[b].at = "rotated" /\ req[b].ok /\ store = req[b].token =>
             store' # store \/ store \in lost'
    PROVE  TurnInv'
  <1>1. /\ \A s \in Tokens : Exchanged(s)' => Exchanged(s)
        /\ \A s \in Tokens : Issued(s) => Issued(s)'
        /\ \A s \in Tokens : Exchanged(s)' => Issued(s)'
    BY Turned, BoundsAreNumbers DEF Tokens
  <1>2. req'[b] = r /\ \A d \in Tabs : d # b => req'[d] = req[d]
    BY DEF Becomes, SessionInv, BrowserTypeOK
  <1>3. /\ store \in Tokens \cup {0} /\ 0 \notin Tokens /\ lost \subseteq Tokens
        /\ store # 0 => Issued(store)
    BY BoundsAreNumbers DEF SessionInv, BrowserTypeOK, Tokens
  <1>4. \A d \in Tabs : Holds(d) => req[d].token \in Tokens /\ Issued(req[d].token)
    BY HolderSpeaks
  <1>5. \A d \in Tabs : Given(d) => req[d].answer \in Tokens
    BY GivenIssued
  <1>6. Spoken'
    <2> SUFFICES ASSUME NEW t \in Tokens, t \in lost' \/ \E d \in Tabs : req'[d].token = t
                 PROVE  Issued(t)'
      BY <1>1 DEF Spoken
    <2>1. t \in lost \/ t = store \/ \E d \in Tabs : req[d].token = t
      BY <1>2, <1>3
    <2>2. Issued(t)
      BY <1>3, <2>1 DEF TurnInv, Spoken
    <2> QED BY <1>1, <2>2
  <1>7. StoreFresh'
    <2>1. CASE store' = store
      BY <1>1, <1>2, <1>3, <2>1 DEF TurnInv, StoreFresh
    <2>2. CASE store' = 0
      BY <2>2 DEF StoreFresh
    <2>3. CASE Given(b) /\ store' = req[b].answer
      <3>1. store' \in Tokens /\ ~Exchanged(store')
        BY <1>5, <2>3 DEF TurnInv, Unseen, Exchanged
      <3>2. ~Exchanged(store)'
        BY <1>1, <3>1 DEF Exchanged
      <3> QED BY <3>2 DEF StoreFresh
    <2> QED BY <2>1, <2>2, <2>3
  <1>8. ASSUME NEW d \in Tabs PROVE Unseen(d)'
    <2>1. CASE d = b
      BY <2>1 DEF Unseen
    <2>2. CASE d # b
      <3> SUFFICES ASSUME Given(d) PROVE Unseen(d)'
        BY <1>2, <2>2 DEF Unseen, Given
      <3>1. Unseen(d) /\ Unseen(b)
        BY DEF TurnInv
      <3>2. store' # req[d].answer
        BY <1>3, <1>5, <2>2, <3>1 DEF Unseen
      <3>3. req[d].answer \notin lost'
        BY <3>1 DEF Unseen
      <3>4. ~Exchanged(req[d].answer)
        BY <3>1 DEF Unseen
      <3>5. ~Exchanged(req[d].answer)'
        BY <1>1, <1>2, <1>5, <2>2, <3>4 DEF Exchanged
      <3>6. \A e \in Tabs : req'[e].token # req[d].answer
        BY <1>2, <1>3, <1>5, <3>1 DEF Unseen
      <3>7. \A e \in Tabs : Given(e)' /\ e # d => req'[e].answer # req[d].answer
        BY <1>2, <3>1 DEF Unseen, Given
      <3> QED BY <1>2, <2>2, <3>2, <3>3, <3>5, <3>6, <3>7 DEF Unseen
    <2> QED BY <2>1, <2>2
  <1>9. ASSUME NEW d \in Tabs PROVE Awaits(d)'
    <2>1. \A e \in Tabs : Holds(e)' => Holds(e) /\ e # b
      BY <1>2 DEF Holds
    <2>2. CASE d = b
      BY <2>1, <2>2 DEF Awaits, Holds
    <2>3. CASE d # b
      <3>1. Awaits(d) /\ Unseen(b) /\ req'[d] = req[d]
        BY <1>2, <2>3 DEF TurnInv
      <3>2. req[d].at = "fetching" \/ (req[d].at = "rotated" /\ ~req[d].ok) =>
              (Exchanged(req[d].token)' => req[d].token \in lost')
        <4>1. \A t \in Tokens : t = req[d].token => t = (req[d].token)'
          BY <3>1
        <4> QED BY <1>1, <1>4, <3>1 DEF Awaits, Holds, Exchanged
      <3>3. Holds(d) /\ store' = req[d].token => ~req[d].stale
        BY <1>3, <1>4, <3>1 DEF Awaits, Unseen
      <3>4. \A e \in Tabs : Holds(d)' /\ Holds(e)' => d = e
        BY <2>1, <3>1 DEF Awaits
      <3> QED BY <3>1, <3>2, <3>3, <3>4 DEF Awaits, Holds
    <2> QED BY <2>2, <2>3
  <1> QED BY <1>6, <1>7, <1>8, <1>9 DEF TurnInv

\* The step of a tab that leaves all tokens alone.
LEMMA TabGoesOn ==
    ASSUME SessionInv, TurnInv, UNCHANGED vars, NEW b \in Tabs, NEW r \in ReqRec,
           Becomes(b, r), r.at \in {"idle", "sent", "queued", "resume"},
           r.token \in {0, store, req[b].token},
           store' \in {store, 0} \/ (Given(b) /\ store' = req[b].answer),
           lost' = lost \/ (Holds(b) /\ lost' = lost \cup {req[b].token}),
           req[b].at = "rotated" /\ req[b].ok /\ store = req[b].token =>
             store' # store \/ store \in lost'
    PROVE  TurnInv'
  <1>1. CredsGrow /\ Turns(0)
    BY ServerStill DEF SessionInv, Turns, vars, serverVars
  <1>2. req'[b] = r
    BY DEF Becomes, SessionInv, BrowserTypeOK
  <1>3. ~Holds(b)' /\ ~Given(b)'
    BY <1>2 DEF Holds, Given
  <1> QED BY <1>1, <1>3, TabTurns

LEMMA TabLeaves ==
    ASSUME SessionInv, TurnInv, UNCHANGED vars, NEW b \in Tabs, Ends(b),
           store' \in {store, 0} \/ (Given(b) /\ store' = req[b].answer),
           lost' = lost \/ (Holds(b) /\ lost' = lost \cup {req[b].token}),
           req[b].at = "rotated" /\ req[b].ok /\ store = req[b].token =>
             store' # store \/ store \in lost'
    PROVE  TurnInv'
  <1>1. NoReq \in ReqRec /\ NoReq.at = "idle" /\ NoReq.token = 0
    BY NoReqIs DEF NoReq
  <1> QED BY <1>1, TabGoesOn DEF Ends

LEMMA BeginTurns ==
    ASSUME SessionInv, TurnInv, NEW b \in Tabs, NEW kind \in Requests, Begin(b, kind)
    PROVE  TurnInv'
  <1> DEFINE x == [[NoReq EXCEPT !.kind = kind, !.user = Identity(store)]
                     EXCEPT !.at = "sent", !.token = store]
  <1>1. x \in ReqRec /\ x.at = "sent" /\ x.token = store
    BY NoReqIs, IdentityIs DEF ReqRec, SessionInv, BrowserTypeOK
  <1>2. /\ Becomes(b, x) /\ UNCHANGED <<vars, store, lost>>
        /\ req[b].at = "idle"
    BY DEF Begin, Sent
  <1> HIDE DEF x
  <1> QED BY <1>1, <1>2, TabGoesOn

LEMMA BeginLoginTurns ==
    ASSUME SessionInv, TurnInv, NEW b \in Tabs, NEW u \in Users, BeginLogin(b, u)
    PROVE  TurnInv'
  <1> DEFINE x == [NoReq EXCEPT !.at = "sent", !.kind = "login", !.user = u]
  <1>1. x \in ReqRec /\ x.at = "sent" /\ x.token = 0
    BY DEF NoReq, ReqRec, Requests
  <1>2. Becomes(b, x) /\ UNCHANGED <<vars, store, lost>> /\ req[b].at = "idle"
    BY DEF BeginLogin
  <1> HIDE DEF x
  <1> QED BY <1>1, <1>2, TabGoesOn

\* A request is sent again.
LEMMA ResendTurns ==
    ASSUME SessionInv, TurnInv, UNCHANGED <<vars, store, lost>>, NEW b \in Tabs,
           req[b].at # "rotated", Sent(b, [req[b] EXCEPT !.again = TRUE])
    PROVE  TurnInv'
  <1> DEFINE x == [[req[b] EXCEPT !.again = TRUE] EXCEPT !.at = "sent", !.token = store]
  <1>1. x \in ReqRec /\ x.at = "sent" /\ x.token = store
    BY DEF ReqRec, SessionInv, BrowserTypeOK
  <1>2. Becomes(b, x)
    BY DEF Sent
  <1> HIDE DEF x
  <1> QED BY <1>1, <1>2, TabGoesOn

LEMMA ReceiveTurns == ASSUME SessionInv, TurnInv, NEW b \in Tabs, Receive(b) PROVE TurnInv'
  <1>1. req[b].at = "answered" /\ UNCHANGED <<vars, lost>> /\ req[b] \in ReqRec
    BY DEF Receive, SessionInv, BrowserTypeOK
  <1>2. CASE req[b].kind = "login" /\ SaveTokens(b, req[b].answer) /\ Ends(b)
    <2>1. Given(b)
      BY <1>1, <1>2 DEF SessionInv, AnswersLast, Given
    <2> QED BY <1>1, <1>2, <2>1, TabLeaves DEF SaveTokens
  <1>3. CASE Throw(b)
    BY <1>1, <1>3, TabLeaves DEF Throw
  <1>4. CASE EndSession(b)
    BY <1>1, <1>4, TabLeaves DEF EndSession
  <1>5. CASE req[b].kind = "password" /\ req[b].ok /\ SaveTokens(b, req[b].answer) /\ Ends(b)
    <2>1. Given(b)
      BY <1>1, <1>5 DEF Given
    <2> QED BY <1>1, <1>5, <2>1, TabLeaves DEF SaveTokens
  <1>6. CASE Becomes(b, [req[b] EXCEPT !.at = "queued"]) /\ UNCHANGED store
    <2> DEFINE x == [req[b] EXCEPT !.at = "queued"]
    <2>1. x \in ReqRec /\ x.at = "queued" /\ x.token = req[b].token /\ Becomes(b, x)
      BY <1>1, <1>6 DEF ReqRec
    <2> HIDE DEF x
    <2> QED BY <1>1, <1>6, <2>1, TabGoesOn
  <1>7. CASE Sent(b, [req[b] EXCEPT !.again = TRUE]) /\ UNCHANGED store
    BY <1>1, <1>7, ResendTurns
  <1> QED BY <1>2, <1>3, <1>4, <1>5, <1>6, <1>7 DEF Receive

LEMMA FailTurns == ASSUME SessionInv, TurnInv, NEW b \in Tabs, Fail(b) PROVE TurnInv'
  BY TabLeaves DEF Fail

LEMMA RetryTurns == ASSUME SessionInv, TurnInv, NEW b \in Tabs, Retry(b) PROVE TurnInv'
  <1>1. req[b].at = "resume" /\ UNCHANGED <<vars, lost>>
    BY DEF Retry
  <1>2. CASE Throw(b)
    BY <1>1, <1>2, TabLeaves DEF Throw
  <1>3. CASE Sent(b, [req[b] EXCEPT !.again = TRUE]) /\ UNCHANGED store
    BY <1>1, <1>3, ResendTurns
  <1> QED BY <1>2, <1>3 DEF Retry

LEMMA AbortTurns == ASSUME SessionInv, TurnInv, NEW b \in Tabs, Abort(b) PROVE TurnInv'
  <1>1. UNCHANGED <<vars, store>> /\ Ends(b)
    BY DEF Abort
  <1>2. lost' = lost \/ (Holds(b) /\ lost' = lost \cup {req[b].token})
    BY DEF Abort
  <1>3. req[b].at = "rotated" => req[b].token \in lost'
    BY DEF Abort, Holds
  <1> QED BY <1>1, <1>2, <1>3, TabLeaves

LEMMA AdoptTurns == ASSUME SessionInv, TurnInv, NEW b \in Tabs, Adopt(b) PROVE TurnInv'
  <1>1. req[b].at = "rotated" /\ UNCHANGED <<vars, lost>> /\ req[b] \in ReqRec /\ Holds(b)
    BY DEF Adopt, SessionInv, BrowserTypeOK, Holds
  <1>2. CASE ~IsCurrent(b) /\ Throw(b)
    <2>1. store # req[b].token
      <3> SUFFICES ASSUME store = req[b].token PROVE FALSE
        OBVIOUS
      <3>1. ~req[b].stale
        BY <1>1 DEF TurnInv, Awaits
      <3>2. /\ seen[b] = req[b].user /\ token[req[b].token].user = req[b].user
            /\ req[b].token \in Tokens /\ req[b].token # 0
        BY <1>1, <3>1, HolderSpeaks DEF SessionInv, Whose
      <3> QED BY <1>2, <3>1, <3>2 DEF IsCurrent, Stale, Identity
    <2> QED BY <1>1, <1>2, <2>1, TabLeaves DEF Throw
  <1>3. CASE ~req[b].ok /\ EndSession(b)
    BY <1>1, <1>3, TabLeaves DEF EndSession
  <1>4. CASE /\ req[b].ok /\ SaveTokens(b, req[b].answer)
             /\ Becomes(b, [req[b] EXCEPT !.at = "resume", !.answer = 0, !.ok = FALSE])
    <2> DEFINE x == [req[b] EXCEPT !.at = "resume", !.answer = 0, !.ok = FALSE]
    <2>1. x \in ReqRec /\ x.at = "resume" /\ x.token = req[b].token /\ Becomes(b, x)
      BY <1>1, <1>4 DEF ReqRec
    <2> HIDE DEF x
    <2>2. Given(b) /\ store' = req[b].answer
      BY <1>1, <1>4 DEF Given, SaveTokens
    <2>3. store' # store
      BY <2>2 DEF TurnInv, Unseen
    <2> QED BY <1>1, <2>1, <2>2, <2>3, TabGoesOn
  <1> QED BY <1>2, <1>3, <1>4 DEF Adopt

\* Only the request of a tab changes, which is given nothing.
LEMMA TabStays ==
    ASSUME SessionInv, TurnInv, UNCHANGED <<vars, store, lost>>, NEW b \in Tabs, NEW r \in ReqRec,
           Becomes(b, r), r.token = req[b].token,
           Given(b)' => Given(b) /\ r.answer = req[b].answer,
           req[b].at = "rotated" /\ req[b].ok => r.at = "rotated" /\ r.ok,
           Holds(b)' => \A d \in Tabs : Holds(d) => d = b,
           Awaits(b)'
    PROVE  TurnInv'
  <1>1. req'[b] = r /\ \A d \in Tabs : d # b => req'[d] = req[d]
    BY DEF Becomes, SessionInv, BrowserTypeOK
  <1>2. token' = token /\ \A d \in Tabs : req'[d].token = req[d].token
    BY <1>1 DEF vars, serverVars
  <1>3. Spoken'
    BY <1>2 DEF TurnInv, Spoken, Exchanged, Issued
  <1>4. StoreFresh'
    BY <1>1, <1>2 DEF TurnInv, StoreFresh, Exchanged
  <1>5. \A d \in Tabs : Given(d)' => Given(d) /\ req'[d].answer = req[d].answer
    BY <1>1 DEF Given
  <1>6. \A d \in Tabs : Unseen(d)'
    BY <1>2, <1>5 DEF TurnInv, Unseen, Exchanged
  <1>7. ASSUME NEW d \in Tabs PROVE Awaits(d)'
    <2>1. CASE d = b
      BY <2>1
    <2>2. CASE d # b
      <3>1. Awaits(d) /\ req'[d] = req[d]
        BY <1>1, <2>2 DEF TurnInv
      <3>2. \A e \in Tabs : Holds(d)' /\ Holds(e)' => d = e
        BY <1>1, <2>2, <3>1 DEF Awaits, Holds
      <3> QED BY <1>2, <3>1, <3>2 DEF Awaits, Holds, Exchanged
    <2> QED BY <2>1, <2>2
  <1> QED BY <1>3, <1>4, <1>6, <1>7 DEF TurnInv

LEMMA AcquireTurns == ASSUME SessionInv, TurnInv, NEW b \in Tabs, Acquire(b) PROVE TurnInv'
  <1>1. /\ req[b].at = "queued" /\ UNCHANGED <<vars, lost>> /\ req[b] \in ReqRec
        /\ \A d \in Tabs : ~Holds(d)
    BY DEF Acquire, SessionInv, BrowserTypeOK, LockFree
  <1>2. CASE Throw(b)
    BY <1>1, <1>2, TabLeaves DEF Throw
  <1>3. CASE Becomes(b, [req[b] EXCEPT !.at = "resume"]) /\ UNCHANGED store
    <2> DEFINE x == [req[b] EXCEPT !.at = "resume"]
    <2>1. x \in ReqRec /\ x.at = "resume" /\ x.token = req[b].token /\ Becomes(b, x)
      BY <1>1, <1>3 DEF ReqRec
    <2> HIDE DEF x
    <2> QED BY <1>1, <1>3, <2>1, TabGoesOn
  <1>4. CASE /\ ~Stale(b) /\ store = req[b].token /\ UNCHANGED store
             /\ Becomes(b, [req[b] EXCEPT !.at = "fetching"])
    <2> DEFINE x == [req[b] EXCEPT !.at = "fetching"]
    <2>1. /\ x \in ReqRec /\ x.at = "fetching" /\ x.token = req[b].token /\ x.stale = req[b].stale
          /\ Becomes(b, x)
      BY <1>1, <1>4 DEF ReqRec
    <2> HIDE DEF x
    <2>2. PICK r \in ReqRec : r = x
      BY <2>1
    <2>3. req'[b] = r /\ \A d \in Tabs : d # b => req'[d] = req[d]
      BY <2>1, <2>2 DEF Becomes, SessionInv, BrowserTypeOK
    <2>4. store \in Tokens /\ store # 0
      BY <1>1, <1>4, NoLogin, BoundsAreNumbers DEF Tokens
    <2>5. Exchanged(store) => store \in lost
      BY <1>1, <2>4 DEF TurnInv, StoreFresh, Holds
    <2>6. token' = token /\ req'[b].token = store /\ ~req'[b].stale
      BY <1>1, <1>4, <2>1, <2>2, <2>3 DEF Stale, vars, serverVars
    <2>7. Awaits(b)'
      BY <1>1, <2>3, <2>5, <2>6 DEF Awaits, Holds, Exchanged
    <2>8. ~Given(b)'
      BY <2>1, <2>2, <2>3 DEF Given
    <2> QED BY <1>1, <1>4, <2>1, <2>2, <2>7, <2>8, TabStays
  <1> QED BY <1>2, <1>3, <1>4 DEF Acquire

LEMMA NoticeTurns == ASSUME SessionInv, TurnInv, NEW b \in Tabs, Notice(b) PROVE TurnInv'
  <1> DEFINE x == [req[b] EXCEPT !.stale = req[b].at # "idle"]
  <1>1. /\ x \in ReqRec /\ x.at = req[b].at /\ x.kind = req[b].kind /\ x.token = req[b].token
        /\ x.ok = req[b].ok /\ x.answer = req[b].answer
    BY DEF SessionInv, BrowserTypeOK, ReqRec
  <1>2. Becomes(b, x) /\ UNCHANGED <<vars, store, lost>> /\ seen[b] # Identity(store)
    BY DEF Notice, Becomes
  <1> HIDE DEF x
  <1>3. PICK r \in ReqRec : r = x
    BY <1>1
  <1>4. req'[b] = r /\ \A d \in Tabs : d # b => req'[d] = req[d]
    BY <1>2, <1>3 DEF Becomes, SessionInv, BrowserTypeOK
  <1>5. token' = token
    BY <1>2 DEF vars, serverVars
  <1>6. Given(b)' <=> Given(b)
    BY <1>1, <1>3, <1>4 DEF Given
  <1>7. Holds(b) => store # req[b].token
    <2> SUFFICES ASSUME Holds(b), store = req[b].token PROVE FALSE
      OBVIOUS
    <2>1. ~req[b].stale
      BY DEF TurnInv, Awaits
    <2>2. /\ seen[b] = req[b].user /\ token[req[b].token].user = req[b].user
          /\ req[b].token \in Tokens /\ req[b].token # 0
      BY <2>1, HolderSpeaks DEF SessionInv, Whose, Holds
    <2> QED BY <1>2, <2>2 DEF Identity
  <1>8. \A d \in Tabs : Holds(d)' <=> Holds(d)
    BY <1>1, <1>3, <1>4 DEF Holds
  <1>9. Awaits(b)'
    <2>1. Awaits(b) /\ req'[b].token = req[b].token /\ req'[b].at = req[b].at /\ req'[b].ok = req[b].ok
      BY <1>1, <1>3, <1>4 DEF TurnInv
    <2> QED BY <1>2, <1>5, <1>7, <1>8, <2>1 DEF Awaits, Exchanged
  <1>10. Holds(b)' => \A d \in Tabs : Holds(d) => d = b
    BY <1>8 DEF TurnInv, Awaits
  <1> QED BY <1>1, <1>2, <1>3, <1>6, <1>9, <1>10, TabStays

\* A fresh token is one that nobody speaks of.
Unspoken(n) ==
    /\ n # store /\ n \notin lost /\ ~Exchanged(n)
    /\ \A d \in Tabs : req[d].token # n /\ (Given(d) => req[d].answer # n)

LEMMA FreshUnspoken ==
    ASSUME SessionInv, TurnInv, FreshTokens # {}
    PROVE  FreshToken \in Tokens /\ Unspoken(FreshToken)
  <1>1. PICK n \in Tokens : n = FreshToken /\ token[n].state = "unused"
    BY FreshTokenIs
  <1>2. ~Issued(n) /\ n # 0
    BY <1>1, BoundsAreNumbers DEF Issued, Tokens
  <1>3. \A d \in Tabs : Given(d) => Issued(req[d].answer)
    BY GivenIssued
  <1>4. n # store /\ n \notin lost /\ ~Exchanged(n) /\ \A d \in Tabs : req[d].token # n
    BY <1>2 DEF TurnInv, Spoken, SessionInv, BrowserTypeOK
  <1> QED BY <1>1, <1>2, <1>3, <1>4 DEF Unspoken

\* A tab is given a fresh token, in exchange for its own (t) or for none.
LEMMA TabGains ==
    ASSUME SessionInv, TurnInv, CredsGrow, UNCHANGED <<store, lost>>, NEW b \in Tabs,
           NEW r \in ReqRec, Becomes(b, r), NEW n \in Tokens, Unspoken(n),
           r.answer = n, r.token = req[b].token, r.stale = req[b].stale, r.ok,
           NEW t \in Tokens \cup {0}, Turns(t),
           \/ t = 0 /\ req[b].at = "sent" /\ r.at = "answered"
           \/ t = req[b].token /\ req[b].at = "fetching" /\ r.at = "rotated"
    PROVE  TurnInv'
  <1>1. req'[b] = r /\ \A d \in Tabs : d # b => req'[d] = req[d]
    BY DEF Becomes, SessionInv, BrowserTypeOK
  <1>2. /\ 0 \notin Tokens /\ store \in Tokens \cup {0}
        /\ \A d \in Tabs : Holds(d) => req[d].token \in Tokens /\ Issued(req[d].token)
    BY HolderSpeaks, BoundsAreNumbers DEF Tokens, SessionInv, BrowserTypeOK
  <1>3. t # 0 => Issued(t) /\ t \in Tokens
    BY <1>2 DEF Holds
  <1>4. /\ \A s \in Tokens : Exchanged(s)' => Exchanged(s) \/ s = t
        /\ \A s \in Tokens : Issued(s) => Issued(s)'
        /\ \A s \in Tokens : Exchanged(s)' => Issued(s)'
    BY <1>3, Turned
  <1>5. \A d \in Tabs : req'[d].token = req[d].token
    BY <1>1
  <1>6. Spoken'
    BY <1>4, <1>5 DEF TurnInv, Spoken
  <1>7. \A d, e \in Tabs : Holds(d) /\ Holds(e) => d = e
    BY DEF TurnInv, Awaits
  <1>8. \A d \in Tabs : Holds(d)' <=> Holds(d)
    BY <1>1 DEF Holds
  <1>9. StoreFresh'
    <2> SUFFICES ASSUME store # 0, store \in Tokens, Exchanged(store)', store \notin lost
                 PROVE  \E d \in Tabs : req'[d].at = "rotated" /\ req'[d].ok /\ req'[d].token = store
      BY <1>2 DEF StoreFresh, Exchanged
    <2>1. CASE store = t
      BY <1>1, <1>3, <2>1
    <2>2. CASE store # t
      <3>1. Exchanged(store)
        <4>1. \A s \in Tokens : s = store => s = store'
          OBVIOUS
        <4> QED BY <1>4, <2>2, <4>1 DEF Exchanged
      <3>2. PICK d \in Tabs : req[d].at = "rotated" /\ req[d].ok /\ req[d].token = store
        BY <3>1 DEF TurnInv, StoreFresh
      <3>3. d # b
        BY <3>2
      <3> QED BY <1>1, <3>2, <3>3
    <2> QED BY <2>1, <2>2
  <1>10. ~Exchanged(n)'
    <2>1. n # t
      BY <1>2 DEF Unspoken
    <2> QED BY <1>4, <2>1 DEF Unspoken
  <1>11. ASSUME NEW d \in Tabs PROVE Unseen(d)'
    <2>1. CASE d = b
      <3>1. req'[d].answer = n
        BY <1>1, <2>1
      <3>2. \A e \in Tabs : Given(e)' /\ e # d => req'[e].answer # n
        BY <1>1, <2>1 DEF Unspoken, Given
      <3>3. ~Exchanged(req[d].answer)'
        BY <1>10, <3>1 DEF Exchanged
      <3> QED BY <1>5, <3>1, <3>2, <3>3 DEF Unseen, Unspoken
    <2>2. CASE d # b
      <3> SUFFICES ASSUME Given(d) PROVE Unseen(d)'
        BY <1>1, <2>2 DEF Unseen, Given
      <3>1. Unseen(d) /\ req'[d] = req[d]
        BY <1>1, <2>2 DEF TurnInv
      <3>2. req[d].answer \in Tokens /\ req[d].answer # n
        BY GivenIssued DEF Unspoken
      <3>3. ~Exchanged(req[d].answer) /\ req[d].answer # t
        BY <1>2, <3>1, <3>2 DEF Unseen
      <3>4. ~Exchanged(req[d].answer)'
        BY <1>4, <3>1, <3>2, <3>3 DEF Exchanged
      <3>5. \A e \in Tabs : Given(e)' /\ e # d => req'[e].answer # req[d].answer
        BY <1>1, <3>1, <3>2 DEF Unseen, Given
      <3> QED BY <1>5, <3>1, <3>4, <3>5 DEF Unseen
    <2> QED BY <2>1, <2>2
  <1>12. ASSUME NEW d \in Tabs PROVE Awaits(d)'
    <2>1. Awaits(d) /\ req'[d].stale = req[d].stale
      BY <1>1 DEF TurnInv
    <2>2. Holds(d) /\ store = req[d].token => ~req'[d].stale
      BY <2>1 DEF Awaits
    <2>3. req'[d].at = "fetching" \/ (req'[d].at = "rotated" /\ ~req'[d].ok) =>
            (Exchanged(req[d].token)' => req[d].token \in lost)
      <3> SUFFICES ASSUME req'[d].at = "fetching" \/ (req'[d].at = "rotated" /\ ~req'[d].ok),
                          Exchanged(req[d].token)'
                   PROVE  req[d].token \in lost
        OBVIOUS
      <3>1. d # b /\ req'[d] = req[d] /\ Holds(d)
        BY <1>1 DEF Holds
      <3>2. ~Holds(b)
        BY <1>7, <3>1
      <3>3. t = 0 /\ req[d].token \in Tokens
        BY <1>2, <3>1, <3>2 DEF Holds
      <3>4. PICK s \in Tokens : s = req[d].token /\ s # t
        BY <1>2, <3>3
      <3>5. Exchanged(s)'
        BY <3>1, <3>4 DEF Exchanged
      <3>6. Exchanged(req[d].token)
        BY <1>4, <3>4, <3>5
      <3> QED BY <2>1, <3>1, <3>6 DEF Awaits
    <2> QED BY <1>5, <1>7, <1>8, <2>2, <2>3 DEF Awaits
  <1> QED BY <1>6, <1>9, <1>11, <1>12 DEF TurnInv

\* Where the tokens of a step come from.
LEMMA TokensTurn ==
    ASSUME CredInv,
           \/ token' = token
           \/ \E t \in Tokens : token' = [token EXCEPT ![t].state = "dead"]
           \/ \E u \in Users : token' = Revoked(u)
           \/ FreshTokens # {} /\ \E u \in Users : token' = ChangedSessions(u)
           \/ FreshTokens # {} /\ \E u, v : token' = [token EXCEPT ![FreshToken] = NewSession(u, v, 0)]
    PROVE  Turns(0)
  <1>1. token \in [Tokens -> TokenRec]
    BY DEF CredInv
  <1>2. CASE token' = token
    BY <1>2 DEF Turns
  <1>3. ASSUME NEW t \in Tokens, token' = [token EXCEPT ![t].state = "dead"]
        PROVE  Turns(0)
    BY <1>1, <1>3 DEF Turns, TokenRec
  <1>4. ASSUME NEW u \in Users, token' = Revoked(u)
        PROVE  Turns(0)
    BY <1>4, RevokedIs DEF Turns
  <1>5. ASSUME NEW n \in Tokens, NEW R \in [Tokens -> TokenRec], NEW u, NEW v,
               \A t \in Tokens : R[t].from = token[t].from,
               token' = [R EXCEPT ![n] = NewSession(u, v, 0)]
        PROVE  Turns(0)
    <2>1. NewSession(u, v, 0).from = 0
      BY DEF NewSession
    <2>2. \A t \in Tokens : t # n => token'[t] = R[t]
      BY <1>5
    <2>3. token'[n] = NewSession(u, v, 0)
      BY <1>5
    <2> QED BY <1>5, <2>1, <2>2, <2>3 DEF Turns
  <1>6. ASSUME FreshTokens # {}, NEW u \in Users, token' = ChangedSessions(u)
        PROVE  Turns(0)
    <2>1. PICK n \in Tokens : n = FreshToken
      BY <1>6, FreshTokenIs
    <2>2. PICK R \in [Tokens -> TokenRec] : R = Revoked(u)
      BY RevokedIs
    <2>3. \A t \in Tokens : R[t].from = token[t].from
      BY <2>2, RevokedIs
    <2>4. token' = [R EXCEPT ![n] = NewSession(u, account[u].version + 1, 0)]
      BY <1>6, <2>1, <2>2 DEF ChangedSessions
    <2> QED BY <2>3, <2>4, <1>5
  <1>7. ASSUME FreshTokens # {}, NEW u, NEW v, token' = [token EXCEPT ![FreshToken] = NewSession(u, v, 0)]
        PROVE  Turns(0)
    <2>1. PICK n \in Tokens : n = FreshToken
      BY <1>7, FreshTokenIs
    <2>2. PICK R \in [Tokens -> TokenRec] : R = token
      BY <1>1
    <2>3. token' = [R EXCEPT ![n] = NewSession(u, v, 0)]
      BY <1>7, <2>1, <2>2
    <2> QED BY <2>2, <2>3, <1>5
  <1> QED BY <1>2, <1>3, <1>4, <1>6, <1>7

LEMMA RotatedTurns ==
    ASSUME CredInv, NEW t \in Tokens, FreshTokens # {}, token' = Rotated(t)
    PROVE  Turns(t)
  <1>1. PICK n \in Tokens : n = FreshToken
    BY FreshTokenIs
  <1> DEFINE old == [token[t] EXCEPT !.state = "dead"]
             new == NewSession(token[t].user, token[t].version, t)
  <1>2. old.from = token[t].from
    BY DEF CredInv, TokenRec
  <1>3. new.from = t
    BY DEF NewSession
  <1>4. token' = [token EXCEPT ![t] = old, ![n] = new]
    BY <1>1 DEF Rotated
  <1> HIDE DEF old, new
  <1>5. \A s \in Tokens : token'[s] \in {token[s], new} \/ (s = t /\ token'[s] = old)
    BY <1>4 DEF CredInv
  <1> QED BY <1>2, <1>3, <1>5 DEF Turns

LEMMA ServeTurns == ASSUME SessionInv, TurnInv, NEW b \in Tabs, Serve(b) PROVE TurnInv'
  <1>1. /\ req[b].at = "sent" /\ UNCHANGED <<store, lost>> /\ req[b] \in ReqRec
        /\ token \in [Tokens -> TokenRec]
    BY DEF Serve, SessionInv, BrowserTypeOK, ServerInv, CredInv
  <1>2. CredsGrow
    BY ServeKeeps
  <1>3. ASSUME NEW ok \in BOOLEAN, Answered(b, ok, 0), Turns(0),
               ok => req[b].kind \notin {"login", "password"}
        PROVE  TurnInv'
    <2> DEFINE x == [req[b] EXCEPT !.at = "answered", !.ok = ok, !.answer = 0]
    <2>1. /\ x \in ReqRec /\ x.at = "answered" /\ x.ok = ok /\ x.kind = req[b].kind
          /\ x.token = req[b].token /\ Becomes(b, x)
      BY <1>1, <1>3 DEF ReqRec, Answered
    <2> HIDE DEF x
    <2>2. PICK r \in ReqRec : r = x
      BY <2>1
    <2>3. req'[b] = r
      BY <2>1, <2>2 DEF Becomes, SessionInv, BrowserTypeOK
    <2>4. ~Holds(b)' /\ ~Given(b)'
      BY <1>3, <2>1, <2>2, <2>3 DEF Holds, Given
    <2> QED BY <1>1, <1>2, <1>3, <2>1, <2>2, <2>4, TabTurns
  <1>4. ASSUME FreshTokens # {}, Answered(b, TRUE, FreshToken), Turns(0)
        PROVE  TurnInv'
    <2>1. PICK n \in Tokens : n = FreshToken /\ Unspoken(n)
      BY <1>4, FreshUnspoken
    <2> DEFINE x == [req[b] EXCEPT !.at = "answered", !.ok = TRUE, !.answer = n]
    <2>2. /\ x \in ReqRec /\ x.at = "answered" /\ x.ok /\ x.answer = n
          /\ x.token = req[b].token /\ x.stale = req[b].stale
      BY <1>1 DEF ReqRec
    <2>3. Becomes(b, x)
      BY <1>4, <2>1 DEF Answered
    <2> HIDE DEF x
    <2>4. PICK t \in Tokens \cup {0} : t = 0
      OBVIOUS
    <2>5. Turns(t)
      BY <1>4, <2>4
    <2> QED BY <1>1, <1>2, <2>1, <2>2, <2>3, <2>4, <2>5, TabGains
  <1>5. Turns(0)
    <2>1. req[b].user \in Users /\ (req[b].kind # "login" => req[b].token \in Tokens)
      BY <1>1 DEF SessionInv, Whose
    <2>2. \/ token' = token
          \/ token' = [token EXCEPT ![req[b].token].state = "dead"] /\ req[b].kind = "logout"
          \/ FreshTokens # {} /\ token' = ChangedSessions(req[b].user)
          \/ FreshTokens # {} /\ token' = [token EXCEPT ![FreshToken] =
                                             NewSession(req[b].user, account[req[b].user].version, 0)]
      BY DEF Serve
    <2> QED BY <2>1, <2>2, TokensTurn DEF SessionInv, ServerInv
  <1> QED BY <1>3, <1>4, <1>5 DEF Serve

LEMMA RefreshTurns == ASSUME SessionInv, TurnInv, NEW b \in Tabs, Refresh(b) PROVE TurnInv'
  <1>1. /\ req[b].at = "fetching" /\ UNCHANGED <<store, lost>> /\ req[b] \in ReqRec /\ Holds(b)
        /\ UNCHANGED <<account, call, used, mailVars, worker>>
    BY DEF Refresh, SessionInv, BrowserTypeOK, Holds
  <1>2. req[b].token \in Tokens /\ req[b].token # 0
    BY <1>1, HolderSpeaks
  <1>3. CASE /\ Live(req[b].token) /\ FreshTokens # {}
             /\ token' = Rotated(req[b].token)
             /\ Becomes(b, [req[b] EXCEPT !.at = "rotated", !.ok = TRUE, !.answer = FreshToken])
    <2>1. PICK n \in Tokens : n = FreshToken /\ Unspoken(n)
      BY <1>3, FreshUnspoken
    <2> DEFINE x == [req[b] EXCEPT !.at = "rotated", !.ok = TRUE, !.answer = n]
    <2>2. /\ x \in ReqRec /\ x.at = "rotated" /\ x.ok /\ x.answer = n
          /\ x.token = req[b].token /\ x.stale = req[b].stale
      BY <1>1 DEF ReqRec
    <2>3. Becomes(b, x)
      BY <1>3, <2>1
    <2> HIDE DEF x
    <2>4. PICK t \in Tokens : t = req[b].token
      BY <1>2
    <2>5. Turns(t) /\ CredsGrow
      BY <1>1, <1>3, <2>4, RotatedTurns, RotationKeeps DEF SessionInv, ServerInv
    <2> QED BY <1>1, <2>1, <2>2, <2>3, <2>4, <2>5, TabGains
  <1>4. CASE /\ Becomes(b, [req[b] EXCEPT !.at = "rotated", !.ok = FALSE])
             /\ UNCHANGED token
    <2> DEFINE x == [req[b] EXCEPT !.at = "rotated", !.ok = FALSE]
    <2>1. /\ x \in ReqRec /\ x.at = "rotated" /\ ~x.ok
          /\ x.token = req[b].token /\ x.stale = req[b].stale
      BY <1>1 DEF ReqRec
    <2>2. Becomes(b, x)
      BY <1>4
    <2> HIDE DEF x
    <2>3. PICK r \in ReqRec : r = x
      BY <2>1
    <2>4. req'[b] = r /\ \A d \in Tabs : d # b => req'[d] = req[d]
      BY <2>2, <2>3 DEF Becomes, SessionInv, BrowserTypeOK
    <2>5. UNCHANGED vars
      BY <1>1, <1>4 DEF vars, serverVars, mailVars
    <2>6. ~Given(b)'
      BY <2>1, <2>3, <2>4 DEF Given
    <2>7. \A d \in Tabs : Holds(d)' <=> Holds(d)
      BY <1>1, <2>1, <2>3, <2>4 DEF Holds
    <2>8. Awaits(b)'
      <3>1. Awaits(b) /\ req'[b].token = req[b].token /\ req'[b].stale = req[b].stale
        BY <2>1, <2>3, <2>4 DEF TurnInv
      <3> QED BY <1>1, <1>4, <2>7, <3>1 DEF Awaits, Exchanged
    <2>9. Holds(b)' => \A d \in Tabs : Holds(d) => d = b
      BY <2>7 DEF TurnInv, Awaits
    <2> QED BY <1>1, <2>1, <2>2, <2>3, <2>5, <2>6, <2>8, <2>9, TabStays
  <1> QED BY <1>3, <1>4 DEF Refresh

\* What requests from elsewhere make of the tokens.
LEMMA ElsewhereTurns ==
    ASSUME ServerInv, MailsNext
    PROVE  \/ Turns(0)
           \/ \E c \in Calls : call[c].at = "rotate" /\ call[c].arg \in Tokens
                               /\ Live(call[c].arg) /\ Turns(call[c].arg)
  <1>1. CredInv
    BY DEF ServerInv
  <1>2. CASE token' = token
    BY <1>1, <1>2, TokensTurn
  <1>3. CASE AccountsNext
    <2>1. ASSUME NEW c \in Calls, LoginSave(c) PROVE Turns(0)
      BY <1>1, <2>1, TokensTurn DEF LoginSave
    <2>2. ASSUME NEW c \in Calls, Rotate(c), Live(call[c].arg)
          PROVE  call[c].at = "rotate" /\ call[c].arg \in Tokens /\ Turns(call[c].arg)
      <3>1. call[c].at = "rotate" /\ call[c].arg \in Tokens
        BY <2>2 DEF Rotate, ServerInv, CallInv
      <3> QED BY <1>1, <2>2, <3>1, RotatedTurns DEF Rotate
    <2>3. ASSUME NEW c \in Calls, ChangePassword(c) \/ ResetPassword(c) \/ \E e \in Emails : ChangeEmail(c, e)
          PROVE  Turns(0)
      <3>1. call[c].user \in Users
        BY <2>3 DEF ChangePassword, ResetPassword, ChangeEmail, ServerInv, CallInv
      <3> QED BY <1>1, <2>3, <3>1, TokensTurn DEF ChangePassword, ResetPassword, ChangeEmail
    <2>4. ASSUME NEW t \in Tokens, Logout(t) PROVE Turns(0)
      BY <1>1, <2>4, TokensTurn DEF Logout
    <2>5. ASSUME NEW u \in Users, Register(u) \/ LogoutAll(u) PROVE Turns(0)
      BY <1>1, <2>5, TokensTurn DEF Register, LogoutAll
    <2> QED BY <1>2, <1>3, <2>1, <2>2, <2>3, <2>4, <2>5
        DEF AccountsNext, LoginRead, ResendRead, RotateFind, ChangeRead, ResetFind, ConfirmFind, Finds, Reads,
            Rotate, ConfirmEmail, Resend, GiveUp, RequestPasswordReset, ExpireLink, CleanLinks
  <1> QED BY <1>2, <1>3 DEF MailsNext, Deliver, Claim, ClaimNothing, Check, Send, Finish, Drop, TimePasses,
                            BecomesDue, Lapse, serverVars

LEMMA TurnInitHolds == SessionInit => TurnInv
  <1> SUFFICES ASSUME SessionInit PROVE TurnInv
    OBVIOUS
  <1>1. SessionInv
    BY SessionInitHolds
  <1>2. ASSUME NEW past, NEW n, NEW First, Beginning(past, n, First), NEW t \in Tokens
        PROVE  token[t].from = 0
    <2>1. PICK Spent \in SUBSET (Tokens \ 1 .. n) :
            token = [x \in Tokens |-> IF x \in 1 .. n THEN NewSession(First[x], 0, 0)
                                      ELSE IF x \in Spent THEN SpentToken ELSE NoToken]
      BY <1>2 DEF Beginning
    <2> QED BY <2>1 DEF NewSession, SpentToken, NoToken
  <1>3. \A t \in Tokens : token[t].from = 0
    BY <1>2 DEF SessionInit, MailsInit, AccountsInit
  <1>4. \A t \in Tokens : ~Exchanged(t)
    BY <1>3, BoundsAreNumbers DEF Exchanged, Tokens
  <1>5. req = [b \in Tabs |-> NoReq] /\ lost = {} /\ NoReq.at = "idle" /\ NoReq.token = 0
    BY NoReqIs DEF SessionInit, NoReq
  <1>6. 0 \notin Tokens /\ store \in Tokens \cup {0}
    BY <1>1, BoundsAreNumbers DEF Tokens, SessionInv, BrowserTypeOK
  <1>7. \A b \in Tabs : ~Given(b) /\ ~Holds(b)
    BY <1>5 DEF Given, Holds
  <1>8. Spoken
    BY <1>4, <1>5, <1>6 DEF Spoken
  <1>9. StoreFresh
    BY <1>4, <1>6 DEF StoreFresh
  <1>10. \A b \in Tabs : Unseen(b) /\ Awaits(b)
    BY <1>7 DEF Unseen, Awaits, Holds
  <1> QED BY <1>8, <1>9, <1>10 DEF TurnInv

LEMMA TurnStepKeeps ==
    ASSUME SessionInv, TurnInv, Private, [SessionNext]_sessionVars
    PROVE  TurnInv'
  <1>1. PICK none \in Tokens \cup {0} : none = 0
    OBVIOUS
  <1>2. ASSUME UNCHANGED <<store, req, lost>>, CredsGrow, Turns(0)
        PROVE  TurnInv'
    <2>1. Turns(none)
      BY <1>1, <1>2
    <2> QED BY <1>1, <1>2, <2>1, OutsideTurns
  <1>3. CASE UNCHANGED sessionVars
    <2>1. UNCHANGED vars /\ UNCHANGED <<store, req, lost>> /\ token' = token
      BY <1>3 DEF sessionVars, vars, serverVars, browserVars
    <2> QED BY <1>2, <2>1, ServerStill DEF SessionInv, Turns
  <1>4. CASE MailsNext /\ UNCHANGED browserVars
    <2>1. CredsGrow
      BY <1>4, MailsStep DEF SessionInv
    <2>2. UNCHANGED <<store, req, lost>>
      BY <1>4 DEF browserVars
    <2>3. ASSUME NEW c \in Calls, call[c].at = "rotate", call[c].arg \in Tokens,
                 Live(call[c].arg), Turns(call[c].arg)
          PROVE  TurnInv'
      <3>1. PICK t \in Tokens \cup {0} : t = call[c].arg
        BY <2>3
      <3>2. t # store /\ \A b \in Tabs : t \notin {req[b].token, req[b].answer}
        BY <2>3, <3>1 DEF Private
      <3>3. Issued(t) /\ Turns(t)
        BY <2>3, <3>1 DEF Live, Issued
      <3> QED BY <2>1, <2>2, <3>2, <3>3, OutsideTurns
    <2> QED BY <1>2, <1>4, <2>1, <2>2, <2>3, ElsewhereTurns DEF SessionInv
  <1>5. ASSUME NEW b \in Tabs, SessionStep(b)
        PROVE  TurnInv'
    <2>1. ASSUME NEW kind \in {"plain", "logout", "password"}, Begin(b, kind)
          PROVE  TurnInv'
      BY <2>1, BeginTurns DEF Requests
    <2>2. ASSUME NEW u \in Users, BeginLogin(b, u)
          PROVE  TurnInv'
      BY <2>2, BeginLoginTurns
    <2> QED BY <1>5, <2>1, <2>2, ServeTurns, ReceiveTurns, FailTurns, AcquireTurns, RefreshTurns,
               AdoptTurns, RetryTurns, AbortTurns, NoticeTurns DEF SessionStep
  <1>6. ASSUME NEW s \in lost, RefreshLate(s)
        PROVE  TurnInv'
    <2>1. PICK t \in Tokens \cup {0} : t = s /\ t \in Tokens
      BY DEF SessionInv, BrowserTypeOK
    <2>2. CredsGrow
      BY <1>6, <2>1, RotationKeeps DEF RefreshLate, SessionInv
    <2>3. Issued(t) /\ Turns(t) /\ t \in lost
      BY <1>6, <2>1, RotatedTurns DEF RefreshLate, Live, Issued, SessionInv, ServerInv
    <2>4. UNCHANGED <<store, req, lost>>
      BY <1>6 DEF RefreshLate, browserVars
    <2> QED BY <2>2, <2>3, <2>4, OutsideTurns
  <1>7. ASSUME NEW t \in Tokens, Expire(t)
        PROVE  TurnInv'
    <2>1. UNCHANGED vars /\ UNCHANGED <<store, req, lost>> /\ token' = token
      BY <1>7 DEF Expire, vars, serverVars
    <2> QED BY <1>2, <2>1, ServerStill DEF SessionInv, Turns
  <1> QED BY <1>3, <1>4, <1>5, <1>6, <1>7 DEF SessionNext

\* The tabs never exchange one token twice, whichever of them waits, gives up
\* or goes on: a refusal of a token that was exchanged follows an answer that
\* was given up.  This is so as long as no request from elsewhere exchanges a
\* token of the browser (frontend/src/lib/api.ts: refreshAccess).
THEOREM RotatesOnce == SessionSpec /\ []Private => []OneRotation
  <1>1. SessionInit => TurnInv
    BY TurnInitHolds
  <1>2. SessionInv /\ TurnInv /\ Private /\ [SessionNext]_sessionVars => TurnInv'
    BY TurnStepKeeps
  <1>3. TurnInv => OneRotation
    BY DEF TurnInv, Awaits, Exchanged, OneRotation
  <1> QED BY <1>1, <1>2, <1>3, SessionHolds, PTL DEF SessionSpec

=============================================================================
