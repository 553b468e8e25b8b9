\* Two calls on the server, two workers, two tabs; at most two fresh tokens or
\* links in a scenario.
CONSTANTS
    u1 = u1
    u2 = u2
    e1 = e1
    e2 = e2
    c1 = c1
    w1 = w1
    b1 = b1
    b2 = b2
    Users = {u1, u2}
    Emails = {e1, e2}
    Address <- MCAddress
    MaxTokens = 4
    MaxLinks = 3
    Calls = {c1, c2}
    Workers = {w1, w2}
    MaxAttempts = 2
    Tabs = {b1, b2}
    None = None
SPECIFICATION MCSpec
INVARIANTS
    SessionsOfCurrentCredentials
    LinksWorkOnce
    MailMatchesLink
    OneRotation
PROPERTIES
    EveryMailSettles
    KeepsAccount
    EndsOnlyRefused
CHECK_DEADLOCK FALSE
