\* Requests for rules, their file and restarts with a connection of the browser; or scope changes,
\* clears and the hook with two connections, and a map for fewer than all keys.
\* Each with the poll.
CONSTANTS
    s1 = s1
    s2 = s2
    name = name
    address = address
    tail = tail
    Labels <- MCLabels
    Etld <- MCEtld
    RuleClients = {r1, r2}
    Wishes <- MCWishes
    Sockets = {s1, s2}
    OfBrowser = {s1}
    AddressOf <- MCAddressOf
    Addresses <- MCAddresses
    Names <- MCNames
    Hosts = {name}
    MapClients = {m1}
    Cap = 2
    Grace = 0
    NoLabel = NoLabel
    NoRecord = NoRecord
SPECIFICATION MCSpec
INVARIANTS
    RulesAreKept
PROPERTIES
    NothingLiveIsReaped
    ClosedConnectionsFade
    FlagsFollowTheRules
