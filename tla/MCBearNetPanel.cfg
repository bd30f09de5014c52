\* One connection of another program and one host, a map for one of them.
CONSTANTS
    s1 = s1
    s2 = s2
    name = name
    address = address
    tail = tail
    Labels <- MCLabels
    Etld <- MCEtld
    RuleClients = {}
    Wishes <- MCWishes
    Sockets = {s1}
    OfBrowser = {}
    AddressOf <- MCAddressOf
    Addresses <- MCAddresses
    Names <- MCNames
    Hosts = {name}
    MapClients = {m1}
    Cap = 1
    Grace = 0
    Capacity = 2
    NoLabel = NoLabel
    NoRecord = NoRecord
SPECIFICATION PanelSpec
INVARIANTS
    GhostsHaveACause
