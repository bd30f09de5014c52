\* One connection, no requests; stops when the panel keeps it for ever.
CONSTANTS
    s1 = s1
    s2 = s2
    name = name
    address = address
    tail = tail
    Labels <- MCLabels
    Etld <- MCEtld
    RuleClients = {}
    Wishes <- MCWishes
    Sockets = {s1}
    OfBrowser = {s1}
    AddressOf <- MCAddressOf
    Addresses <- MCAddresses
    Names <- MCNames
    Hosts = {}
    MapClients = {}
    Cap = 1
    Grace = 0
    Capacity = 2
    NoLabel = NoLabel
    NoRecord = NoRecord
SPECIFICATION FairPanelSpec
PROPERTIES
    PanelFades
