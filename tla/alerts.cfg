SPECIFICATION MCSpec
CONSTANTS
    a = a
    l = l
    e1 = e1
    e2 = e2
    x = x
    y = y
    ItemAlerts = {a}
    ListAlerts = {l}
    Entries = {e1, e2}
    Items = {x, y}
    ItemOf <- MCItemOf
    Prices = {1, 2}
    Cooldowns = {2}
    Handlers = {h1}
    Requests <- MCRequests
    Room = 1
    Horizon = 2
    Restarts = 1
CONSTRAINT Pertinent
INVARIANTS
    TypeOK
    QuietIsFresh
PROPERTIES
    AlertsApart
    SettlesFresh
