\* Two ticks, three ids in any order, two mailed links, two generations.
CONSTANTS
    W4 = 2
    W6 = 4
    MappedPrefix = {2}
    Visitors <- MCVisitors
    Proxy <- MCProxy
    ProxyRange <- MCProxyRange
    Forgeries <- MCForgeries
    Email <- MCEmail
    Burst = 1
    IndexLimit = 2
    ConfirmTtl = 0
    UnsubscribeTtl = 1
    MaxNow = 2
    SendIds = {1, 2, 3}
    MaxLinks = 3
    MaxGen = 1
SPECIFICATION Spec
INVARIANTS
    PagesTypeOK
    BudgetKept
    OwnBucket
    LinksReadBack
    PreviewIsHonest
    TruncationTold
