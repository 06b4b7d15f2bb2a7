SPECIFICATION MCSpec
CONSTANTS
    Parts = {"checkouts", "events", "usage", "renewals"}
    w1 = w1
    w2 = w2
    o1 = o1
    o2 = o2
    a1 = a1
    s1 = s1
    s2 = s2
    paid1 = paid1
    paidAgain1 = paidAgain1
    paid2 = paid2
    underpaid1 = underpaid1
    refundA = refundA
    refundB = refundB
    refundC = refundC
    other = other
    adjust = adjust
    takeBack = takeBack
    None = None
    Accounts = {a1}
    Producers = {"p"}
    Sources = {"s"}
    Keys = {"k1", "k2", "k3"}
    EventIds = {"e1", "e2", "e3"}
    AuthIds = {"i1", "i2"}
    Requests <- MCRequests
    RequestOf <- UsageRequests
    Usages <- MCUsages
    UsageOf <- UsageEvents
    Deposit = 5
    MaxNow = 2
    Workers = {w1, w2}
    Recovery = 1
    SubIds = {s1, s2}
    Renewers = {w1, w2}
    RequestKeys = {"k1", "k2"}
    Amounts = {10}
    OrderIds = {o1, o2}
    Notifications <- MCNotificationIds
    NotificationOf <- MCNotifications
    AdminOperations <- MCAdminOperationIds
    AdminOperationOf <- MCAdminOperations
    MaxSafeInteger = 24
    MaxSessions = 2
    MaxCrashes = 1
    SubKeys = {sk1, sk2}
    Price <- Prices
    Period = 2
    Wait = 1
    TopUps <- MCTopUps
    TopUpOf <- TopUpAmounts
    MaxMonths = 3
    MaxDeaths = 1
SYMMETRY Symmetry
INVARIANTS
    OrdersInv
    UsageInv
    HoldsInv
    PlusInv
PROPERTIES
    PaymentSteps
CHECK_DEADLOCK FALSE
