SPECIFICATION Spec
CONSTANTS
    Users = {u1}
    Txns = {t1, t2}
    Keys = {k1, k2}
    Items = {i1}
    Refs = {r1}
    Amounts = {1, 2}
    Rewards = {1, 2}
    MinRedemption = 1
    NoUser = NoUser
    NoTxn = NoTxn
    NoRef = NoRef
    ErasedRef = ErasedRef
SYMMETRY Symmetry
INVARIANTS
    ReserveAgrees
    ItemMoneySettled
    FraudHeldOrCased
    
    ReportClean
PROPERTIES
    HeldMoneyStaysPut
    ReleasePredicted
