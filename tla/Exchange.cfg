SPECIFICATION Spec
CONSTANTS
    MaxExchanges = 2
    MaxReqPqs = 4
    MaxInt = 7
    Times <- MCTimes
    Lifetimes <- MCLifetimes
INVARIANTS TypeOK OrderlyNotRefused
PROPERTIES ImplementsAgreement ExchangeEnds
