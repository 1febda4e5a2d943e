SPECIFICATION FairSpec
CONSTANTS
    Requests = {p, q}
    Observers = {q}
    Main = Main
    NoReq = NoReq
    MaxFaults <- MCMaxFaults
    Crashes = 1
    Torn = 1
    Ledgers = 1
    BoardsBad = 1
    Saves = 1
INVARIANTS
    AtMostOnce
    ResultKept
PROPERTIES
    NotOverwritten
    Delivered
