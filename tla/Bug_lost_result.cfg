SPECIFICATION Spec
CONSTANTS
    Requests = {p, q}
    Observers = {}
    Main = Main
    NoReq = NoReq
    MaxFaults <- MCMaxFaults
    Crashes = 0
    Torn = 0
    Ledgers = 0
    BoardsBad = 0
    Saves = 0
INVARIANTS
    ResultStays
