--------------------------- MODULE MCOutboundWorker ---------------------------
(* OutboundWorker with the faults each run allows.                            *)
EXTENDS OutboundWorker

CONSTANTS Crashes, Torn, Ledgers, BoardsBad, Saves

MCMaxFaults == [k \in {"crash", "torn", "ledger", "board", "save"} |->
                  CASE k = "crash" -> Crashes
                    [] k = "torn" -> Torn
                    [] k = "ledger" -> Ledgers
                    [] k = "board" -> BoardsBad
                    [] k = "save" -> Saves]
=============================================================================
