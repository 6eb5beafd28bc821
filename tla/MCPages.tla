-------------------------------- MODULE MCPages --------------------------------
(* Every page in turn, each with as many calls of its user as its state     *)
(* space affords; the pages over useSites share the hook.                   *)
EXTENDS Pages

Calls ==
    [p \in AllPages |->
        CASE p \in {"sites", "dashboard", "stats", "incidents", "log", "notifications", "analytics",
                   "charts"} -> 1
          [] p = "detail" -> 2
          [] p \in {"settings", "channels"} -> 3]

=============================================================================
