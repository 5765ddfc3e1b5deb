------------------------------ MODULE MCSessions ------------------------------
(***************************************************************************)
(* Constants for TLC that a configuration file cannot write down.          *)
(***************************************************************************)
EXTENDS WebClient

CONSTANTS
    here, beside,  \* two tabs of one browser
    away,          \* a tab of another
    desk, phone,   \* the browsers
    r1, r2         \* requests

MCBrowserOf == [b \in Tabs |-> IF b = away THEN phone ELSE desk]
MCTabOf == [r \in Requests |-> IF r = r1 \/ beside \notin Tabs THEN here ELSE beside]
MCKinds == [r \in Requests |->
    IF r = r1 THEN {"plain", "switch", "create", "mistyped"}
    ELSE {"plain", "endOthers", "endOther"}]

\* A refresh by expiry in one tab, sessions ended from the other.
MCFewKinds == [r \in Requests |->
    IF r = r1 THEN {"plain"} ELSE {"endOthers", "endOther"}]
=============================================================================
