------------------------------- MODULE Accepted -------------------------------
(***************************************************************************)
(* What storage promises of the accepted history.  It is replaced as a     *)
(* whole, by a valid history of strictly more work; the medium may destroy *)
(* its end, and an identical history may then be written back.  No         *)
(* operation, failure or restart does anything else to it.                 *)
(***************************************************************************)
EXTENDS Histories

VARIABLES
    ledger,     \* the history that can be read back, <<>> if none
    intact      \* FALSE when the medium lost something since the last write

vars == <<ledger, intact>>

Init ==
    /\ ledger = <<>>
    /\ intact = TRUE

Replace(h) ==
    /\ Prefers(h, ledger)
    /\ ledger' = h
    /\ intact' = TRUE

Restore ==
    /\ ~intact
    /\ intact' = TRUE
    /\ UNCHANGED ledger

Erode ==
    /\ \E k \in 0..Len(ledger) : ledger' = Prefix(ledger, k)
    /\ intact' = FALSE

Next == (\E h \in Valid : Replace(h)) \/ Restore \/ Erode

Spec == Init /\ [][Next]_vars
===============================================================================
