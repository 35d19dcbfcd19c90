--------------------------- MODULE TermLeadership ---------------------------
(***************************************************************************)
(* What an election protocol promises, whatever its messages: at any       *)
(* moment a term has at most one leader, and a server that stopped leading *)
(* in a term never leads in that term again.                               *)
(***************************************************************************)
CONSTANTS Node, Term

VARIABLES leads,        \* the pairs <<term, server>> that lead at this moment
          elected       \* the pairs that lead or ever led

vars == <<leads, elected>>

Init == leads = {} /\ elected = {}

(* One server gains a term that nobody leads and that it never led.        *)
Elect(t, i) ==
    /\ \A j \in Node : <<t, j>> \notin leads
    /\ <<t, i>> \notin elected
    /\ leads' = leads \cup {<<t, i>>}
    /\ elected' = elected \cup {<<t, i>>}

(* A leader resigns, is deposed or dies.                                   *)
Resign(t, i) ==
    /\ <<t, i>> \in leads
    /\ leads' = leads \ {<<t, i>>}
    /\ UNCHANGED elected

Next == \E t \in Term, i \in Node : Elect(t, i) \/ Resign(t, i)

Spec == Init /\ [][Next]_vars
=============================================================================
