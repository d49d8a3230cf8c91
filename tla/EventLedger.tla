---------------------------- MODULE EventLedger -----------------------------
(***************************************************************************)
(* What the telemetry of the bus promises, whatever the threads do: every   *)
(* event is counted once when it comes in; a window judges an event at most *)
(* once and counts it as accepted or null-routed; an event refused at the   *)
(* queue limit is counted as null-routed and never judged.  An event may    *)
(* leave without having been judged by any window, and may be judged by     *)
(* several.  Windows only come, one at a time.                              *)
(***************************************************************************)
EXTENDS Integers

CONSTANT Events

VARIABLES
    inside,     \* the events that are in pushEvent
    gone,       \* those that have left it
    judged,     \* <<event, window>> for every ruling
    rejected,   \* the events refused at the limit
    windows,    \* windows opened so far, numbered from 0
    total,
    accepted,
    nullRouted

ledgerVars == <<windows, inside, gone, judged, rejected, total, accepted, nullRouted>>

Init ==
    /\ inside = {}
    /\ gone = {}
    /\ judged = {}
    /\ rejected = {}
    /\ windows = 0
    /\ total = 0
    /\ accepted = 0
    /\ nullRouted = 0

OpenWindow ==
    /\ windows' = windows + 1
    /\ UNCHANGED <<inside, gone, judged, rejected, total, accepted, nullRouted>>

Enter(e) ==
    /\ e \notin inside \cup gone
    /\ inside' = inside \cup {e}
    /\ total' = total + 1
    /\ UNCHANGED <<windows, gone, judged, rejected, accepted, nullRouted>>

Judge(e, w) ==
    /\ e \in inside \ rejected
    /\ <<e, w>> \notin judged
    /\ judged' = judged \cup {<<e, w>>}
    /\ \/ accepted' = accepted + 1 /\ UNCHANGED nullRouted
       \/ nullRouted' = nullRouted + 1 /\ UNCHANGED accepted
    /\ UNCHANGED <<windows, inside, gone, rejected, total>>

Reject(e) ==
    /\ e \in inside \ rejected
    /\ \A ruling \in judged : ruling[1] # e
    /\ rejected' = rejected \cup {e}
    /\ nullRouted' = nullRouted + 1
    /\ UNCHANGED <<windows, inside, gone, judged, total, accepted>>

Leave(e) ==
    /\ e \in inside
    /\ inside' = inside \ {e}
    /\ gone' = gone \cup {e}
    /\ UNCHANGED <<windows, judged, rejected, total, accepted, nullRouted>>

Next ==
    \/ OpenWindow
    \/ \E e \in Events :
        \/ Enter(e)
        \/ \E w \in 0 .. windows - 1 : Judge(e, w)
        \/ Reject(e)
        \/ Leave(e)

Spec == Init /\ [][Next]_ledgerVars

=============================================================================
