---------------------------- MODULE WindowStream ----------------------------
(***************************************************************************)
(* What VenomBus::startReactive asks of window_with_time: a stream of       *)
(* windows, opened and released in order, such that a newer window is       *)
(* already observed whenever one is released.  Once the subscription is     *)
(* over the stream may go on for a while, unobserved: then a window is      *)
(* released only after a newer one was pushed.  Nothing is said of clocks,   *)
(* of the thread that does the work or of the order in which its lifetimes  *)
(* end: WindowTimer implements this specification.                          *)
(*                                                                         *)
(* Windows are numbered in the order in which they are opened, so a counter *)
(* per phase of a window's life describes them all.                         *)
(***************************************************************************)
EXTENDS Naturals

VARIABLES
    chain,      \* "none", "subscribed", "deaf", "stopped", "joined"
    pushed,     \* windows pushed onto the list
    observed,   \* windows the bus has subscribed its handler to
    completed,  \* windows told on_completed
    popped      \* windows removed from the list

windowVars == <<chain, pushed, observed, completed, popped>>

Init ==
    /\ chain = "none"
    /\ pushed = 0
    /\ observed = 0
    /\ completed = 0
    /\ popped = 0

Subscribe ==
    /\ chain = "none"
    /\ chain' = "subscribed"
    /\ UNCHANGED <<pushed, observed, completed, popped>>

\* The next window is opened when the one before it is observed, if anybody listens.
Push ==
    /\ chain \in {"subscribed", "deaf"}
    /\ chain = "subscribed" => pushed = observed
    /\ pushed' = pushed + 1
    /\ UNCHANGED <<chain, observed, completed, popped>>

Observe ==
    /\ chain = "subscribed"
    /\ observed < pushed
    /\ observed' = observed + 1
    /\ UNCHANGED <<chain, pushed, completed, popped>>

\* Only a window with a successor is released, with an observed one if anybody listens.
Complete ==
    /\ chain \in {"subscribed", "deaf"}
    /\ completed = popped
    /\ completed + 1 < IF chain = "subscribed" THEN observed ELSE pushed
    /\ completed' = completed + 1
    /\ UNCHANGED <<chain, pushed, observed, popped>>

Pop ==
    /\ chain \in {"subscribed", "deaf", "stopped"}
    /\ popped < completed
    /\ popped' = popped + 1
    /\ UNCHANGED <<chain, pushed, observed, completed>>

\* The subscription is over.
Deafen ==
    /\ chain \in {"none", "subscribed"}
    /\ chain' = "deaf"
    /\ UNCHANGED <<pushed, observed, completed, popped>>

\* No window is opened or completed any more.
Stop ==
    /\ chain = "deaf"
    /\ chain' = "stopped"
    /\ UNCHANGED <<pushed, observed, completed, popped>>

\* Nor is one taken off the list.
Join ==
    /\ chain = "stopped"
    /\ chain' = "joined"
    /\ UNCHANGED <<pushed, observed, completed, popped>>

Next ==
    \/ Subscribe
    \/ Push
    \/ Observe
    \/ Complete
    \/ Pop
    \/ Deafen
    \/ Stop
    \/ Join

Spec == Init /\ [][Next]_windowVars

=============================================================================
