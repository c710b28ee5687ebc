--------------------------- MODULE TerminalLives ---------------------------
(***************************************************************************)
(* What happens to the shell behind a pane, without layouts, records,      *)
(* timers, toasts and registries: it has one place at a time, a soft close *)
(* can be undone while it waits, and it ends alone, with its project, or   *)
(* with the program.                                                       *)
(***************************************************************************)
CONSTANTS Terminal, Project, Nowhere

VARIABLES
    place,  \* of each terminal: what it is and the project it belongs to
    over    \* the program has ended

livesVars == <<place, over>>

Unborn == [at |-> "none", home |-> Nowhere]
Pane(p) == [at |-> "pane", home |-> p]
Grace(p) == [at |-> "grace", home |-> p]
Lost == [at |-> "lost", home |-> Nowhere]
Ended == [at |-> "dead", home |-> Nowhere]

LivesInit == place = [t \in Terminal |-> Unborn] /\ over = FALSE

Becomes(t, old, new) ==
    /\ place[t] = old
    /\ place' = [place EXCEPT ![t] = new]
    /\ UNCHANGED over

Start(t, p) == Becomes(t, Unborn, Pane(p))
CloseSoftly(t, p) == Becomes(t, Pane(p), Grace(p))
Undo(t, p) == Becomes(t, Grace(p), Pane(p))
Move(t, p, q) == Becomes(t, Pane(p), Pane(q))

\* The shell exits or is killed, in a pane, in its grace period or lost.
End(t) == place[t] # Unborn /\ Becomes(t, place[t], Ended)

EndAll(ts) == place' = [t \in Terminal |-> IF t \in ts THEN Ended ELSE place[t]]

EndProject(p) == EndAll({t \in Terminal : place[t].home = p}) /\ UNCHANGED over

\* The end of the program cuts every grace period short.
Quit == EndAll({t \in Terminal : place[t].at = "grace"}) /\ over' = TRUE

\* Another workspace keeps some of the shells as panes and loses the others.
Replace ==
    /\ place' \in [Terminal -> {Unborn, Ended, Lost} \cup {Pane(p) : p \in Project}]
    /\ \A t \in Terminal :
          IF place[t] \in {Unborn, Ended} THEN place'[t] = place[t]
                                          ELSE place'[t] \notin {Unborn, Ended}
    /\ UNCHANGED over

LivesNext ==
    /\ ~over
    /\ \/ \E t \in Terminal :
             \/ End(t)
             \/ \E p \in Project : \/ Start(t, p) \/ CloseSoftly(t, p) \/ Undo(t, p)
                                   \/ \E q \in Project : Move(t, p, q)
       \/ \E p \in Project : EndProject(p)
       \/ Quit \/ Replace

LivesSpec == LivesInit /\ [][LivesNext]_livesVars

=============================================================================
