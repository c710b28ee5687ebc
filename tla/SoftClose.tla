------------------------------ MODULE SoftClose ------------------------------
(***************************************************************************)
(* Closing a terminal so that it can be undone:                            *)
(* velowork-workspace/src/actions/soft_close.rs (the bookkeeping) and      *)
(* velowork-app/src/soft_close.rs (probe, toast, timer), with what else     *)
(* changes the layout or ends a terminal meanwhile.                        *)
(*                                                                         *)
(* A step is one update of the workspace entity with the effects it        *)
(* flushes: a kill that is queued is drained by the observer before the    *)
(* next event is handled.                                                  *)
(*                                                                         *)
(* The layout of a project is the set of its panes and a Look, which       *)
(* stands for everything else that the comparison of two LayoutNode sees:  *)
(* the order, the splits and their sizes, the active tab.                  *)
(***************************************************************************)
EXTENDS Naturals, FiniteSets

CONSTANTS Terminal, Project,
          Nowhere,
          Look, Plain,   \* arrangements of panes; Plain is that of no panes
          MaxCloses,     \* bound: soft closes begun
          MaxReloads     \* bound: wholesale replacements of the workspace

ASSUME LookAssumption == Plain \in Look
ASSUME BoundAssumption == MaxCloses \in Nat /\ MaxReloads \in Nat
ASSUME ProjectAssumption == IsFiniteSet(Project) /\ Nowhere \notin Project

VARIABLES
    projects, layout,
    pending,    \* Workspace.pending_closes
    restored,   \* Workspace.restored_closes
    registry,   \* the TerminalsRegistry
    process,    \* of each terminal's shell; external
    exits,      \* PtyEvent::Exit not yet handled
    probes,     \* closes whose busy check is under way
    timers,     \* closes whose grace timer is armed
    toasts,     \* the terminals with an undo toast
    quitting,
    latest,     \* history: the number of each terminal's newest soft close
    closes, reloads,
    undone,     \* history: undone, and since then neither closed nor taken
                \* to another project
    lost        \* history: running when a replacement left them out

layoutVars == <<projects, layout>>
closeVars == <<pending, restored, probes, timers, toasts>>
ptyVars == <<registry, process, exits>>
history == <<latest, closes, reloads, undone, lost>>
vars == <<layoutVars, closeVars, ptyVars, quitting, history>>

Layouts == [panes : SUBSET Terminal, look : Look]
NoLayout == [panes |-> {}, look |-> Plain]
PendingClose == [tid : Terminal, project : Project, pre : Layouts, post : Layouts]
RestoredClose == [tid : Terminal, project : Project]
CloseNo == [tid : Terminal, close : Nat]

TypeOK ==
    /\ projects \subseteq Project
    /\ layout \in [Project -> Layouts]
    /\ \A p \in Project \ projects : layout[p] = NoLayout
    /\ pending \subseteq PendingClose
    /\ \A r \in pending : r.project \in projects
    /\ restored \subseteq RestoredClose
    /\ registry \subseteq Terminal
    /\ process \in [Terminal -> {"none", "running", "dead"}]
    /\ exits \subseteq Terminal
    /\ probes \subseteq CloseNo /\ timers \subseteq CloseNo
    /\ toasts \subseteq Terminal
    /\ quitting \in BOOLEAN
    /\ latest \in [Terminal -> Nat]
    /\ closes \in Nat /\ reloads \in Nat
    /\ undone \subseteq Terminal /\ lost \subseteq Terminal

Init ==
    /\ projects = Project
    /\ layout = [p \in Project |-> NoLayout]
    /\ pending = {} /\ restored = {}
    /\ registry = {} /\ exits = {}
    /\ process = [t \in Terminal |-> "none"]
    /\ probes = {} /\ timers = {} /\ toasts = {}
    /\ quitting = FALSE
    /\ latest = [t \in Terminal |-> 0]
    /\ closes = 0 /\ reloads = 0
    /\ undone = {} /\ lost = {}

-----------------------------------------------------------------------------
Shows(p, t) == t \in layout[p].panes
Shown(t) == \E p \in Project : Shows(p, t)

HasPending(t) == \E r \in pending : r.tid = t
PendingOf(t) == CHOOSE r \in pending : r.tid = t
Others(S, t) == {r \in S : r.tid # t}

\* close_terminal removes one leaf of the tree.
Without(l, t) ==
    LET ps == l.panes \ {t}
    IN [panes |-> ps, look |-> IF ps = {} THEN Plain ELSE l.look]

With(l, t, k) == [panes |-> l.panes \cup {t}, look |-> k]

\* The observer of the workspace, and everyone else who ends a terminal:
\* pty_manager.kill and reg.remove.  The reader reports the exit of a shell
\* that was still running.
Kill(ts) ==
    /\ registry' = registry \ ts
    /\ exits' = exits \cup {t \in ts : process[t] = "running"}
    /\ process' = [t \in Terminal |-> IF t \in ts /\ process[t] = "running"
                                      THEN "dead" ELSE process[t]]

-----------------------------------------------------------------------------
(* The soft close.                                                         *)

\* begin and begin_soft_close.
Begin(p, t) ==
    LET post == Without(layout[p], t) IN
    /\ closes < MaxCloses
    /\ Shows(p, t)
    /\ layout' = [layout EXCEPT ![p] = post]
    /\ pending' = pending \cup {[tid |-> t, project |-> p, pre |-> layout[p], post |-> post]}
    /\ restored' = Others(restored, t)
    /\ closes' = closes + 1
    /\ latest' = [latest EXCEPT ![t] = closes + 1]
    /\ probes' = probes \cup {[tid |-> t, close |-> closes + 1]}
    /\ undone' = undone \ {t}
    /\ UNCHANGED <<projects, timers, toasts, ptyVars, quitting, reloads, lost>>

\* The mutated form drains the closes of all terminals, as the end of the
\* program does.
FinalizeAll(t) ==
    IF HasPending(t) THEN pending' = {} /\ Kill({u \in Terminal : HasPending(u)})
                     ELSE UNCHANGED <<pending, ptyVars>>

\* finalize_soft_close, with the kill that follows.
Finalize(t) ==
    IF HasPending(t) THEN pending' = Others(pending, t) /\ Kill({t})
                     ELSE UNCHANGED <<pending, ptyVars>>

\* The mutated form leaves the end of the grace period to the toast.
ArmNothing(b) == UNCHANGED timers

Arm(b) == timers' = timers \cup {b}

\* decide_pending_close: raced, or kept for an undo, or finalized.
Decide(b, busy) ==
    /\ b \in probes
    /\ probes' = probes \ {b}
    /\ IF HasPending(b.tid) /\ busy
       THEN /\ Arm(b)
            /\ toasts' = toasts \cup {b.tid}
            /\ UNCHANGED <<pending, ptyVars>>
       ELSE Finalize(b.tid) /\ UNCHANGED <<timers, toasts>>
    /\ UNCHANGED <<layoutVars, restored, quitting, history>>

\* The grace timer, which knows the terminal and not the close.
Expire(m) ==
    /\ m \in timers
    /\ timers' = timers \ {m}
    /\ Finalize(m.tid)
    /\ toasts' = IF HasPending(m.tid) THEN toasts \ {m.tid} ELSE toasts
    /\ UNCHANGED <<layoutVars, restored, probes, quitting, history>>

ClickKill(t) ==
    /\ t \in toasts
    /\ toasts' = toasts \ {t}
    /\ Finalize(t)
    /\ UNCHANGED <<layoutVars, restored, probes, timers, quitting, history>>

\* The mutated form puts the old tree back whatever happened to it since.
BackAlways(r) == layout' = [layout EXCEPT ![r.project] = r.pre]

\* The exact tree if nobody touched it, a pane at its root otherwise; the
\* project may be gone.
Back(r) ==
    IF layout[r.project] = r.post THEN layout' = [layout EXCEPT ![r.project] = r.pre]
    ELSE \E k \in Look : layout' = [layout EXCEPT ![r.project] = With(@, r.tid, k)]

\* handle_toast_action and undo_soft_close: alive is what the registry says.
ClickUndo(t) ==
    LET r == PendingOf(t) IN
    /\ t \in toasts
    /\ toasts' = toasts \ {t}
    /\ pending' = Others(pending, t)
    /\ IF HasPending(t) /\ t \in registry
       THEN /\ IF r.project \in projects THEN Back(r) ELSE UNCHANGED layout
            /\ restored' = Others(restored, t) \cup {[tid |-> t, project |-> r.project]}
            /\ undone' = undone \cup {t}
       ELSE UNCHANGED <<layout, restored, undone>>
    /\ UNCHANGED <<projects, probes, timers, ptyVars, quitting, latest, closes,
                   reloads, lost>>

\* A toast's time is over, or the user dismisses it.
ToastGoes(t) ==
    /\ t \in toasts
    /\ toasts' = toasts \ {t}
    /\ UNCHANGED <<layoutVars, pending, restored, probes, timers, ptyVars, quitting, history>>

-----------------------------------------------------------------------------
(* The shells.                                                             *)

Dies(t) ==
    /\ process[t] = "running"
    /\ process' = [process EXCEPT ![t] = "dead"]
    /\ exits' = exits \cup {t}
    /\ UNCHANGED <<layoutVars, closeVars, registry, quitting, history>>

\* The mutated form forgets the breadcrumb an undo has left.
ReapNothing(t) == UNCHANGED <<restored, layout>>

\* reap_restored_close looks in the project in which the undo put the pane.
Reap(t) ==
    /\ restored' = Others(restored, t)
    /\ layout' = [p \in Project |->
                    IF [tid |-> t, project |-> p] \in restored /\ Shows(p, t)
                    THEN Without(layout[p], t) ELSE layout[p]]

\* The loop over the events of the terminals, for one exit: the registry, then
\* cancel_pending_close with its toast, then the pane an undo brought back.
HandleExit(t) ==
    /\ t \in exits
    /\ exits' = exits \ {t}
    /\ registry' = registry \ {t}
    /\ pending' = Others(pending, t)
    /\ toasts' = IF HasPending(t) THEN toasts \ {t} ELSE toasts
    /\ Reap(t)
    /\ UNCHANGED <<projects, process, probes, timers, quitting, history>>

-----------------------------------------------------------------------------
(* What else happens to the layout.                                        *)

\* A pane with a new shell: add_terminal, split_terminal, add_tab.
Open(p, t) ==
    /\ process[t] = "none"
    /\ p \in projects
    /\ process' = [process EXCEPT ![t] = "running"]
    /\ registry' = registry \cup {t}
    /\ \E k \in Look : layout' = [layout EXCEPT ![p] = With(@, t, k)]
    /\ UNCHANGED <<projects, closeVars, exits, quitting, history>>

\* close: no grace period is set, or the request came from elsewhere.
HardClose(p, t) ==
    /\ Shows(p, t)
    /\ layout' = [layout EXCEPT ![p] = Without(@, t)]
    /\ Kill({t})
    /\ undone' = undone \ {t}
    /\ UNCHANGED <<projects, closeVars, quitting, latest, closes, reloads, lost>>

\* The cross of a capsule in the project panel ends the shell and leaves the
\* registry to the exit.
CapsuleClose(p, t) ==
    /\ Shows(p, t)
    /\ layout' = [layout EXCEPT ![p] = Without(@, t)]
    /\ process' = [process EXCEPT ![t] = "dead"]
    /\ exits' = IF process[t] = "running" THEN exits \cup {t} ELSE exits
    /\ undone' = undone \ {t}
    /\ UNCHANGED <<projects, closeVars, registry, quitting, latest, closes, reloads, lost>>

\* Sizes, the active tab, and move_pane within a project.
Rearrange(p, k) ==
    /\ layout[p].panes # {}
    /\ layout' = [layout EXCEPT ![p].look = k]
    /\ UNCHANGED <<projects, closeVars, ptyVars, quitting, history>>

\* move_pane and move_terminal_to_tab_group across projects: the target has a
\* layout to drop on.
MoveTo(p, t, q) ==
    /\ p # q
    /\ Shows(p, t)
    /\ layout[q].panes # {}
    /\ \E k \in Look :
         layout' = [layout EXCEPT ![p] = Without(@, t), ![q] = With(@, t, k)]
    /\ undone' = undone \ {t}
    /\ UNCHANGED <<projects, closeVars, ptyVars, quitting, latest, closes, reloads, lost>>

\* The mutated form forgets the terminals that wait out their grace period.
DoomedShown(p) == layout[p].panes

\* delete_project: the panes, and the soft-closed terminals of the project.
Doomed(p) == layout[p].panes \cup {t \in Terminal : \E r \in pending : r.tid = t /\ r.project = p}

\* drain_pending_closes_for_project.
DrainPending(p) == pending' = {r \in pending : r.project # p}

DeleteProject(p) ==
    /\ p \in projects
    /\ Cardinality(projects) > 1
    /\ projects' = projects \ {p}
    /\ layout' = [layout EXCEPT ![p] = NoLayout]
    /\ DrainPending(p)
    /\ Kill(Doomed(p))
    /\ UNCHANGED <<restored, probes, timers, toasts, quitting, history>>

\* replace_data, after a restore: another workspace, with some of the running
\* terminals.  The other panes of it get new shells, and new names.
Reload ==
    /\ reloads < MaxReloads
    /\ reloads' = reloads + 1
    /\ \E P \in SUBSET Project \ {{}} :
       \E at \in [registry -> P \cup {Nowhere}], k \in Look :
         LET panes(p) == {t \in registry : at[t] = p} IN
         /\ projects' = P
         /\ layout' = [p \in Project |->
                         [panes |-> panes(p), look |-> IF panes(p) = {} THEN Plain ELSE k]]
         /\ lost' = lost \cup {t \in registry : at[t] = Nowhere /\ process[t] = "running"}
    /\ pending' = {} /\ restored' = {} /\ undone' = {}
    /\ UNCHANGED <<probes, timers, toasts, ptyVars, quitting, latest, closes>>

\* on_app_quit: drain_pending_closes.
Quit ==
    /\ quitting' = TRUE
    /\ pending' = {}
    /\ Kill({t \in Terminal : HasPending(t)})
    /\ UNCHANGED <<layoutVars, restored, probes, timers, toasts, history>>

-----------------------------------------------------------------------------
BusyCheck == \E b \in probes, busy \in BOOLEAN : Decide(b, busy)
GraceEnds == \E m \in timers : Expire(m)

User ==
    \/ \E t \in Terminal : ClickKill(t) \/ ClickUndo(t) \/ ToastGoes(t)
    \/ \E p \in Project, t \in Terminal :
         \/ Begin(p, t) \/ Open(p, t) \/ HardClose(p, t) \/ CapsuleClose(p, t)
         \/ \E q \in Project : MoveTo(p, t, q)
    \/ \E p \in Project : DeleteProject(p) \/ \E k \in Look : Rearrange(p, k)
    \/ Reload \/ Quit

Next ==
    /\ ~quitting
    /\ BusyCheck \/ GraceEnds \/ User \/ \E t \in Terminal : Dies(t) \/ HandleExit(t)

Spec == Init /\ [][Next]_vars

\* The busy check comes back and a timer that is armed goes off; nobody has to
\* click, and no shell has to end.
Fairness ==
    \A t \in Terminal :
        /\ WF_vars(~quitting /\ \E b \in probes, busy \in BOOLEAN : b.tid = t /\ Decide(b, busy))
        /\ WF_vars(~quitting /\ \E m \in timers : m.tid = t /\ Expire(m))

FairSpec == Spec /\ Fairness

-----------------------------------------------------------------------------
(* Safety.                                                                 *)

\* soft_close.rs:3-4, "keeps its PTY alive for a grace period so the user can
\* undo": a shell that runs is in a layout or waits out its grace period, and
\* the registry knows it, so an undo, the timer, the deletion of its project or
\* the end of the program can reach it.  Only a replacement of the workspace
\* loses terminals.
NoTerminalLost ==
    \A t \in Terminal :
        process[t] = "running" => t \in registry /\ (Shown(t) \/ HasPending(t) \/ t \in lost)

\* A terminal has at most one place: one pane of one project, or one record of
\* a close, however the tree was changed between close and undo.
OnePlaceEach ==
    /\ \A p, q \in Project, t \in Terminal : Shows(p, t) /\ Shows(q, t) => p = q
    /\ \A r \in pending : ~Shown(r.tid) /\ \A s \in pending : s.tid = r.tid => s = r

\* A pane that an undo brought back does not outlive its shell: the exit that
\* was under way during the undo still removes it, however late it comes.
RestoredPaneIsReaped ==
    \A t \in undone : Shown(t) => t \in registry

\* Where the shell of a terminal is, seen from outside.
Place(t) ==
    IF process[t] = "none" THEN [at |-> "none", home |-> Nowhere]
    ELSE IF process[t] = "dead" THEN [at |-> "dead", home |-> Nowhere]
    ELSE IF Shown(t) THEN [at |-> "pane", home |-> CHOOSE p \in Project : Shows(p, t)]
    ELSE IF HasPending(t) THEN [at |-> "grace", home |-> PendingOf(t).project]
    ELSE [at |-> "lost", home |-> Nowhere]

Lives == INSTANCE TerminalLives WITH
    place <- [t \in Terminal |-> Place(t)], over <- quitting

\* The shells go through the life of TerminalLives: a soft close keeps the
\* shell and its project until an undo brings it back there or until it ends;
\* no click, timer, exit or change of the layout ends the shell of another
\* terminal, except the deletion of its project and the end of the program,
\* which end all of theirs and no other.
ShellsLiveOnce == Lives!LivesSpec

(* Liveness, under FairSpec.                                               *)

\* A soft close ends with the pane back or with the shell dead.
SoftCloseIsSettled ==
    \A t \in Terminal :
        HasPending(t) ~> (Shown(t) \/ process[t] = "dead" \/ t \in lost)

=============================================================================
