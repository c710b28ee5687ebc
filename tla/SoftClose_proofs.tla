-------------------------- MODULE SoftClose_proofs --------------------------
(***************************************************************************)
(* Type correctness and the safety invariants of SoftClose, and that it    *)
(* implements TerminalLives, for any number of terminals, projects, closes *)
(* and replacements.                                                       *)
(***************************************************************************)
EXTENDS SoftClose, TLAPS

\* A record of a close differs from what it left by the terminal it took out.
RecordsMatch ==
    \A r \in pending : r.tid \notin r.post.panes /\ r.pre.panes = r.post.panes \cup {r.tid}

\* The breadcrumb of an undo names the project in which the pane still is.
CrumbsMatch ==
    \A t \in undone, p \in Project : Shows(p, t) => [tid |-> t, project |-> p] \in restored

\* A terminal that was never opened is nowhere.
FreshIsNowhere ==
    \A t \in Terminal : process[t] = "none" =>
        ~Shown(t) /\ ~HasPending(t) /\ t \notin undone /\ t \notin registry

\* Only a shell that has ended reports its exit.
ExitsAreOver == \A t \in exits : process[t] = "dead"

IInv ==
    /\ TypeOK /\ NoTerminalLost /\ OnePlaceEach /\ RestoredPaneIsReaped
    /\ RecordsMatch /\ CrumbsMatch /\ FreshIsNowhere /\ ExitsAreOver

LEMMA NoLayoutIsLayout == NoLayout \in Layouts /\ NoLayout.panes = {}
  BY LookAssumption DEF NoLayout, Layouts

LEMMA InitIInv == Init => IInv
<1> SUFFICES ASSUME Init PROVE IInv
  OBVIOUS
<1>1. \A p \in Project : layout[p] = NoLayout /\ layout[p].panes = {}
  BY NoLayoutIsLayout DEF Init
<1>2. TypeOK
  BY <1>1, NoLayoutIsLayout DEF Init, TypeOK
<1>3. NoTerminalLost /\ OnePlaceEach /\ RestoredPaneIsReaped
  BY <1>1 DEF Init, NoTerminalLost, OnePlaceEach, RestoredPaneIsReaped, Shown, Shows
<1>4. RecordsMatch /\ CrumbsMatch /\ FreshIsNowhere /\ ExitsAreOver
  BY <1>1 DEF Init, ExitsAreOver, RecordsMatch, CrumbsMatch, FreshIsNowhere, Shown, Shows, HasPending
<1> QED BY <1>2, <1>3, <1>4 DEF IInv

LEMMA PendingOfIsPending ==
  ASSUME NEW t, HasPending(t)
  PROVE  PendingOf(t) \in pending /\ PendingOf(t).tid = t
  BY DEF HasPending, PendingOf

LEMMA WithoutIsLayout ==
  ASSUME NEW l \in Layouts, NEW t \in Terminal
  PROVE  Without(l, t) \in Layouts /\ Without(l, t).panes = l.panes \ {t}
  BY LookAssumption DEF Without, Layouts

LEMMA WithIsLayout ==
  ASSUME NEW l \in Layouts, NEW t \in Terminal, NEW k \in Look
  PROVE  With(l, t, k) \in Layouts /\ With(l, t, k).panes = l.panes \cup {t}
  BY DEF With, Layouts

-----------------------------------------------------------------------------
(* The steps, one lemma per group.                                         *)

LEMMA BeginIInv ==
  ASSUME IInv, NEW p \in Project, NEW t \in Terminal, Begin(p, t)
  PROVE  IInv'
<1> DEFINE post == Without(layout[p], t)
           rec == [tid |-> t, project |-> p, pre |-> layout[p], post |-> post]
<1>1. layout[p] \in Layouts /\ post \in Layouts /\ post.panes = layout[p].panes \ {t}
  BY WithoutIsLayout DEF IInv, TypeOK
<1>2. p \in projects
  BY DEF Begin, IInv, TypeOK, Shows, NoLayout
<1>3. /\ layout' = [layout EXCEPT ![p] = post] /\ pending' = pending \cup {rec}
      /\ restored' = Others(restored, t) /\ undone' = undone \ {t}
      /\ t \in layout[p].panes
      /\ UNCHANGED <<projects, registry, process, exits, lost, timers, toasts, quitting, reloads>>
  BY DEF Begin, ptyVars, Shows
<1>4. \A q \in Project : /\ layout'[q] \in Layouts
                         /\ layout'[q].panes = IF q = p THEN layout[p].panes \ {t} ELSE layout[q].panes
  BY <1>1, <1>3 DEF IInv, TypeOK
<1>5. TypeOK'
  <2>1. rec \in PendingClose
    BY <1>1 DEF PendingClose
  <2>2. closes + 1 \in Nat /\ [tid |-> t, close |-> closes + 1] \in CloseNo
    BY DEF IInv, TypeOK, CloseNo
  <2>3. layout' \in [Project -> Layouts] /\ \A q \in Project \ projects : layout'[q] = NoLayout
    BY <1>1, <1>2, <1>3 DEF IInv, TypeOK
  <2>4. latest' \in [Terminal -> Nat] /\ closes' \in Nat /\ probes' \subseteq CloseNo
    BY <2>2 DEF Begin, IInv, TypeOK
  <2> QED
    BY <1>2, <1>3, <2>1, <2>3, <2>4 DEF IInv, TypeOK, Others
<1>6. ~\E q \in Project : t \in layout'[q].panes
  BY <1>3, <1>4 DEF IInv, OnePlaceEach, Shows
<1>7. ~HasPending(t)
  BY <1>3 DEF IInv, OnePlaceEach, Shown, Shows, HasPending
<1>8. NoTerminalLost'
  <2> SUFFICES ASSUME NEW u \in Terminal, process[u] = "running"
               PROVE  u \in registry /\ (Shown(u)' \/ HasPending(u)' \/ u \in lost)
    BY <1>3 DEF NoTerminalLost
  <2>1. CASE u = t
    <3>1. rec \in pending' /\ rec.tid = t
      BY <1>3
    <3> QED BY <2>1, <3>1 DEF IInv, NoTerminalLost, HasPending
  <2>2. CASE u # t
    BY <1>3, <1>4, <2>2 DEF IInv, NoTerminalLost, Shown, Shows, HasPending
  <2> QED BY <2>1, <2>2
<1>9. OnePlaceEach'
  BY <1>3, <1>4, <1>6, <1>7 DEF IInv, OnePlaceEach, Shown, Shows, HasPending
<1>10. RestoredPaneIsReaped'
  BY <1>3, <1>4 DEF IInv, RestoredPaneIsReaped, Shown, Shows
<1>11. RecordsMatch'
  BY <1>1, <1>3 DEF IInv, RecordsMatch
<1>12. CrumbsMatch'
  BY <1>3, <1>4 DEF IInv, CrumbsMatch, Shows, Others
<1>13. process[t] # "none"
  BY <1>3 DEF IInv, FreshIsNowhere, Shown, Shows
<1>14. FreshIsNowhere' /\ ExitsAreOver'
  BY <1>3, <1>4, <1>13 DEF IInv, FreshIsNowhere, ExitsAreOver, Shown, Shows, HasPending
<1> QED
  BY <1>5, <1>8, <1>9, <1>10, <1>11, <1>12, <1>14 DEF IInv

\* What a step keeps that ends the shells of ts, none of which is in a layout.
LEMMA EndIInv ==
  ASSUME IInv, NEW ts \in SUBSET Terminal,
         UNCHANGED <<layoutVars, restored, history>>, quitting' \in BOOLEAN,
         pending' = {r \in pending : r.tid \notin ts},
         probes' \subseteq CloseNo, timers' \subseteq CloseNo, toasts' \subseteq Terminal,
         \A t \in ts : HasPending(t),
         Kill(ts)
  PROVE  IInv'
<1> USE DEF layoutVars, history
<1>1. process' \in [Terminal -> {"none", "running", "dead"}]
  BY DEF Kill, IInv, TypeOK
<1>2. \A t \in Terminal : /\ process'[t] = "running" => t \notin ts /\ process[t] = "running"
                          /\ process'[t] = "none" => process[t] = "none"
  BY DEF Kill
<1>3. registry' = registry \ ts /\ exits' \subseteq Terminal
  BY DEF Kill, IInv, TypeOK
<1>4. TypeOK'
  BY <1>1, <1>3 DEF IInv, TypeOK, NoLayout
<1>5. NoTerminalLost'
  BY <1>2, <1>3 DEF IInv, NoTerminalLost, Shown, Shows, HasPending
<1>6. OnePlaceEach'
  BY DEF IInv, OnePlaceEach, Shown, Shows
<1>7. RestoredPaneIsReaped'
  <2> SUFFICES ASSUME NEW t \in undone, Shown(t) PROVE t \in registry'
    BY DEF RestoredPaneIsReaped, Shown, Shows
  <2>1. t \in registry
    BY DEF IInv, RestoredPaneIsReaped
  <2>2. t \notin ts
    BY DEF IInv, OnePlaceEach, HasPending
  <2> QED BY <1>3, <2>1, <2>2
<1>8. RecordsMatch' /\ CrumbsMatch'
  BY DEF IInv, RecordsMatch, CrumbsMatch, Shows
<1>9. FreshIsNowhere' /\ ExitsAreOver'
  BY <1>2, <1>3 DEF Kill, IInv, TypeOK, FreshIsNowhere, ExitsAreOver, Shown, Shows, HasPending
<1> QED
  BY <1>4, <1>5, <1>6, <1>7, <1>8, <1>9 DEF IInv

\* What a step keeps that leaves alone whatever the invariant speaks of.
LEMMA AsideIInv ==
  ASSUME IInv,
         UNCHANGED <<layoutVars, restored, pending, ptyVars, history>>,
         quitting' \in BOOLEAN,
         probes' \subseteq CloseNo, timers' \subseteq CloseNo, toasts' \subseteq Terminal
  PROVE  IInv'
  BY DEF IInv, TypeOK, NoTerminalLost, OnePlaceEach, RestoredPaneIsReaped, RecordsMatch,
         CrumbsMatch, FreshIsNowhere, ExitsAreOver, Shown, Shows, HasPending, layoutVars,
         ptyVars, history, NoLayout

LEMMA FinalizeIInv ==
  ASSUME IInv, NEW t \in Terminal, Finalize(t),
         UNCHANGED <<layoutVars, restored, quitting, history>>,
         probes' \subseteq CloseNo, timers' \subseteq CloseNo, toasts' \subseteq Terminal
  PROVE  IInv'
<1>1. CASE HasPending(t)
  <2>1. pending' = {r \in pending : r.tid \notin {t}} /\ Kill({t})
    BY <1>1 DEF Finalize, Others
  <2> QED BY <1>1, <2>1, EndIInv DEF IInv, TypeOK
<1>2. CASE ~HasPending(t)
  BY <1>2, AsideIInv DEF Finalize, IInv, TypeOK
<1> QED BY <1>1, <1>2

LEMMA BusyCheckIInv ==
  ASSUME IInv, NEW b \in probes, NEW busy \in BOOLEAN, Decide(b, busy)
  PROVE  IInv'
<1>1. b \in CloseNo /\ b.tid \in Terminal /\ probes' \subseteq CloseNo
  BY DEF Decide, IInv, TypeOK, CloseNo
<1>2. CASE HasPending(b.tid) /\ busy
  BY <1>1, <1>2, AsideIInv DEF Decide, Arm, IInv, TypeOK
<1>3. CASE ~(HasPending(b.tid) /\ busy)
  BY <1>1, <1>3, FinalizeIInv DEF Decide, IInv, TypeOK
<1> QED BY <1>2, <1>3

LEMMA ExpireIInv ==
  ASSUME IInv, NEW m \in timers, Expire(m)
  PROVE  IInv'
<1>1. m.tid \in Terminal
  BY DEF IInv, TypeOK, CloseNo
<1> QED BY <1>1, FinalizeIInv DEF Expire, IInv, TypeOK

LEMMA ClickKillIInv ==
  ASSUME IInv, NEW t \in Terminal, ClickKill(t)
  PROVE  IInv'
  BY FinalizeIInv DEF ClickKill, IInv, TypeOK

LEMMA QuitIInv ==
  ASSUME IInv, Quit
  PROVE  IInv'
<1> DEFINE ts == {t \in Terminal : HasPending(t)}
<1>1. pending' = {r \in pending : r.tid \notin ts}
  BY DEF Quit, IInv, TypeOK, PendingClose, HasPending
<1>2. Kill(ts) /\ quitting' = TRUE /\ UNCHANGED <<layoutVars, restored, probes, timers, toasts, history>>
  BY DEF Quit
<1> QED
  BY <1>1, <1>2, EndIInv DEF IInv, TypeOK

LEMMA UndoIInv ==
  ASSUME IInv, NEW t \in Terminal, ClickUndo(t)
  PROVE  IInv'
<1> DEFINE r == PendingOf(t)
<1>1. UNCHANGED <<projects, probes, timers, registry, process, exits, quitting, latest,
                  closes, reloads, lost>>
  BY DEF ClickUndo, ptyVars
<1>2. pending' = Others(pending, t) /\ toasts' \subseteq Terminal
  BY DEF ClickUndo, IInv, TypeOK
<1>3. ASSUME HasPending(t), t \in registry PROVE IInv'
  <2>1. r \in pending /\ r.tid = t
    BY <1>3, PendingOfIsPending
  <2>2. r \in PendingClose /\ r.project \in projects /\ r.project \in Project
    BY <2>1 DEF IInv, TypeOK
  <2>3. r.pre \in Layouts /\ r.post \in Layouts /\ r.pre.panes = r.post.panes \cup {t}
    BY <2>1, <2>2 DEF PendingClose, IInv, RecordsMatch
  <2>4. /\ restored' = Others(restored, t) \cup {[tid |-> t, project |-> r.project]}
        /\ undone' = undone \cup {t}
        /\ Back(r)
    BY <1>3, <2>2 DEF ClickUndo
  <2>5. \E l \in Layouts : /\ l.panes = layout[r.project].panes \cup {t}
                           /\ layout' = [layout EXCEPT ![r.project] = l]
    <3>1. CASE layout[r.project] = r.post
      BY <2>3, <2>4, <3>1 DEF Back
    <3>2. CASE layout[r.project] # r.post
      <4>1. PICK k \in Look : layout' = [layout EXCEPT ![r.project] = With(@, r.tid, k)]
        BY <2>4, <3>2 DEF Back
      <4>2. layout[r.project] \in Layouts
        BY <2>2 DEF IInv, TypeOK
      <4>3. /\ With(layout[r.project], t, k) \in Layouts
            /\ With(layout[r.project], t, k).panes = layout[r.project].panes \cup {t}
        BY <4>2, WithIsLayout
      <4>4. layout' = [layout EXCEPT ![r.project] = With(layout[r.project], t, k)]
        BY <2>1, <4>1
      <4> QED BY <4>3, <4>4
    <3> QED BY <3>1, <3>2
  <2>6. \A q \in Project :
          /\ layout'[q] \in Layouts
          /\ layout'[q].panes = IF q = r.project THEN layout[q].panes \cup {t} ELSE layout[q].panes
          /\ q # r.project => layout'[q] = layout[q]
    BY <2>2, <2>5 DEF IInv, TypeOK
  <2>7. TypeOK'
    <3>1. layout' \in [Project -> Layouts]
      BY <2>5 DEF IInv, TypeOK
    <3>2. [tid |-> t, project |-> r.project] \in RestoredClose
      BY <2>2 DEF RestoredClose
    <3> QED BY <1>1, <1>2, <2>2, <2>4, <2>6, <3>1, <3>2 DEF IInv, TypeOK, Others
  <2>8. NoTerminalLost'
    <3> SUFFICES ASSUME NEW u \in Terminal, process[u] = "running"
                 PROVE  u \in registry /\ (Shown(u)' \/ HasPending(u)' \/ u \in lost)
      BY <1>1 DEF NoTerminalLost
    <3>1. CASE u = t
      BY <1>3, <2>2, <2>6, <3>1 DEF Shown, Shows
    <3>2. CASE u # t
      BY <1>2, <2>6, <3>2 DEF IInv, NoTerminalLost, Shown, Shows, HasPending, Others
    <3> QED BY <3>1, <3>2
  <2>9. OnePlaceEach'
    <3>1. \A q \in Project : t \notin layout[q].panes
      BY <2>1 DEF IInv, OnePlaceEach, Shown, Shows
    <3>2. ASSUME NEW q1 \in Project, NEW q2 \in Project, NEW u \in Terminal,
                 Shows(q1, u)', Shows(q2, u)'
          PROVE  q1 = q2
      <4>1. CASE u = t
        BY <2>6, <3>1, <3>2, <4>1 DEF Shows
      <4>2. CASE u # t
        BY <2>6, <3>2, <4>2 DEF IInv, OnePlaceEach, Shows
      <4> QED BY <4>1, <4>2
    <3>3. \A s \in pending' : s \in pending /\ s.tid # t
      BY <1>2 DEF Others
    <3>4. ASSUME NEW s \in pending' PROVE ~Shown(s.tid)'
      <4>1. s.tid # t /\ ~Shown(s.tid)
        BY <3>3 DEF IInv, OnePlaceEach
      <4> QED BY <2>6, <4>1 DEF Shown, Shows
    <3> QED BY <3>2, <3>3, <3>4 DEF IInv, OnePlaceEach
  <2>10. RestoredPaneIsReaped'
    BY <1>1, <1>3, <2>4, <2>6 DEF IInv, RestoredPaneIsReaped, Shown, Shows
  <2>11. RecordsMatch'
    BY <1>2 DEF IInv, RecordsMatch, Others
  <2>12. CrumbsMatch'
    <3> SUFFICES ASSUME NEW u \in undone', NEW q \in Project, Shows(q, u)'
                 PROVE  [tid |-> u, project |-> q] \in restored'
      BY DEF CrumbsMatch
    <3>1. CASE u = t
      <4>1. \A p \in Project : t \notin layout[p].panes
        BY <2>1 DEF IInv, OnePlaceEach, Shown, Shows
      <4> QED BY <2>4, <2>6, <3>1, <4>1 DEF Shows
    <3>2. CASE u # t
      BY <2>4, <2>6, <3>2 DEF IInv, CrumbsMatch, Shows, Others
    <3> QED BY <3>1, <3>2
  <2>13. FreshIsNowhere'
    <3>1. process[t] # "none"
      BY <1>3 DEF IInv, FreshIsNowhere
    <3> SUFFICES ASSUME NEW u \in Terminal, process[u] = "none", u # t
                 PROVE  ~Shown(u)' /\ ~HasPending(u)' /\ u \notin undone' /\ u \notin registry
      BY <1>1, <3>1 DEF FreshIsNowhere
    <3>2. ~Shown(u) /\ ~HasPending(u) /\ u \notin undone /\ u \notin registry
      BY DEF IInv, FreshIsNowhere
    <3>3. ~Shown(u)'
      BY <2>6, <3>2 DEF Shown, Shows
    <3>4. ~HasPending(u)'
      BY <1>2, <3>2 DEF HasPending, Others
    <3> QED BY <2>4, <3>2, <3>3, <3>4
  <2>14. ExitsAreOver'
    BY <1>1 DEF IInv, ExitsAreOver
  <2> QED BY <2>7, <2>8, <2>9, <2>10, <2>11, <2>12, <2>13, <2>14 DEF IInv
<1>4. ASSUME ~(HasPending(t) /\ t \in registry) PROVE IInv'
  <2>1. UNCHANGED <<layout, restored, undone>>
    BY <1>4 DEF ClickUndo
  <2>2. process[t] # "running" \/ ~HasPending(t)
    BY <1>4 DEF IInv, NoTerminalLost
  <2>3. TypeOK'
    BY <1>1, <1>2, <2>1 DEF IInv, TypeOK, Others
  <2>4. NoTerminalLost'
    BY <1>1, <1>2, <2>1, <2>2 DEF IInv, NoTerminalLost, Shown, Shows, HasPending, Others
  <2>5. OnePlaceEach' /\ RecordsMatch'
    BY <1>2, <2>1 DEF IInv, OnePlaceEach, RecordsMatch, Shown, Shows, Others
  <2>6. RestoredPaneIsReaped' /\ CrumbsMatch' /\ FreshIsNowhere'
    BY <1>1, <1>2, <2>1 DEF IInv, RestoredPaneIsReaped, CrumbsMatch, FreshIsNowhere, Shown,
                            Shows, HasPending, Others
  <2>7. ExitsAreOver'
    BY <1>1 DEF IInv, ExitsAreOver
  <2> QED BY <2>3, <2>4, <2>5, <2>6, <2>7 DEF IInv
<1> QED BY <1>3, <1>4

LEMMA DiesIInv ==
  ASSUME IInv, NEW t \in Terminal, Dies(t)
  PROVE  IInv'
<1>1. /\ UNCHANGED <<projects, layout, pending, restored, probes, timers, toasts, registry,
                     quitting, latest, closes, reloads, undone, lost>>
      /\ process' = [process EXCEPT ![t] = "dead"] /\ exits' = exits \cup {t}
  BY DEF Dies, layoutVars, closeVars, history
<1>2. \A u \in Terminal : process'[u] # "dead" => process[u] = process'[u]
  BY <1>1 DEF IInv, TypeOK
<1>3. TypeOK'
  BY <1>1 DEF IInv, TypeOK, NoLayout
<1>4. NoTerminalLost' /\ FreshIsNowhere'
  BY <1>1, <1>2 DEF IInv, NoTerminalLost, FreshIsNowhere, Shown, Shows, HasPending
<1>5. OnePlaceEach' /\ RestoredPaneIsReaped' /\ RecordsMatch' /\ CrumbsMatch'
  BY <1>1 DEF IInv, OnePlaceEach, RestoredPaneIsReaped, RecordsMatch, CrumbsMatch, Shown, Shows
<1>6. ExitsAreOver'
  BY <1>1 DEF IInv, TypeOK, ExitsAreOver
<1> QED BY <1>3, <1>4, <1>5, <1>6 DEF IInv

-----------------------------------------------------------------------------
(* Steps that take panes out of the layouts.                               *)

LEMMA HandleExitIInv ==
  ASSUME IInv, NEW t \in Terminal, HandleExit(t)
  PROVE  IInv'
<1>1. /\ UNCHANGED <<projects, process, probes, timers, quitting, latest, closes, reloads,
                     undone, lost>>
      /\ exits' = exits \ {t} /\ registry' = registry \ {t} /\ pending' = Others(pending, t)
      /\ restored' = Others(restored, t) /\ toasts' \subseteq Terminal
      /\ process[t] = "dead"
  BY DEF HandleExit, Reap, history, IInv, TypeOK, ExitsAreOver
<1>2. \A p \in Project :
        /\ layout'[p] \in Layouts
        /\ layout[p] = NoLayout => layout'[p] = NoLayout
        /\ layout'[p].panes \subseteq layout[p].panes
        /\ layout[p].panes \subseteq layout'[p].panes \cup {t}
        /\ [tid |-> t, project |-> p] \in restored => t \notin layout'[p].panes
  <2> SUFFICES ASSUME NEW p \in Project
               PROVE /\ layout'[p] \in Layouts
                     /\ layout[p] = NoLayout => layout'[p] = NoLayout
                     /\ layout'[p].panes \subseteq layout[p].panes
                     /\ layout[p].panes \subseteq layout'[p].panes \cup {t}
                     /\ [tid |-> t, project |-> p] \in restored => t \notin layout'[p].panes
    OBVIOUS
  <2>1. layout[p] \in Layouts
    BY DEF IInv, TypeOK
  <2>2. layout'[p] = IF [tid |-> t, project |-> p] \in restored /\ Shows(p, t)
                     THEN Without(layout[p], t) ELSE layout[p]
    BY DEF HandleExit, Reap
  <2> QED BY <2>1, <2>2, WithoutIsLayout, NoLayoutIsLayout DEF Shows
<1>3. TypeOK'
  <2>1. layout' \in [Project -> Layouts]
    BY <1>2 DEF HandleExit, Reap
  <2> QED BY <1>1, <1>2, <2>1 DEF IInv, TypeOK, Others
<1>4. NoTerminalLost'
  <2> SUFFICES ASSUME NEW u \in Terminal, process[u] = "running"
               PROVE  u \in registry' /\ (Shown(u)' \/ HasPending(u)' \/ u \in lost)
    BY <1>1 DEF NoTerminalLost
  <2>1. u # t
    BY <1>1
  <2>2. u \in registry /\ (Shown(u) \/ HasPending(u) \/ u \in lost)
    BY DEF IInv, NoTerminalLost
  <2>3. Shown(u) => Shown(u)'
    BY <1>2, <2>1 DEF Shown, Shows
  <2>4. HasPending(u) => HasPending(u)'
    BY <1>1, <2>1 DEF HasPending, Others
  <2> QED BY <1>1, <2>1, <2>2, <2>3, <2>4
<1>5. OnePlaceEach'
  <2>1. \A p \in Project, u \in Terminal : Shows(p, u)' => Shows(p, u)
    BY <1>2 DEF Shows
  <2>2. \A s \in pending' : s \in pending /\ s.tid \in Terminal
    BY <1>1 DEF Others, IInv, TypeOK, PendingClose
  <2>3. \A p, q \in Project, u \in Terminal : Shows(p, u)' /\ Shows(q, u)' => p = q
    BY <2>1 DEF IInv, OnePlaceEach
  <2>4. \A s \in pending' : ~Shown(s.tid)' /\ \A s2 \in pending' : s2.tid = s.tid => s2 = s
    BY <2>1, <2>2 DEF IInv, OnePlaceEach, Shown
  <2> QED BY <2>3, <2>4 DEF OnePlaceEach
<1>6. CrumbsMatch'
  <2> SUFFICES ASSUME NEW u \in undone, NEW p \in Project, Shows(p, u)'
               PROVE  [tid |-> u, project |-> p] \in restored'
    BY <1>1 DEF CrumbsMatch
  <2>1. Shows(p, u) /\ [tid |-> u, project |-> p] \in restored
    BY <1>2 DEF Shows, IInv, CrumbsMatch
  <2>2. u # t
    BY <1>2, <2>1 DEF Shows
  <2> QED BY <1>1, <2>1, <2>2 DEF Others
<1>7. RestoredPaneIsReaped'
  <2> SUFFICES ASSUME NEW u \in undone, NEW p \in Project, Shows(p, u)'
               PROVE  u \in registry'
    BY <1>1 DEF RestoredPaneIsReaped, Shown
  <2>1. Shows(p, u) /\ [tid |-> u, project |-> p] \in restored
    BY <1>2 DEF Shows, IInv, CrumbsMatch
  <2>2. u # t
    BY <1>2, <2>1 DEF Shows
  <2> QED BY <1>1, <2>1, <2>2 DEF IInv, RestoredPaneIsReaped, Shown
<1>8. RecordsMatch' /\ ExitsAreOver'
  BY <1>1 DEF IInv, RecordsMatch, ExitsAreOver, Others
<1>9. FreshIsNowhere'
  <2> SUFFICES ASSUME NEW u \in Terminal, process[u] = "none"
               PROVE  ~Shown(u)' /\ ~HasPending(u)' /\ u \notin undone /\ u \notin registry'
    BY <1>1 DEF FreshIsNowhere
  <2>1. ~Shown(u) /\ ~HasPending(u) /\ u \notin undone /\ u \notin registry
    BY DEF IInv, FreshIsNowhere
  <2> QED BY <1>1, <1>2, <2>1 DEF Shown, Shows, HasPending, Others
<1> QED BY <1>3, <1>4, <1>5, <1>6, <1>7, <1>8, <1>9 DEF IInv

\* A pane goes and its shell ends; what leaves the registry, and whether the
\* exit is reported, is left open.
LEMMA LeaveIInv ==
  ASSUME IInv, NEW p \in Project, NEW t \in Terminal, Shows(p, t),
         UNCHANGED <<projects, closeVars, quitting, latest, closes, reloads, lost>>,
         layout' = [layout EXCEPT ![p] = Without(@, t)],
         undone' = undone \ {t},
         process' \in [Terminal -> {"none", "running", "dead"}],
         process'[t] = "dead",
         \A u \in Terminal : u # t => process'[u] = process[u],
         registry' \subseteq registry, registry \subseteq registry' \cup {t},
         exits' \subseteq exits \cup {t}
  PROVE  IInv'
<1> USE DEF closeVars
<1>1. layout[p] \in Layouts /\ p \in projects
  BY DEF IInv, TypeOK, Shows, NoLayout
<1>2. \A q \in Project :
        /\ layout'[q] \in Layouts
        /\ q # p => layout'[q] = layout[q]
        /\ layout'[q].panes = IF q = p THEN layout[p].panes \ {t} ELSE layout[q].panes
  BY <1>1, WithoutIsLayout DEF IInv, TypeOK
<1>3. TypeOK'
  <2>1. layout' \in [Project -> Layouts]
    BY <1>1, WithoutIsLayout DEF IInv, TypeOK
  <2> QED BY <1>1, <1>2, <2>1 DEF IInv, TypeOK
<1>4. \A q \in Project, u \in Terminal : Shows(q, u)' => Shows(q, u)
  BY <1>2 DEF Shows
<1>5. NoTerminalLost'
  <2> SUFFICES ASSUME NEW u \in Terminal, process'[u] = "running"
               PROVE  u \in registry' /\ (Shown(u)' \/ HasPending(u)' \/ u \in lost)
    BY DEF NoTerminalLost
  <2>1. u # t /\ process[u] = "running"
    OBVIOUS
  <2>2. Shown(u) => Shown(u)'
    BY <1>2, <2>1 DEF Shown, Shows
  <2> QED BY <2>1, <2>2 DEF IInv, NoTerminalLost, HasPending
<1>6. OnePlaceEach'
  <2>1. \A r \in pending : r.tid \in Terminal
    BY DEF IInv, TypeOK, PendingClose
  <2> QED BY <1>4, <2>1 DEF IInv, OnePlaceEach, Shown
<1>7. ASSUME NEW u \in undone', NEW q \in Project, Shows(q, u)'
      PROVE  u \in registry' /\ [tid |-> u, project |-> q] \in restored'
  <2>1. u \in undone /\ u # t /\ u \in Terminal /\ Shows(q, u)
    BY <1>4, <1>7 DEF IInv, TypeOK
  <2> QED BY <2>1 DEF IInv, RestoredPaneIsReaped, CrumbsMatch, Shown
<1>8. RestoredPaneIsReaped' /\ CrumbsMatch'
  BY <1>7 DEF RestoredPaneIsReaped, CrumbsMatch, Shown
<1>9. RecordsMatch' /\ ExitsAreOver'
  BY DEF IInv, TypeOK, RecordsMatch, ExitsAreOver
<1>10. FreshIsNowhere'
  <2> SUFFICES ASSUME NEW u \in Terminal, process'[u] = "none"
               PROVE  ~Shown(u)' /\ ~HasPending(u)' /\ u \notin undone' /\ u \notin registry'
    BY DEF FreshIsNowhere
  <2>1. ~Shown(u) /\ ~HasPending(u) /\ u \notin undone /\ u \notin registry
    BY DEF IInv, FreshIsNowhere
  <2> QED BY <1>4, <2>1 DEF Shown, HasPending
<1> QED BY <1>3, <1>5, <1>6, <1>8, <1>9, <1>10 DEF IInv

LEMMA HardCloseIInv ==
  ASSUME IInv, NEW p \in Project, NEW t \in Terminal, HardClose(p, t)
  PROVE  IInv'
<1>1. process[t] # "none"
  BY DEF HardClose, IInv, FreshIsNowhere, Shown
<1>2. /\ process' \in [Terminal -> {"none", "running", "dead"}]
      /\ process'[t] = "dead"
      /\ \A u \in Terminal : u # t => process'[u] = process[u]
  BY <1>1 DEF HardClose, Kill, IInv, TypeOK
<1>3. registry' = registry \ {t} /\ exits' \subseteq exits \cup {t}
  BY DEF HardClose, Kill
<1> QED BY <1>2, <1>3, LeaveIInv DEF HardClose

LEMMA CapsuleCloseIInv ==
  ASSUME IInv, NEW p \in Project, NEW t \in Terminal, CapsuleClose(p, t)
  PROVE  IInv'
<1>1. /\ process' \in [Terminal -> {"none", "running", "dead"}]
      /\ process'[t] = "dead"
      /\ \A u \in Terminal : u # t => process'[u] = process[u]
  BY DEF CapsuleClose, IInv, TypeOK
<1>2. registry' = registry /\ exits' \subseteq exits \cup {t}
  BY DEF CapsuleClose
<1> QED BY <1>1, <1>2, LeaveIInv DEF CapsuleClose

LEMMA DeleteProjectIInv ==
  ASSUME IInv, NEW p \in Project, DeleteProject(p)
  PROVE  IInv'
<1> DEFINE ts == Doomed(p)
<1>1. /\ p \in projects /\ projects' = projects \ {p}
      /\ layout' = [layout EXCEPT ![p] = NoLayout]
      /\ pending' = {r \in pending : r.project # p}
      /\ UNCHANGED <<restored, probes, timers, toasts, quitting, latest, closes, reloads,
                     undone, lost>>
  BY DEF DeleteProject, DrainPending, history
<1>2. /\ registry' = registry \ ts
      /\ exits' = exits \cup {t \in ts : process[t] = "running"}
      /\ process' = [t \in Terminal |-> IF t \in ts /\ process[t] = "running"
                                        THEN "dead" ELSE process[t]]
  BY DEF DeleteProject, Kill
<1>3. \A q \in Project :
        /\ layout'[q] \in Layouts
        /\ q # p => layout'[q] = layout[q]
        /\ layout'[q].panes = IF q = p THEN {} ELSE layout[q].panes
  BY <1>1, NoLayoutIsLayout DEF IInv, TypeOK
<1>4. /\ \A t \in layout[p].panes : t \in ts
      /\ \A r \in pending : r.project = p => r.tid \in ts
      /\ ts \subseteq Terminal
  BY DEF Doomed, IInv, TypeOK, Layouts, PendingClose
<1>5. \A t \in Terminal : /\ process'[t] = "running" => t \notin ts /\ process[t] = "running"
                          /\ process'[t] = "none" => process[t] = "none"
                          /\ process[t] = "dead" => process'[t] = "dead"
  BY <1>2
<1>6. TypeOK'
  <2>1. layout' \in [Project -> Layouts] /\ \A q \in Project \ projects' : layout'[q] = NoLayout
    BY <1>1, NoLayoutIsLayout DEF IInv, TypeOK
  <2>2. process' \in [Terminal -> {"none", "running", "dead"}]
    BY <1>2 DEF IInv, TypeOK
  <2>3. registry' \subseteq Terminal /\ exits' \subseteq Terminal
    BY <1>2, <1>4 DEF IInv, TypeOK
  <2> QED BY <1>1, <2>1, <2>2, <2>3 DEF IInv, TypeOK
<1>7. \A q \in Project, u \in Terminal : Shows(q, u)' => Shows(q, u) /\ q # p
  BY <1>3 DEF Shows
<1>8. NoTerminalLost'
  <2> SUFFICES ASSUME NEW u \in Terminal, process'[u] = "running"
               PROVE  u \in registry' /\ (Shown(u)' \/ HasPending(u)' \/ u \in lost)
    BY <1>1 DEF NoTerminalLost
  <2>1. u \notin ts /\ u \in registry /\ (Shown(u) \/ HasPending(u) \/ u \in lost)
    BY <1>5 DEF IInv, NoTerminalLost
  <2>2. Shown(u) => Shown(u)'
    BY <1>3, <1>4, <2>1 DEF Shown, Shows
  <2>3. HasPending(u) => HasPending(u)'
    BY <1>1, <1>4, <2>1 DEF HasPending
  <2> QED BY <1>2, <2>1, <2>2, <2>3
<1>9. OnePlaceEach'
  <2>1. \A r \in pending : r.tid \in Terminal
    BY DEF IInv, TypeOK, PendingClose
  <2> QED BY <1>1, <1>7, <2>1 DEF IInv, OnePlaceEach, Shown
<1>10. ASSUME NEW u \in undone, NEW q \in Project, Shows(q, u)'
       PROVE  u \in registry' /\ [tid |-> u, project |-> q] \in restored
  <2>1. Shows(q, u) /\ q # p /\ u \in Terminal
    BY <1>7, <1>10 DEF IInv, TypeOK
  <2>2. u \notin layout[p].panes
    BY <2>1 DEF IInv, OnePlaceEach, Shows
  <2>3. ~HasPending(u)
    BY <2>1 DEF IInv, OnePlaceEach, HasPending, Shown
  <2>4. u \notin ts
    BY <2>2, <2>3 DEF Doomed, HasPending
  <2> QED BY <1>2, <2>1, <2>4 DEF IInv, RestoredPaneIsReaped, CrumbsMatch, Shown
<1>11. RestoredPaneIsReaped' /\ CrumbsMatch'
  BY <1>1, <1>10 DEF RestoredPaneIsReaped, CrumbsMatch, Shown
<1>12. RecordsMatch' /\ ExitsAreOver'
  BY <1>1, <1>2, <1>4, <1>5 DEF IInv, TypeOK, RecordsMatch, ExitsAreOver
<1>13. FreshIsNowhere'
  <2> SUFFICES ASSUME NEW u \in Terminal, process'[u] = "none"
               PROVE  ~Shown(u)' /\ ~HasPending(u)' /\ u \notin undone' /\ u \notin registry'
    BY DEF FreshIsNowhere
  <2>1. ~Shown(u) /\ ~HasPending(u) /\ u \notin undone /\ u \notin registry
    BY <1>5 DEF IInv, FreshIsNowhere
  <2> QED BY <1>1, <1>2, <1>7, <2>1 DEF Shown, HasPending
<1> QED BY <1>6, <1>8, <1>9, <1>11, <1>12, <1>13 DEF IInv

-----------------------------------------------------------------------------
(* Steps that add, move or replace panes.                                  *)

LEMMA OpenIInv ==
  ASSUME IInv, NEW p \in Project, NEW t \in Terminal, Open(p, t)
  PROVE  IInv'
<1>1. /\ UNCHANGED <<projects, pending, restored, probes, timers, toasts, exits, quitting,
                     latest, closes, reloads, undone, lost>>
      /\ process[t] = "none" /\ p \in projects
      /\ process' = [process EXCEPT ![t] = "running"] /\ registry' = registry \cup {t}
  BY DEF Open, closeVars, history
<1>2. PICK k \in Look : layout' = [layout EXCEPT ![p] = With(@, t, k)]
  BY DEF Open
<1>3. layout[p] \in Layouts
  BY DEF IInv, TypeOK
<1>4. \A q \in Project :
        /\ layout'[q] \in Layouts
        /\ q # p => layout'[q] = layout[q]
        /\ layout'[q].panes = IF q = p THEN layout[p].panes \cup {t} ELSE layout[q].panes
  BY <1>2, <1>3, WithIsLayout DEF IInv, TypeOK
<1>5. TypeOK'
  <2>1. layout' \in [Project -> Layouts]
    BY <1>2, <1>3, WithIsLayout DEF IInv, TypeOK
  <2> QED BY <1>1, <1>4, <2>1 DEF IInv, TypeOK
<1>6. ~Shown(t) /\ ~HasPending(t) /\ t \notin undone /\ t \notin registry
  BY <1>1 DEF IInv, FreshIsNowhere
<1>7. \A q \in Project, u \in Terminal : Shows(q, u)' => Shows(q, u) \/ (q = p /\ u = t)
  BY <1>4 DEF Shows
<1>8. NoTerminalLost'
  <2> SUFFICES ASSUME NEW u \in Terminal, process'[u] = "running"
               PROVE  u \in registry' /\ (Shown(u)' \/ HasPending(u)' \/ u \in lost)
    BY <1>1 DEF NoTerminalLost
  <2>1. CASE u = t
    BY <1>1, <1>4, <2>1 DEF Shown, Shows
  <2>2. CASE u # t
    <3>1. process[u] = "running"
      BY <1>1, <2>2 DEF IInv, TypeOK
    <3>2. Shown(u) => Shown(u)'
      BY <1>4 DEF Shown, Shows
    <3> QED BY <1>1, <3>1, <3>2 DEF IInv, NoTerminalLost, HasPending
  <2> QED BY <2>1, <2>2
<1>9. OnePlaceEach'
  <2>1. \A r \in pending : r.tid \in Terminal /\ r.tid # t
    BY <1>6 DEF IInv, TypeOK, PendingClose, HasPending
  <2> QED BY <1>1, <1>6, <1>7, <2>1 DEF IInv, OnePlaceEach, Shown
<1>10. RestoredPaneIsReaped' /\ CrumbsMatch'
  <2> SUFFICES ASSUME NEW u \in undone, NEW q \in Project, Shows(q, u)'
               PROVE  u \in registry' /\ [tid |-> u, project |-> q] \in restored
    BY <1>1 DEF RestoredPaneIsReaped, CrumbsMatch, Shown
  <2>1. u # t /\ u \in Terminal
    BY <1>6 DEF IInv, TypeOK
  <2>2. Shows(q, u)
    BY <1>7, <2>1
  <2> QED BY <1>1, <2>1, <2>2 DEF IInv, RestoredPaneIsReaped, CrumbsMatch, Shown
<1>11. RecordsMatch' /\ ExitsAreOver'
  BY <1>1 DEF IInv, TypeOK, RecordsMatch, ExitsAreOver
<1>12. FreshIsNowhere'
  <2> SUFFICES ASSUME NEW u \in Terminal, process'[u] = "none"
               PROVE  ~Shown(u)' /\ ~HasPending(u)' /\ u \notin undone' /\ u \notin registry'
    BY DEF FreshIsNowhere
  <2>1. u # t /\ process[u] = "none"
    BY <1>1 DEF IInv, TypeOK
  <2>2. ~Shown(u) /\ ~HasPending(u) /\ u \notin undone /\ u \notin registry
    BY <2>1 DEF IInv, FreshIsNowhere
  <2> QED BY <1>1, <1>7, <2>1, <2>2 DEF Shown, HasPending
<1> QED BY <1>5, <1>8, <1>9, <1>10, <1>11, <1>12 DEF IInv

LEMMA RearrangeIInv ==
  ASSUME IInv, NEW p \in Project, NEW k \in Look, Rearrange(p, k)
  PROVE  IInv'
<1>1. /\ UNCHANGED <<projects, pending, restored, probes, timers, toasts, ptyVars, quitting,
                     latest, closes, reloads, undone, lost>>
      /\ layout' = [layout EXCEPT ![p].look = k] /\ layout[p].panes # {}
  BY DEF Rearrange, closeVars, history
<1>2. layout[p] \in Layouts /\ p \in projects
  BY <1>1, NoLayoutIsLayout DEF IInv, TypeOK
<1>3. \A q \in Project :
        /\ layout'[q] \in Layouts
        /\ q # p => layout'[q] = layout[q]
        /\ layout'[q].panes = layout[q].panes
  BY <1>1, <1>2 DEF IInv, TypeOK, Layouts
<1>4. TypeOK'
  <2>1. layout' \in [Project -> Layouts]
    BY <1>1, <1>2 DEF IInv, TypeOK, Layouts
  <2> QED BY <1>1, <1>2, <1>3, <2>1 DEF IInv, TypeOK, ptyVars
<1>5. \A q \in Project, u \in Terminal : Shows(q, u)' <=> Shows(q, u)
  BY <1>3 DEF Shows
<1>6. \A u \in Terminal : Shown(u)' <=> Shown(u)
  BY <1>5 DEF Shown
<1>7. NoTerminalLost' /\ FreshIsNowhere' /\ ExitsAreOver' /\ RecordsMatch'
  BY <1>1, <1>6 DEF IInv, NoTerminalLost, FreshIsNowhere, ExitsAreOver, RecordsMatch,
                    HasPending, ptyVars
<1>8. OnePlaceEach'
  <2>1. \A r \in pending : r.tid \in Terminal
    BY DEF IInv, TypeOK, PendingClose
  <2> QED BY <1>1, <1>5, <1>6, <2>1 DEF IInv, OnePlaceEach
<1>9. RestoredPaneIsReaped' /\ CrumbsMatch'
  <2>1. undone \subseteq Terminal
    BY DEF IInv, TypeOK
  <2> QED BY <1>1, <1>5, <1>6, <2>1 DEF IInv, RestoredPaneIsReaped, CrumbsMatch, ptyVars
<1> QED BY <1>4, <1>7, <1>8, <1>9 DEF IInv

LEMMA MoveToIInv ==
  ASSUME IInv, NEW p \in Project, NEW t \in Terminal, NEW q \in Project, MoveTo(p, t, q)
  PROVE  IInv'
<1>1. /\ UNCHANGED <<projects, pending, restored, probes, timers, toasts, registry, process,
                     exits, quitting, latest, closes, reloads, lost>>
      /\ undone' = undone \ {t} /\ p # q /\ Shows(p, t) /\ layout[q].panes # {}
  BY DEF MoveTo, closeVars, ptyVars
<1>2. PICK k \in Look :
        layout' = [layout EXCEPT ![p] = Without(@, t), ![q] = With(@, t, k)]
  BY DEF MoveTo
<1>3. layout[p] \in Layouts /\ layout[q] \in Layouts /\ p \in projects /\ q \in projects
  BY <1>1, NoLayoutIsLayout DEF IInv, TypeOK, Shows
<1>4. layout' = [layout EXCEPT ![p] = Without(layout[p], t), ![q] = With(layout[q], t, k)]
  BY <1>1, <1>2
<1>5. \A r \in Project :
        /\ layout'[r] \in Layouts
        /\ r \notin {p, q} => layout'[r] = layout[r]
        /\ layout'[r].panes = IF r = p THEN layout[p].panes \ {t}
                              ELSE IF r = q THEN layout[q].panes \cup {t} ELSE layout[r].panes
  BY <1>1, <1>3, <1>4, WithIsLayout, WithoutIsLayout DEF IInv, TypeOK
<1>6. TypeOK'
  <2>1. layout' \in [Project -> Layouts]
    BY <1>3, <1>4, WithIsLayout, WithoutIsLayout DEF IInv, TypeOK
  <2> QED BY <1>1, <1>3, <1>5, <2>1 DEF IInv, TypeOK
<1>7. /\ \A r \in Project, u \in Terminal : u # t => (Shows(r, u)' <=> Shows(r, u))
      /\ \A r \in Project : Shows(r, t)' => r = q
      /\ Shown(t) /\ Shown(t)'
  <2>1. \A r \in Project : Shows(r, t) => r = p
    BY <1>1 DEF IInv, OnePlaceEach
  <2> QED BY <1>1, <1>5, <2>1 DEF Shown, Shows
<1>8. \A u \in Terminal : Shown(u)' <=> Shown(u)
  BY <1>7 DEF Shown
<1>9. NoTerminalLost' /\ FreshIsNowhere' /\ ExitsAreOver' /\ RecordsMatch'
  BY <1>1, <1>8 DEF IInv, NoTerminalLost, FreshIsNowhere, ExitsAreOver, RecordsMatch,
                    HasPending
<1>10. OnePlaceEach'
  <2>1. \A r \in pending : r.tid \in Terminal
    BY DEF IInv, TypeOK, PendingClose
  <2>2. \A r1, r2 \in Project, u \in Terminal : Shows(r1, u)' /\ Shows(r2, u)' => r1 = r2
    BY <1>7 DEF IInv, OnePlaceEach
  <2> QED BY <1>1, <1>8, <2>1, <2>2 DEF IInv, OnePlaceEach
<1>11. RestoredPaneIsReaped' /\ CrumbsMatch'
  <2>1. undone \subseteq Terminal
    BY DEF IInv, TypeOK
  <2> QED BY <1>1, <1>7, <1>8, <2>1 DEF IInv, RestoredPaneIsReaped, CrumbsMatch
<1> QED BY <1>6, <1>9, <1>10, <1>11 DEF IInv

\* What Reload makes of the workspace, for one choice of the new one.
Replaced(P, at, k) ==
    LET panes(p) == {t \in registry : at[t] = p} IN
    /\ projects' = P
    /\ layout' = [p \in Project |->
                    [panes |-> panes(p), look |-> IF panes(p) = {} THEN Plain ELSE k]]
    /\ lost' = lost \cup {t \in registry : at[t] = Nowhere /\ process[t] = "running"}

LEMMA ReloadIInv ==
  ASSUME IInv, Reload
  PROVE  IInv'
<1>1. /\ UNCHANGED <<probes, timers, toasts, registry, process, exits, quitting, latest, closes>>
      /\ pending' = {} /\ restored' = {} /\ undone' = {} /\ reloads' \in Nat
  BY DEF Reload, ptyVars, IInv, TypeOK
<1> PICK P \in SUBSET Project \ {{}} :
      \E at \in [registry -> P \cup {Nowhere}], k \in Look : Replaced(P, at, k)
  BY DEF Reload, Replaced
<1> PICK at \in [registry -> P \cup {Nowhere}], k \in Look : Replaced(P, at, k)
  OBVIOUS
<1>2. /\ projects' = P
      /\ layout' = [p \in Project |->
           [panes |-> {t \in registry : at[t] = p},
            look |-> IF {t \in registry : at[t] = p} = {} THEN Plain ELSE k]]
      /\ lost' = lost \cup {t \in registry : at[t] = Nowhere /\ process[t] = "running"}
  BY DEF Replaced
<1>3. \A p \in Project : /\ layout'[p] \in Layouts
                         /\ layout'[p].panes = {t \in registry : at[t] = p}
  BY <1>2, LookAssumption DEF Layouts, IInv, TypeOK
<1>4. \A p \in Project \ P : layout'[p] = NoLayout
  <2> SUFFICES ASSUME NEW p \in Project \ P PROVE layout'[p] = NoLayout
    OBVIOUS
  <2>1. \A t \in registry : at[t] # p
    BY ProjectAssumption
  <2>2. {t \in registry : at[t] = p} = {}
    BY <2>1
  <2> QED BY <1>2, <2>2 DEF NoLayout
<1>5. TypeOK'
  <2>1. layout' \in [Project -> Layouts]
    BY <1>2, <1>3
  <2>2. lost' \subseteq Terminal /\ projects' \subseteq Project
    BY <1>2 DEF IInv, TypeOK
  <2> QED BY <1>1, <1>2, <1>4, <2>1, <2>2 DEF IInv, TypeOK
<1>6. NoTerminalLost'
  <2> SUFFICES ASSUME NEW u \in Terminal, process[u] = "running"
               PROVE  u \in registry /\ (Shown(u)' \/ u \in lost')
    BY <1>1 DEF NoTerminalLost
  <2>1. u \in registry
    BY DEF IInv, NoTerminalLost
  <2>2. CASE at[u] = Nowhere
    BY <1>2, <2>1, <2>2
  <2>3. CASE at[u] # Nowhere
    <3>1. at[u] \in Project
      BY <2>1, <2>3
    <3> QED BY <1>3, <2>1, <3>1 DEF Shown, Shows
  <2> QED BY <2>1, <2>2, <2>3
<1>7. OnePlaceEach' /\ RestoredPaneIsReaped' /\ CrumbsMatch' /\ RecordsMatch' /\ ExitsAreOver'
  BY <1>1, <1>3 DEF IInv, OnePlaceEach, RestoredPaneIsReaped, CrumbsMatch, RecordsMatch,
                    ExitsAreOver, Shows
<1>8. FreshIsNowhere'
  <2>1. \A u \in Terminal : process[u] = "none" => u \notin registry
    BY DEF IInv, FreshIsNowhere
  <2> QED BY <1>1, <1>3, <2>1 DEF FreshIsNowhere, Shown, Shows, HasPending
<1> QED BY <1>5, <1>6, <1>7, <1>8 DEF IInv

-----------------------------------------------------------------------------
LEMMA StepIInv == IInv /\ [Next]_vars => IInv'
<1> SUFFICES ASSUME IInv, [Next]_vars PROVE IInv'
  OBVIOUS
<1>1. CASE BusyCheck
  BY <1>1, BusyCheckIInv DEF BusyCheck
<1>2. CASE GraceEnds
  BY <1>2, ExpireIInv DEF GraceEnds
<1>3. CASE User
  <2>1. ASSUME NEW t \in Terminal, ClickKill(t) \/ ClickUndo(t) PROVE IInv'
    BY <2>1, ClickKillIInv, UndoIInv
  <2>2. ASSUME NEW t \in Terminal, ToastGoes(t) PROVE IInv'
    BY <2>2, AsideIInv DEF ToastGoes, IInv, TypeOK
  <2>3. ASSUME NEW p \in Project, NEW t \in Terminal,
               \/ Begin(p, t) \/ Open(p, t) \/ HardClose(p, t) \/ CapsuleClose(p, t)
               \/ \E q \in Project : MoveTo(p, t, q)
        PROVE  IInv'
    BY <2>3, BeginIInv, OpenIInv, HardCloseIInv, CapsuleCloseIInv, MoveToIInv
  <2>4. ASSUME NEW p \in Project, DeleteProject(p) \/ \E k \in Look : Rearrange(p, k)
        PROVE  IInv'
    BY <2>4, DeleteProjectIInv, RearrangeIInv
  <2>5. ASSUME Reload \/ Quit PROVE IInv'
    BY <2>5, ReloadIInv, QuitIInv
  <2> QED BY <1>3, <2>1, <2>2, <2>3, <2>4, <2>5 DEF User
<1>4. ASSUME NEW t \in Terminal, Dies(t) \/ HandleExit(t) PROVE IInv'
  BY <1>4, DiesIInv, HandleExitIInv
<1>5. CASE UNCHANGED vars
  BY <1>5, AsideIInv DEF vars, closeVars, IInv, TypeOK
<1> QED BY <1>1, <1>2, <1>3, <1>4, <1>5 DEF Next

THEOREM Inductive == Spec => []IInv
  BY InitIInv, StepIInv, PTL DEF Spec

\* TypeOK: whatever was closed, undone or deleted, each record of a soft close
\* belongs to a project that exists.
THEOREM TypeCorrect == Spec => []TypeOK
<1>1. IInv => TypeOK
  BY DEF IInv
<1> QED BY <1>1, Inductive, PTL

\* No shell that runs is out of reach, however closes, undos, exits, moves and
\* deletions interleave.
THEOREM TerminalsAreKept == Spec => []NoTerminalLost
<1>1. IInv => NoTerminalLost
  BY DEF IInv
<1> QED BY <1>1, Inductive, PTL

\* No undo shows a terminal a second time, although it puts a whole tree back.
THEOREM PlacesAreUnique == Spec => []OnePlaceEach
<1>1. IInv => OnePlaceEach
  BY DEF IInv
<1> QED BY <1>1, Inductive, PTL

\* The exit that an undo raced with finds the pane.
THEOREM DeadPanesAreReaped == Spec => []RestoredPaneIsReaped
<1>1. IInv => RestoredPaneIsReaped
  BY DEF IInv
<1> QED BY <1>1, Inductive, PTL

-----------------------------------------------------------------------------
(* The soft close implements TerminalLives.                                *)

HasRecord(t, p) == \E r \in pending : r.tid = t /\ r.project = p

\* A running shell has the one place that the layouts or the records give it.
LEMMA PlaceIs ==
  ASSUME IInv, NEW t \in Terminal
  PROVE  /\ process[t] = "none" => Place(t) = Lives!Unborn
         /\ process[t] = "dead" => Place(t) = Lives!Ended
         /\ process[t] = "running" =>
              /\ \A p \in Project : Shows(p, t) => Place(t) = Lives!Pane(p)
              /\ \A p \in Project : HasRecord(t, p) => Place(t) = Lives!Grace(p)
              /\ ~Shown(t) /\ ~HasPending(t) => Place(t) = Lives!Lost
              /\ Place(t).at \in {"pane", "grace", "lost"}
              /\ Place(t).at = "grace" <=> HasPending(t)
<1> USE DEF Place, Lives!Unborn, Lives!Ended, Lives!Pane, Lives!Grace, Lives!Lost
<1>1. ASSUME process[t] = "running", NEW p \in Project, Shows(p, t)
      PROVE  Place(t) = Lives!Pane(p)
  <2>1. (CHOOSE q \in Project : Shows(q, t)) = p
    BY <1>1 DEF IInv, OnePlaceEach
  <2> QED BY <1>1, <2>1 DEF Shown
<1>2. ASSUME process[t] = "running", NEW p \in Project, HasRecord(t, p)
      PROVE  Place(t) = Lives!Grace(p)
  <2>1. HasPending(t) /\ ~Shown(t)
    BY <1>2 DEF HasRecord, HasPending, IInv, OnePlaceEach
  <2>2. PendingOf(t).project = p
    BY <1>2, <2>1, PendingOfIsPending DEF HasRecord, IInv, OnePlaceEach
  <2> QED BY <1>2, <2>1, <2>2
<1>3. HasPending(t) => ~Shown(t)
  BY DEF HasPending, IInv, OnePlaceEach
<1> QED BY <1>1, <1>2, <1>3

\* The same after a step.
LEMMA PlaceIsNext ==
  ASSUME IInv', NEW t \in Terminal
  PROVE  /\ process'[t] = "none" => Place(t)' = Lives!Unborn
         /\ process'[t] = "dead" => Place(t)' = Lives!Ended
         /\ process'[t] = "running" =>
              /\ \A p \in Project : Shows(p, t)' => Place(t)' = Lives!Pane(p)
              /\ \A p \in Project : HasRecord(t, p)' => Place(t)' = Lives!Grace(p)
              /\ ~Shown(t)' /\ ~HasPending(t)' => Place(t)' = Lives!Lost
<1> USE DEF Place, Lives!Unborn, Lives!Ended, Lives!Pane, Lives!Grace, Lives!Lost
<1>1. ASSUME process'[t] = "running", NEW p \in Project, Shows(p, t)'
      PROVE  Place(t)' = Lives!Pane(p)
  <2>1. (CHOOSE q \in Project : Shows(q, t)') = p
    BY <1>1 DEF IInv, OnePlaceEach
  <2> QED BY <1>1, <2>1 DEF Shown
<1>2. ASSUME process'[t] = "running", NEW p \in Project, HasRecord(t, p)'
      PROVE  Place(t)' = Lives!Grace(p)
  <2>1. HasPending(t)' /\ ~Shown(t)'
    BY <1>2 DEF HasRecord, HasPending, IInv, OnePlaceEach
  <2>2. PendingOf(t)' \in pending' /\ PendingOf(t)'.tid = t
    BY <2>1 DEF HasPending, PendingOf
  <2>3. PendingOf(t)'.project = p
    BY <1>2, <2>2 DEF HasRecord, IInv, OnePlaceEach
  <2> QED BY <1>2, <2>1, <2>3
<1> QED BY <1>1, <1>2

\* A terminal that a step does not concern: its shell, panes and records.
Steady(t) ==
    /\ process'[t] = process[t]
    /\ process[t] = "running" =>
         \A p \in Project : /\ Shows(p, t)' <=> Shows(p, t)
                            /\ HasRecord(t, p)' <=> HasRecord(t, p)

LEMMA SteadyPlace ==
  ASSUME IInv, IInv', NEW t \in Terminal, Steady(t)
  PROVE  Place(t)' = Place(t)
<1>1. process[t] \in {"none", "running", "dead"}
  BY DEF IInv, TypeOK
<1>2. CASE process[t] # "running"
  BY <1>1, <1>2, PlaceIs, PlaceIsNext DEF Steady
<1>3. CASE process[t] = "running"
  <2>1. CASE \E p \in Project : Shows(p, t)
    BY <1>3, <2>1, PlaceIs, PlaceIsNext DEF Steady
  <2>2. CASE \E p \in Project : HasRecord(t, p)
    BY <1>3, <2>2, PlaceIs, PlaceIsNext DEF Steady
  <2>3. CASE ~(\E p \in Project : Shows(p, t)) /\ ~(\E p \in Project : HasRecord(t, p))
    <3>1. ~Shown(t) /\ ~Shown(t)'
      BY <1>3, <2>3 DEF Shown, Steady
    <3>2. ~HasPending(t)
      BY <2>3 DEF HasPending, HasRecord, IInv, TypeOK, PendingClose
    <3>3. ~HasPending(t)'
      BY <1>3, <2>3 DEF HasPending, HasRecord, IInv, TypeOK, PendingClose, Steady
    <3> QED BY <1>3, <3>1, <3>2, <3>3, PlaceIs, PlaceIsNext DEF Steady
  <2> QED BY <2>1, <2>2, <2>3
<1> QED BY <1>2, <1>3

\* A step that concerns no terminal is hidden.
LEMMA StepHidden ==
  ASSUME IInv, IInv', UNCHANGED quitting, \A t \in Terminal : Steady(t)
  PROVE  UNCHANGED Lives!livesVars
<1>1. \A t \in Terminal : Place(t)' = Place(t)
  BY SteadyPlace
<1> QED BY <1>1 DEF Lives!livesVars

\* A step that concerns one terminal takes it from its old place to its new one.
LEMMA StepMoves ==
  ASSUME IInv, IInv', UNCHANGED quitting, NEW t \in Terminal,
         \A u \in Terminal \ {t} : Steady(u)
  PROVE  Lives!Becomes(t, Place(t), Place(t)')
<1>1. \A u \in Terminal \ {t} : Place(u)' = Place(u)
  BY SteadyPlace
<1> QED BY <1>1 DEF Lives!Becomes

\* The end of one shell, or of one that had already ended.
LEMMA StepEnds ==
  ASSUME IInv, IInv', ~quitting, UNCHANGED quitting, NEW t \in Terminal,
         process[t] # "none", process'[t] = "dead",
         \A u \in Terminal \ {t} : Steady(u)
  PROVE  Lives!LivesNext
<1>1. Place(t)' = Lives!Ended
  BY PlaceIsNext
<1>2. Place(t) # Lives!Unborn
  BY PlaceIs DEF Lives!Unborn, Lives!Ended, IInv, TypeOK
<1>3. Lives!End(t)
  BY <1>1, <1>2, StepMoves DEF Lives!End
<1> QED BY <1>3 DEF Lives!LivesNext

\* finalize_soft_close ends the shell whose record it takes.
LEMMA FinalizeLives ==
  ASSUME IInv, IInv', ~quitting, NEW t \in Terminal, Finalize(t), UNCHANGED <<layout, quitting>>
  PROVE  Lives!LivesNext \/ UNCHANGED Lives!livesVars
<1>1. CASE ~HasPending(t)
  BY <1>1, StepHidden DEF Finalize, ptyVars, Steady, Shows, HasRecord
<1>2. CASE HasPending(t) /\ process[t] = "running"
  <2>1. process'[t] = "dead" /\ \A u \in Terminal \ {t} : process'[u] = process[u]
    BY <1>2 DEF Finalize, Kill
  <2>2. \A u \in Terminal \ {t} : Steady(u)
    BY <1>2, <2>1 DEF Finalize, Steady, Shows, HasRecord, Others
  <2> QED BY <1>2, <2>1, <2>2, StepEnds
<1>3. CASE HasPending(t) /\ process[t] # "running"
  <2>1. \A u \in Terminal : process'[u] = process[u]
    BY <1>3 DEF Finalize, Kill
  <2>2. \A u \in Terminal : Steady(u)
    BY <1>3, <2>1 DEF Finalize, Steady, Shows, HasRecord, Others
  <2> QED BY <2>2, StepHidden DEF Finalize
<1> QED BY <1>1, <1>2, <1>3

\* Closing starts the grace period in the project of the pane.
LEMMA BeginLives ==
  ASSUME IInv, IInv', ~quitting, NEW p \in Project, NEW t \in Terminal, Begin(p, t)
  PROVE  Lives!LivesNext \/ UNCHANGED Lives!livesVars
<1> DEFINE rec == [tid |-> t, project |-> p, pre |-> layout[p], post |-> Without(layout[p], t)]
<1>1. /\ layout' = [layout EXCEPT ![p] = Without(layout[p], t)]
      /\ pending' = pending \cup {rec}
      /\ UNCHANGED <<process, quitting>> /\ Shows(p, t)
  BY DEF Begin, ptyVars
<1>2. layout[p] \in Layouts /\ layout \in [Project -> Layouts]
  BY DEF IInv, TypeOK
<1>3. \A u \in Terminal \ {t}, q \in Project : Shows(q, u)' <=> Shows(q, u)
  BY <1>1, <1>2, WithoutIsLayout DEF Shows
<1>4. \A u \in Terminal \ {t} : Steady(u)
  BY <1>1, <1>3 DEF Steady, HasRecord
<1>5. CASE process[t] = "running"
  <2>1. Place(t) = Lives!Pane(p)
    BY <1>1, <1>5, PlaceIs
  <2>2. HasRecord(t, p)'
    <3>1. rec.tid = t /\ rec.project = p /\ rec \in pending'
      BY <1>1
    <3> HIDE DEF rec
    <3> QED BY <3>1 DEF HasRecord
  <2>3. Place(t)' = Lives!Grace(p)
    BY <1>1, <1>5, <2>2, PlaceIsNext
  <2>4. Lives!CloseSoftly(t, p)
    BY <1>1, <1>4, <2>1, <2>3, StepMoves DEF Lives!CloseSoftly
  <2> QED BY <2>4 DEF Lives!LivesNext
<1>6. CASE process[t] # "running"
  BY <1>1, <1>4, <1>6, StepHidden DEF Steady
<1> QED BY <1>5, <1>6

\* An undo brings the shell back in the project it was closed in.
LEMMA UndoLives ==
  ASSUME IInv, IInv', ~quitting, NEW t \in Terminal, ClickUndo(t)
  PROVE  Lives!LivesNext \/ UNCHANGED Lives!livesVars
<1> DEFINE r == PendingOf(t)
<1>1. UNCHANGED <<process, quitting>> /\ pending' = Others(pending, t)
  BY DEF ClickUndo, ptyVars
<1>2. \A u \in Terminal \ {t}, p \in Project : HasRecord(u, p)' <=> HasRecord(u, p)
  BY <1>1 DEF HasRecord, Others
<1>3. CASE HasPending(t) /\ t \in registry
  <2>1. r \in pending /\ r.tid = t /\ r \in PendingClose /\ r.project \in projects
    BY <1>3, PendingOfIsPending DEF IInv, TypeOK
  <2>2. r.project \in Project /\ layout[r.project] \in Layouts /\ layout \in [Project -> Layouts]
    BY <2>1 DEF IInv, TypeOK
  <2>3. Back(r)
    BY <1>3, <2>1 DEF ClickUndo
  <2>4. \E l : /\ l.panes = layout[r.project].panes \cup {t}
               /\ layout' = [layout EXCEPT ![r.project] = l]
    <3>1. CASE layout[r.project] = r.post
      BY <2>1, <2>3, <3>1 DEF Back, IInv, RecordsMatch
    <3>2. CASE layout[r.project] # r.post
      <4>1. PICK k \in Look : layout' = [layout EXCEPT ![r.project] = With(layout[r.project], t, k)]
        BY <2>1, <2>3, <3>2 DEF Back
      <4> QED BY <2>2, <4>1, WithIsLayout
    <3> QED BY <3>1, <3>2
  <2>5. \A u \in Terminal \ {t}, q \in Project : Shows(q, u)' <=> Shows(q, u)
    BY <2>2, <2>4 DEF Shows
  <2>6. \A u \in Terminal \ {t} : Steady(u)
    BY <1>1, <1>2, <2>5 DEF Steady
  <2>7. CASE process[t] = "running"
    <3>1. PICK p \in Project : p = r.project
      BY <2>2
    <3>2. layout'[p].panes = layout[p].panes \cup {t}
      BY <2>2, <2>4, <3>1
    <3>3. HasRecord(t, p) /\ Shows(p, t)'
      BY <2>1, <3>1, <3>2 DEF HasRecord, Shows
    <3>4. Place(t) = Lives!Grace(p) /\ Place(t)' = Lives!Pane(p)
      BY <1>1, <2>7, <3>3, PlaceIs, PlaceIsNext
    <3>5. Lives!Undo(t, p)
      BY <1>1, <2>6, <3>4, StepMoves DEF Lives!Undo
    <3> QED BY <3>5 DEF Lives!LivesNext
  <2>8. CASE process[t] # "running"
    BY <1>1, <2>6, <2>8, StepHidden DEF Steady
  <2> QED BY <2>7, <2>8
<1>4. CASE ~(HasPending(t) /\ t \in registry)
  <2>1. layout' = layout
    BY <1>4 DEF ClickUndo
  <2>2. process[t] = "running" => ~HasPending(t)
    BY <1>4 DEF IInv, NoTerminalLost
  <2>3. process[t] = "running" => \A p \in Project : HasRecord(t, p)' <=> HasRecord(t, p)
    BY <1>1, <2>2 DEF HasPending, HasRecord, Others
  <2>4. \A u \in Terminal : Steady(u)
    BY <1>1, <1>2, <2>1, <2>3 DEF Steady, Shows
  <2> QED BY <1>1, <2>4, StepHidden
<1> QED BY <1>3, <1>4

\* A shell that exits; the exit that is handled is that of one that has ended.
LEMMA ExitLives ==
  ASSUME IInv, IInv', ~quitting, NEW t \in Terminal, Dies(t) \/ HandleExit(t)
  PROVE  Lives!LivesNext \/ UNCHANGED Lives!livesVars
<1>1. CASE Dies(t)
  <2>1. /\ process[t] = "running" /\ process'[t] = "dead"
        /\ \A u \in Terminal \ {t} : process'[u] = process[u]
        /\ UNCHANGED <<layout, pending, quitting>>
    BY <1>1 DEF Dies, layoutVars, closeVars, IInv, TypeOK
  <2>2. \A u \in Terminal \ {t} : Steady(u)
    BY <2>1 DEF Steady, Shows, HasRecord
  <2> QED BY <2>1, <2>2, StepEnds
<1>2. CASE HandleExit(t)
  <2>1. /\ process[t] = "dead" /\ pending' = Others(pending, t)
        /\ UNCHANGED <<process, quitting>>
    BY <1>2 DEF HandleExit, IInv, ExitsAreOver
  <2>2. \A u \in Terminal \ {t}, p \in Project : Shows(p, u)' <=> Shows(p, u)
    BY <1>2, WithoutIsLayout DEF HandleExit, Reap, Shows, IInv, TypeOK
  <2>3. \A u \in Terminal : Steady(u)
    BY <2>1, <2>2 DEF Steady, HasRecord, Others
  <2> QED BY <2>1, <2>3, StepHidden
<1> QED BY <1>1, <1>2

\* A pane with a new shell.
LEMMA OpenLives ==
  ASSUME IInv, IInv', ~quitting, NEW p \in Project, NEW t \in Terminal, Open(p, t)
  PROVE  Lives!LivesNext
<1>1. PICK k \in Look : layout' = [layout EXCEPT ![p] = With(layout[p], t, k)]
  BY DEF Open
<1>2. layout[p] \in Layouts /\ layout \in [Project -> Layouts]
  BY DEF IInv, TypeOK
<1>3. /\ process[t] = "none" /\ process'[t] = "running"
      /\ \A u \in Terminal \ {t} : process'[u] = process[u]
      /\ UNCHANGED <<pending, quitting>>
  BY DEF Open, closeVars, IInv, TypeOK
<1>4. Shows(p, t)' /\ \A u \in Terminal \ {t}, q \in Project : Shows(q, u)' <=> Shows(q, u)
  BY <1>1, <1>2, WithIsLayout DEF Shows
<1>5. \A u \in Terminal \ {t} : Steady(u)
  BY <1>3, <1>4 DEF Steady, HasRecord
<1>6. Place(t) = Lives!Unborn /\ Place(t)' = Lives!Pane(p)
  BY <1>3, <1>4, PlaceIs, PlaceIsNext
<1>7. Lives!Start(t, p)
  BY <1>3, <1>5, <1>6, StepMoves DEF Lives!Start
<1> QED BY <1>7 DEF Lives!LivesNext

\* A pane closed for good.
LEMMA CloseLives ==
  ASSUME IInv, IInv', ~quitting, NEW p \in Project, NEW t \in Terminal,
         HardClose(p, t) \/ CapsuleClose(p, t)
  PROVE  Lives!LivesNext
<1>1. /\ layout' = [layout EXCEPT ![p] = Without(layout[p], t)]
      /\ UNCHANGED <<pending, quitting>> /\ Shows(p, t)
  BY DEF HardClose, CapsuleClose, closeVars
<1>2. process[t] \in {"running", "dead"}
  BY <1>1 DEF IInv, TypeOK, FreshIsNowhere, Shown
<1>3. process'[t] = "dead" /\ \A u \in Terminal \ {t} : process'[u] = process[u]
  BY <1>2 DEF HardClose, CapsuleClose, Kill, IInv, TypeOK
<1>4. \A u \in Terminal \ {t}, q \in Project : Shows(q, u)' <=> Shows(q, u)
  BY <1>1, WithoutIsLayout DEF Shows, IInv, TypeOK
<1>5. \A u \in Terminal \ {t} : Steady(u)
  BY <1>1, <1>3, <1>4 DEF Steady, HasRecord
<1> QED BY <1>1, <1>2, <1>3, <1>5, StepEnds

\* A pane dragged to another project.
LEMMA MoveLives ==
  ASSUME IInv, IInv', ~quitting, NEW p \in Project, NEW t \in Terminal, NEW q \in Project,
         MoveTo(p, t, q)
  PROVE  Lives!LivesNext \/ UNCHANGED Lives!livesVars
<1>1. PICK k \in Look :
        layout' = [layout EXCEPT ![p] = Without(layout[p], t), ![q] = With(layout[q], t, k)]
  BY DEF MoveTo
<1>2. /\ UNCHANGED <<process, pending, quitting>> /\ p # q /\ Shows(p, t)
      /\ layout[p] \in Layouts /\ layout[q] \in Layouts /\ layout \in [Project -> Layouts]
  BY DEF MoveTo, closeVars, ptyVars, IInv, TypeOK
<1>3. /\ layout'[p].panes = layout[p].panes \ {t} /\ layout'[q].panes = layout[q].panes \cup {t}
      /\ \A r \in Project \ {p, q} : layout'[r] = layout[r]
  BY <1>1, <1>2, WithIsLayout, WithoutIsLayout
<1>4. Shows(q, t)' /\ \A u \in Terminal \ {t}, r \in Project : Shows(r, u)' <=> Shows(r, u)
  BY <1>3 DEF Shows
<1>5. \A u \in Terminal \ {t} : Steady(u)
  BY <1>2, <1>4 DEF Steady, HasRecord
<1>6. CASE process[t] = "running"
  <2>1. Place(t) = Lives!Pane(p) /\ Place(t)' = Lives!Pane(q)
    BY <1>2, <1>4, <1>6, PlaceIs, PlaceIsNext
  <2>2. Lives!Move(t, p, q)
    BY <1>2, <1>5, <2>1, StepMoves DEF Lives!Move
  <2> QED BY <2>2 DEF Lives!LivesNext
<1>7. CASE process[t] # "running"
  BY <1>2, <1>5, <1>7, StepHidden DEF Steady
<1> QED BY <1>6, <1>7

\* Another arrangement of the same panes.
LEMMA RearrangeLives ==
  ASSUME IInv, IInv', NEW p \in Project, NEW k \in Look, Rearrange(p, k)
  PROVE  UNCHANGED Lives!livesVars
<1>1. \A q \in Project : layout'[q].panes = layout[q].panes
  BY DEF Rearrange, IInv, TypeOK, Layouts
<1>2. UNCHANGED <<process, pending, quitting>>
  BY DEF Rearrange, closeVars, ptyVars
<1> QED BY <1>1, <1>2, StepHidden DEF Steady, Shows, HasRecord

\* The shells that a step ends together, all others keeping their places.
LEMMA StepEndsAll ==
  ASSUME IInv, IInv', NEW ts \in SUBSET Terminal,
         \A t \in ts : Place(t) # Lives!Unborn /\ process'[t] = "dead",
         \A t \in Terminal \ ts : Steady(t)
  PROVE  Lives!EndAll(ts)
<1>1. \A t \in ts : Place(t)' = Lives!Ended
  BY PlaceIsNext
<1>2. \A t \in Terminal \ ts : Place(t)' = Place(t)
  BY SteadyPlace
<1> QED BY <1>1, <1>2 DEF Lives!EndAll

\* The deletion of a project ends the shells that belong to it, in a pane or in
\* their grace period.
LEMMA DeleteProjectLives ==
  ASSUME IInv, IInv', ~quitting, NEW p \in Project, DeleteProject(p)
  PROVE  Lives!LivesNext
<1> DEFINE ts == {t \in Terminal : Place(t).home = p}
<1> USE DEF Lives!Unborn, Lives!Ended, Lives!Pane, Lives!Grace, Lives!Lost
<1>1. /\ layout' = [layout EXCEPT ![p] = NoLayout]
      /\ pending' = {r \in pending : r.project # p} /\ Kill(Doomed(p)) /\ quitting' = quitting
      /\ layout \in [Project -> Layouts]
  BY DEF DeleteProject, DrainPending, IInv, TypeOK
<1>2. \A t \in Terminal : t \in Doomed(p) <=> Shows(p, t) \/ HasRecord(t, p)
  BY DEF Doomed, Shows, HasRecord, IInv, TypeOK
<1>3. ASSUME NEW t \in Terminal
      PROVE  t \in ts <=> process[t] = "running" /\ t \in Doomed(p)
  <2>1. process[t] \in {"none", "running", "dead"} /\ p # Nowhere
    BY ProjectAssumption DEF IInv, TypeOK
  <2>2. CASE process[t] # "running"
    BY <2>1, <2>2, PlaceIs
  <2>3. CASE process[t] = "running"
    <3>1. CASE \E q \in Project : Shows(q, t)
      <4>1. PICK q \in Project : Shows(q, t)
        BY <3>1
      <4>2. Place(t).home = q /\ ~HasRecord(t, p) /\ (Shows(p, t) <=> q = p)
        BY <2>3, <4>1, PlaceIs DEF IInv, OnePlaceEach, HasRecord, Shown
      <4> QED BY <1>2, <2>3, <4>2
    <3>2. CASE \E q \in Project : HasRecord(t, q)
      <4>1. PICK q \in Project : HasRecord(t, q)
        BY <3>2
      <4>2. Place(t).home = q /\ ~Shows(p, t) /\ (HasRecord(t, p) <=> q = p)
        BY <2>3, <4>1, PlaceIs DEF IInv, OnePlaceEach, HasRecord, Shown
      <4> QED BY <1>2, <2>3, <4>2
    <3>3. CASE ~(\E q \in Project : Shows(q, t)) /\ ~(\E q \in Project : HasRecord(t, q))
      <4>1. ~Shown(t) /\ ~HasPending(t)
        BY <3>3 DEF Shown, HasPending, HasRecord, IInv, TypeOK, PendingClose
      <4> QED BY <1>2, <2>1, <2>3, <3>3, <4>1, PlaceIs
    <3> QED BY <3>1, <3>2, <3>3
  <2> QED BY <2>2, <2>3
<1>4. \A t \in ts : Place(t) # Lives!Unborn /\ process'[t] = "dead"
  <2>1. p # Nowhere
    BY ProjectAssumption
  <2> QED BY <1>1, <1>3, <2>1 DEF Kill
<1>5. ASSUME NEW t \in Terminal \ ts
      PROVE  Steady(t)
  <2>1. process'[t] = process[t]
    BY <1>1, <1>3 DEF Kill
  <2>2. CASE process[t] = "running"
    <3>1. ~Shows(p, t) /\ ~HasRecord(t, p)
      BY <1>2, <1>3, <2>2
    <3>2. \A q \in Project : Shows(q, t)' <=> Shows(q, t)
      BY <1>1, <3>1, NoLayoutIsLayout DEF Shows
    <3>3. \A q \in Project : HasRecord(t, q)' <=> HasRecord(t, q)
      BY <1>1, <3>1 DEF HasRecord
    <3> QED BY <2>1, <3>2, <3>3 DEF Steady
  <2> QED BY <2>1, <2>2 DEF Steady
<1>6. Lives!EndProject(p)
  BY <1>1, <1>4, <1>5, StepEndsAll DEF Lives!EndProject
<1> QED BY <1>6 DEF Lives!LivesNext

\* The end of the program ends the shells in their grace period.
LEMMA QuitLives ==
  ASSUME IInv, IInv', ~quitting, Quit
  PROVE  Lives!LivesNext
<1> DEFINE ts == {t \in Terminal : Place(t).at = "grace"}
<1> USE DEF Lives!Unborn, Lives!Ended, Lives!Pane, Lives!Grace, Lives!Lost
<1>1. /\ layout' = layout /\ pending' = {} /\ quitting' = TRUE
      /\ Kill({t \in Terminal : HasPending(t)})
  BY DEF Quit, layoutVars
<1>2. \A t \in Terminal : t \in ts <=> process[t] = "running" /\ HasPending(t)
  BY PlaceIs DEF IInv, TypeOK
<1>3. \A t \in ts : Place(t) # Lives!Unborn /\ process'[t] = "dead"
  BY <1>1, <1>2 DEF Kill
<1>4. \A t \in Terminal \ ts : Steady(t)
  BY <1>1, <1>2 DEF Kill, Steady, Shows, HasRecord, HasPending
<1>5. Lives!Quit
  BY <1>1, <1>3, <1>4, StepEndsAll DEF Lives!Quit
<1> QED BY <1>5 DEF Lives!LivesNext

\* Another workspace keeps a shell as a pane or loses it, and ends none.
LEMMA ReloadLives ==
  ASSUME IInv, IInv', ~quitting, Reload
  PROVE  Lives!LivesNext
<1> USE DEF Lives!Unborn, Lives!Ended, Lives!Pane, Lives!Grace, Lives!Lost
<1>1. UNCHANGED <<process, quitting>> /\ pending' = {}
  BY DEF Reload, ptyVars
<1>2. ASSUME NEW t \in Terminal
      PROVE  /\ Place(t)' \in {Lives!Unborn, Lives!Ended, Lives!Lost}
                              \cup {Lives!Pane(p) : p \in Project}
             /\ IF Place(t) \in {Lives!Unborn, Lives!Ended} THEN Place(t)' = Place(t)
                ELSE Place(t)' \notin {Lives!Unborn, Lives!Ended}
  <2>1. process[t] \in {"none", "running", "dead"}
    BY DEF IInv, TypeOK
  <2>2. CASE process[t] # "running"
    BY <1>1, <2>1, <2>2, PlaceIs, PlaceIsNext
  <2>3. CASE process[t] = "running"
    <3>1. Place(t) \notin {Lives!Unborn, Lives!Ended}
      BY <2>3, PlaceIs
    <3>2. ~HasPending(t)'
      BY <1>1 DEF HasPending
    <3>3. CASE \E p \in Project : Shows(p, t)'
      BY <1>1, <2>3, <3>1, <3>3, PlaceIsNext
    <3>4. CASE ~\E p \in Project : Shows(p, t)'
      BY <1>1, <2>3, <3>1, <3>2, <3>4, PlaceIsNext DEF Shown
    <3> QED BY <3>3, <3>4
  <2> QED BY <2>2, <2>3
<1>3. Lives!Replace
  BY <1>1, <1>2 DEF Lives!Replace
<1> QED BY <1>3 DEF Lives!LivesNext

\* Every step is one of the lives, or hidden from them.
LEMMA StepLives ==
  ASSUME IInv, [Next]_vars
  PROVE  [Lives!LivesNext]_(Lives!livesVars)
<1>1. IInv'
  BY StepIInv
<1>2. CASE UNCHANGED vars
  BY <1>1, <1>2, StepHidden DEF vars, layoutVars, closeVars, ptyVars, Steady, Shows, HasRecord
<1>3. CASE Next /\ (BusyCheck \/ GraceEnds)
  <2>1. ASSUME NEW b \in probes, NEW busy \in BOOLEAN, Decide(b, busy)
        PROVE  Lives!LivesNext \/ UNCHANGED Lives!livesVars
    <3>1. b.tid \in Terminal /\ UNCHANGED <<layout, quitting>>
      BY <2>1 DEF Decide, layoutVars, IInv, TypeOK, CloseNo
    <3>2. CASE HasPending(b.tid) /\ busy
      BY <1>1, <2>1, <3>1, <3>2, StepHidden DEF Decide, ptyVars, Steady, Shows, HasRecord
    <3>3. CASE ~(HasPending(b.tid) /\ busy)
      BY <1>1, <1>3, <2>1, <3>1, <3>3, FinalizeLives DEF Decide, Next
    <3> QED BY <3>2, <3>3
  <2>2. ASSUME NEW m \in timers, Expire(m)
        PROVE  Lives!LivesNext \/ UNCHANGED Lives!livesVars
    BY <1>1, <1>3, <2>2, FinalizeLives DEF Expire, layoutVars, Next, IInv, TypeOK, CloseNo
  <2> QED BY <1>3, <2>1, <2>2 DEF BusyCheck, GraceEnds
<1>4. CASE Next /\ User
  <2>1. ~quitting
    BY <1>4 DEF Next
  <2>2. ASSUME NEW t \in Terminal, ClickKill(t) \/ ToastGoes(t)
        PROVE  Lives!LivesNext \/ UNCHANGED Lives!livesVars
    <3>1. CASE ClickKill(t)
      BY <1>1, <2>1, <3>1, FinalizeLives DEF ClickKill, layoutVars
    <3>2. CASE ToastGoes(t)
      BY <1>1, <3>2, StepHidden DEF ToastGoes, layoutVars, ptyVars, Steady, Shows, HasRecord
    <3> QED BY <2>2, <3>1, <3>2
  <2>3. ASSUME NEW p \in Project, NEW t \in Terminal,
               \/ Begin(p, t) \/ Open(p, t) \/ HardClose(p, t) \/ CapsuleClose(p, t)
               \/ \E q \in Project : MoveTo(p, t, q)
        PROVE  Lives!LivesNext \/ UNCHANGED Lives!livesVars
    BY <1>1, <2>1, <2>3, BeginLives, OpenLives, CloseLives, MoveLives
  <2>4. ASSUME NEW p \in Project, DeleteProject(p) \/ \E k \in Look : Rearrange(p, k)
        PROVE  Lives!LivesNext \/ UNCHANGED Lives!livesVars
    BY <1>1, <2>1, <2>4, DeleteProjectLives, RearrangeLives
  <2> QED BY <1>1, <1>4, <2>1, <2>2, <2>3, <2>4, UndoLives, ReloadLives, QuitLives DEF User
<1>5. CASE Next /\ \E t \in Terminal : Dies(t) \/ HandleExit(t)
  BY <1>1, <1>5, ExitLives DEF Next
<1> QED BY <1>2, <1>3, <1>4, <1>5 DEF Next

\* Before the first pane is opened no shell has begun.
LEMMA InitLives ==
  ASSUME Init
  PROVE  Lives!LivesInit
<1>1. IInv
  BY InitIInv
<1>2. ASSUME NEW t \in Terminal
      PROVE  Place(t) = Lives!Unborn
  BY <1>1, <1>2, PlaceIs DEF Init
<1> QED BY <1>2 DEF Init, Lives!LivesInit

\* The soft close, with all that happens to layouts and shells meanwhile,
\* implements the simple life of TerminalLives.
THEOREM SoftCloseKeepsLives == Spec => ShellsLiveOnce
<1>1. Init => Lives!LivesInit
  BY InitLives
<1>2. IInv /\ [Next]_vars => [Lives!LivesNext]_(Lives!livesVars)
  BY StepLives
<1> QED BY <1>1, <1>2, Inductive, PTL DEF Spec, ShellsLiveOnce, Lives!LivesSpec

=============================================================================
