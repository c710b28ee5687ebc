-------------------------- MODULE CloudSyncClaims --------------------------
(***************************************************************************)
(* What comments of the synchronisation code say of it and the code does   *)
(* not do: an invariant that TLC refutes on the model of the code.  The    *)
(* README tells the counterexample.                                        *)
(***************************************************************************)
EXTENDS CloudSync

\* A run that is going to replace the table by what it pulled.
Pulling(a) == run[a].kind = "pull" /\ run[a].phase \in {"pull", "import"}

\* The rows that the snapshot recorded last and the exported tree both have,
\* with a content that the user gave them since and that no snapshot has.
EditedHere(st, local) ==
    {k \in Rows(local) \cap Rows(st.hash) :
        \A i \in 1 .. Len(snaps) :
            k \in Rows(snaps[i].tree) => snaps[i].tree[k].val # local[k].val}

\* The last run of a's device recorded the snapshot that it pushed, or that it
\* imported: no other push came in between.
LastRunWasClean(a) ==
    run[a].st.hash # NoHash /\ base[Home[a]] = run[a].st.pushed

\* snapshot.rs:128, "only the remote side changed -> pull": a device that has
\* synchronised a row, and has edited it since without pushing the edit, does
\* not pull over it.
PullOnlyIfRemoteOnly ==
    \A a \in Actor :
        Pulling(a) /\ LastRunWasClean(a) => EditedHere(run[a].st, run[a].local) = {}

=============================================================================
