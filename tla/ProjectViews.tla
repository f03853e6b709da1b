----------------------------- MODULE ProjectViews -----------------------------
(* What the bridge promises every project of a process: its view of the       *)
(* texts is replaced as a whole, by what the host gives at that moment, and   *)
(* only when that project itself is synchronised.  No other project's         *)
(* synchronisation moves it, it never goes back to an older text, and it is   *)
(* there until the project is closed.  ProjectSnapshots implements this with  *)
(* snapshots, records and caches.                                             *)
EXTENDS Naturals

CONSTANTS
    Configs,        \* the projects
    Files,          \* the files
    FilesOf,        \* the files of each project
    NoView          \* the view of a project that is not open

VARIABLES
    host,           \* version of the text the host gives for each file
    view            \* per project, the version of each of its files, or NoView

Content(texts, c) == [f \in FilesOf[c] |-> texts[f]]

Init ==
    /\ host = [f \in Files |-> 0]
    /\ view = [c \in Configs |-> NoView]

\* The host's text of f changes.
Rewrite(f) ==
    /\ host' = [host EXCEPT ![f] = @ + 1]
    /\ UNCHANGED view

\* Project c is synchronised; the projects in closed are given up by it.
Refresh(c, closed) ==
    /\ c \notin closed
    /\ view' = [d \in Configs |-> IF d = c THEN Content(host, c)
                                  ELSE IF d \in closed THEN NoView
                                  ELSE view[d]]
    /\ UNCHANGED host

Next ==
    \/ \E f \in Files : Rewrite(f)
    \/ \E c \in Configs, closed \in SUBSET Configs : Refresh(c, closed)

Spec == Init /\ [][Next]_<<host, view>>
=============================================================================
