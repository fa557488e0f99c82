----------------------------- MODULE VisibleFiles -----------------------------
(***************************************************************************)
(* What the file-record layer promises to its readers (file lists, S3 GET, *)
(* share links: everyone who filters on status = 'ready').  A file becomes *)
(* visible once, by one step, at a key where nothing is visible; visible   *)
(* files may vanish, several in one step, and never come back.             *)
(***************************************************************************)
CONSTANTS Attempts, Key(_)

VARIABLES
    visible,   \* the files a reader sees
    ever       \* the files a reader could have seen so far

Init ==
    /\ visible = {}
    /\ ever = {}

Publish(i) ==
    /\ i \notin ever
    /\ \A j \in visible : Key(j) # Key(i)
    /\ visible' = visible \cup {i}
    /\ ever' = ever \cup {i}

Withdraw(S) ==
    /\ visible' = visible \ S
    /\ ever' = ever

Next ==
    \/ \E i \in Attempts : Publish(i)
    \/ \E S \in SUBSET visible : Withdraw(S)

Spec == Init /\ [][Next]_<<visible, ever>>
==============================================================================
