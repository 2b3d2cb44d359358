------------------------------ MODULE FeedWatch ------------------------------
(***************************************************************************)
(* What watching a feed promises, without pages, cursors, checkpoints,     *)
(* watermarks or failures: one baseline, of which nothing is reported at   *)
(* the place it had; and a listing that the monitor has passed, and so     *)
(* will not look for again, was reported no later than it was passed,      *)
(* unless it belongs to the baseline or has left its place.                *)
(***************************************************************************)
CONSTANT Listing

VARIABLES
  published,  \* listings published so far, each at its place
  gone,       \* those that left their place
  begun,      \* whether the baseline has been taken
  silent,     \* the listings of the baseline
  reported,   \* listings reported
  passed      \* listings the monitor will not look for again
wvars == <<published, gone, begun, silent, reported, passed>>

Init ==
  /\ published = {} /\ gone = {}
  /\ begun = FALSE /\ silent = {}
  /\ reported = {} /\ passed = {}

\* Nobody has passed a listing before it is published, at whatever time.
Publish(l) ==
  /\ l \notin published \cup passed
  /\ published' = published \cup {l}
  /\ UNCHANGED <<gone, begun, silent, reported, passed>>

\* A listing that is raised is one to report again, at its new place.
Raise(k, l) ==
  /\ k \in published \ gone /\ l \notin published \cup passed
  /\ published' = published \cup {l} /\ gone' = gone \cup {k}
  /\ UNCHANGED <<begun, silent, reported, passed>>

TakeDown(l) ==
  /\ l \in published \ gone
  /\ gone' = gone \cup {l}
  /\ UNCHANGED <<published, begun, silent, reported, passed>>

TakeBaseline ==
  /\ ~begun /\ begun' = TRUE
  /\ silent' \in SUBSET published
  /\ passed' \in SUBSET (silent' \cup gone) /\ silent' \ gone \subseteq passed'
  /\ UNCHANGED <<published, gone, reported>>

\* What is reported and what is passed by it become true together.
Report ==
  /\ begun
  /\ reported' \in SUBSET (published \ silent) /\ reported \subseteq reported'
  /\ passed' \in SUBSET (silent \cup reported' \cup gone) /\ passed \subseteq passed'
  /\ UNCHANGED <<published, gone, begun, silent>>

Next ==
  \/ \E l \in Listing : Publish(l) \/ TakeDown(l)
  \/ \E k, l \in Listing : Raise(k, l)
  \/ TakeBaseline \/ Report

Spec == Init /\ [][Next]_wvars
=============================================================================
