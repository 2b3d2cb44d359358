----------------------------- MODULE RunJournal -----------------------------
(***************************************************************************)
(* What the Run table promises, without leases, workers or traversals: a   *)
(* row is created once, a monitor has one owned unfinished row at a time,  *)
(* only its owner finishes it, only unowned rows are interrupted, and a    *)
(* finished row stays as it is.  No promise is made about a suspect        *)
(* monitor, one whose lock the database took back from a living client.    *)
(***************************************************************************)
CONSTANTS Monitor, RunId, None

VARIABLES run, owned, suspect
rvars == <<run, owned, suspect>>

NoRow == [monitor |-> None, outcome |-> None]
Running(m) == [monitor |-> m, outcome |-> "running"]

Init == run = [r \in RunId |-> NoRow] /\ owned = {} /\ suspect = {}

Trusted(r) == run[r].monitor \notin suspect

Begin(r, m) ==
  /\ run[r] = NoRow
  /\ m \notin suspect => \A q \in owned : run[q].monitor # m
  /\ run' = [run EXCEPT ![r] = Running(m)]
  /\ owned' = owned \cup {r}
  /\ UNCHANGED suspect

Skip(r, m) ==
  /\ run[r] = NoRow
  /\ run' = [run EXCEPT ![r] = [monitor |-> m, outcome |-> "skipped"]]
  /\ UNCHANGED <<owned, suspect>>

Finish(r, outcome) ==
  /\ r \in owned
  /\ Trusted(r) => run[r].outcome = "running"
  /\ run' = [run EXCEPT ![r].outcome = outcome]
  /\ owned' = owned \ {r}
  /\ UNCHANGED suspect

\* Owners die, or fail to write their outcome, and leave rows unfinished.
Abandon(R) ==
  /\ R \subseteq owned
  /\ owned' = owned \ R
  /\ UNCHANGED <<run, suspect>>

Interrupt(m) ==
  /\ m \notin suspect => \A r \in owned : run[r].monitor # m
  /\ run' = [r \in RunId |-> IF run[r] = Running(m)
                             THEN [run[r] EXCEPT !.outcome = "interrupted"]
                             ELSE run[r]]
  /\ UNCHANGED <<owned, suspect>>

BecomeSuspect(m) == suspect' = suspect \cup {m} /\ UNCHANGED <<run, owned>>

Next ==
  \/ \E r \in RunId, m \in Monitor : Begin(r, m) \/ Skip(r, m)
  \/ \E r \in RunId, o \in {"success", "catchup", "error"} : Finish(r, o)
  \/ \E R \in SUBSET RunId : Abandon(R)
  \/ \E m \in Monitor : Interrupt(m) \/ BecomeSuspect(m)

Spec == Init /\ [][Next]_rvars
=============================================================================
