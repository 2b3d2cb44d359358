---------------------------- MODULE MCMonitorRun ----------------------------
\* Two worker processes: a job handler in each, a state request and a source edit
\* in the first.
EXTENDS MonitorRun, TLC

CONSTANTS w1, w2, e1, e2, q1, d1, m1, sA, sB

MCOneHost == [x \in Invocation |-> w1]
MCHostOf == [x \in Invocation |-> IF x = e2 THEN w2 ELSE w1]
\* A restart takes a second or more: by then the dead process's sessions are gone.
SessionsEndBeforeRestart ==
  \A w \in Worker : up[w] = "down" /\ up'[w] = "starting"
    => \A m \in Monitor : lease[m] # Lingering

Sources == Permutations({sA, sB})
=============================================================================
