----------------------------- MODULE UsageLedger -----------------------------
(***************************************************************************)
(* What the syslog server promises about the usage it has accepted: every    *)
(* unit is counted in Redis at most once, and never given up while it could   *)
(* still be counted. SyslogServer implements this specification.             *)
(***************************************************************************)
EXTENDS Integers

CONSTANTS Users, Categories

VARIABLES
  owed,              \* accepted, and neither counted nor given up
  atRisk,            \* the part of it that may be given up
  stored,            \* counted in Redis
  lost               \* given up

ledgerVars == <<owed, atRisk, stored, lost>>

Init ==
  /\ owed = [u \in Users |-> [c \in Categories |-> 0]]
  /\ atRisk = owed /\ stored = owed /\ lost = owed

Accept ==
  /\ \A u \in Users, c \in Categories : owed'[u][c] >= owed[u][c]
  /\ stored' = stored /\ lost' = lost

\* Units move from what is owed to what is counted or given up.
Settle ==
  \A u \in Users, c \in Categories :
    /\ stored'[u][c] >= stored[u][c]
    /\ lost'[u][c] >= lost[u][c]
    /\ lost'[u][c] - lost[u][c] <= atRisk[u][c]
    /\ owed'[u][c] + stored'[u][c] + lost'[u][c] = owed[u][c] + stored[u][c] + lost[u][c]

Next ==
  /\ Accept \/ Settle
  /\ \A u \in Users, c \in Categories : atRisk'[u][c] \in 0 .. owed'[u][c]

Spec == Init /\ [][Next]_ledgerVars
=============================================================================
