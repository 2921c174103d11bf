--------------------------- MODULE MCSupervision ---------------------------
(* Two services, the second on top of the first, and background jobs that  *)
(* compete with them for the process table.  A failure of the first leads  *)
(* to a restart, one of the second to the recovery of the system.          *)
EXTENDS Supervision

MCDeps == <<{}, {1}>>
MCOnFailure == <<"Restart", "System">>
MCLimit == <<2, 0>>
MCLifetime == <<1, 0>>

\* Both are restarted.
MCRestarted == <<"Restart", "Restart">>
MCLimits == <<1, 1>>
=============================================================================
