------------------------------- MODULE MCShell -------------------------------
(* Model-checking instance of Shell: the constants of the runs.            *)
EXTENDS Shell

MCAllBuiltins == {"jobs", "fg", "bg", "stop", "kill", "exit"}
MCAttrs == {"cooked", "raw"}

(* bg can give a finished job back the BACKGROUND status (see the run
   bg_revives_finished); the liveness run leaves it out. *)
MCNoBgBuiltins == MCAllBuiltins \ {"bg"}

=============================================================================
