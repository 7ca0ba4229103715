----------------------------- MODULE MCUserSettings -----------------------------
(* Values of the constants of UserSettings for TLC: the densities alone, no presets. *)
EXTENDS UserSettings

NoDefaults == << >>

=============================================================================
