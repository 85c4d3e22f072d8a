------------------------------- MODULE Layers -------------------------------
(***************************************************************************)
(* Settings in layers.  A layer is a function from the keys it sets to     *)
(* their values; the maps of Go and of koanf that hold settings are        *)
(* layers, and loading one map over another keeps what it does not set.    *)
(***************************************************************************)

\* The layer f over the layer g.
f ++ g == [k \in DOMAIN f \union DOMAIN g |-> IF k \in DOMAIN f THEN f[k] ELSE g[k]]

\* The layer that sets one key.
Only(key, value) == [k \in {key} |-> value]
=============================================================================
