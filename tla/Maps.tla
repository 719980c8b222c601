-------------------------------- MODULE Maps --------------------------------
(* Maps as functions. *)

\* The map of one entry.
Only(key, entry) == [k \in {key} |-> entry]

\* The entries of f, and those of g for the keys that f does not have.
f ++ g ==
  [k \in DOMAIN f \union DOMAIN g |-> IF k \in DOMAIN f THEN f[k] ELSE g[k]]

=============================================================================
