------------------------------- MODULE Surfaces --------------------------------
(* What the parts of MCSurfaces share: the names, ids and bounds they are instances *)
(* for, and the variables of the part a behaviour follows.                           *)

CONSTANTS
  Names,
  Ids,
  Bound,  \* the bounds of the parts, by name
  None

VARIABLES
  part,
  v1, v2, v3, v4, v5, v6, v7, v8, v9, v10, v11, v12, v13, v14

\* NULL is no account, request or other name.
ASSUME NullAssumption == None \notin Names \cup Ids
===============================================================================
