--------------------------- MODULE MCModelRegistry ---------------------------
(* An instance of ModelRegistry for TLC: which requests the callers make.  *)
EXTENDS ModelRegistry, TLC

CONSTANTS cli, dashboard, p1, p2, a, b

\* A path with the checksum of the other content than the one that is valid, and
\* neither or both of path and id, which the resolver has to tell apart; without a
\* checksum, and by id alone, AutoSelect loads.
Typed ==
    {NoRequest}
        \cup [model_path : Paths, model_id : {Nothing}, checksum : {b}]
        \cup [model_path : Paths, model_id : {a}, checksum : {Nothing}]

\* Sound where no request or property tells the members of a set apart.
SamePaths == Permutations(Procs) \cup Permutations(Paths)
=============================================================================
