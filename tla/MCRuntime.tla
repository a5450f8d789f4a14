------------------------------ MODULE MCRuntime ------------------------------
(* Instances of Runtime for TLC: the configurations callers pass.          *)
EXTENDS Runtime

CONSTANTS m1, m2, s1, s2

\* A model without a limit, and one with a limit in the other store; two ids, a bad limit.
Good == {[names |-> {"path"}, model |-> m1, context |-> 1, limit |-> 0, store |-> s1],
         [names |-> {"id"}, model |-> m2, context |-> 2, limit |-> 1, store |-> s2]}
Bad == {[names |-> {"path", "id"}, model |-> m1, context |-> 1, limit |-> 0, store |-> s2],
        [names |-> {"path"}, model |-> m2, context |-> 2, limit |-> -1, store |-> s1]}

AnyConfig == Good \cup Bad
=============================================================================
