--------------------------------- MODULE MCCli ---------------------------------
(* Instances of Cli for TLC: the command lines users write.                *)
EXTENDS Cli

CONSTANTS m1, m2, s1

Arg(is, names, number) == [is |-> is, names |-> names, number |-> number]

Flag(is) == Arg(is, m2, Nothing)
Text(m) == Arg("text", m, Nothing)
Num(n) == Arg(IF n < 0 THEN "unknown" ELSE "text", m2, n)
Empty == Arg("unknown", Nothing, Nothing)

Model(m) == <<Flag("--model"), Text(m)>>
Id(m) == <<Flag("--model-id"), Text(m)>>
Minutes(n) == <<Flag("--time-limit-minutes"), Num(n)>>
Context(n) == <<Flag("--context"), Num(n)>>

\* In, at (4) and beyond (5, -1) the bounds of a valid limit; -15 is beyond those of the
\* product and wraps to a valid limit, and a context of 9 is cut to a valid one.
Limited == {Model(m1) \o Minutes(n) : n \in {4, 5, -1, -15}}
Sized == {Model(m1) \o Context(n) : n \in {1, 3, 9, -1}}

\* Two arguments of any kind, alone and after an option.
Any == {Flag(f) : f \in Flags} \cup {Num(1), Num(-1), Empty}
Pairs == {<<a, b>> : a \in Any, b \in {Flag("--model"), Num(1), Empty}}

\* Both ways to name a model, one of them twice or empty, none, and a prompt.
Named2 == {Model(m1) \o Id(m2), Model(m1) \o Model(m2), Id(m1), <<>>,
           Model(m1) \o <<Text(m1)>>, <<Flag("--model"), Empty>> \o Id(m1),
           Minutes(9) \o Minutes(1) \o Id(m1) \o <<Text(m1)>>}

AllArgvs == Limited \cup Sized \cup Named2 \cup Pairs
AllConfigs == CliConfigs
=============================================================================
