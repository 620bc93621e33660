------------------------------- MODULE MCDesired -------------------------------
(* Two DCs and one I/O controller, and the configurations of the runs. *)
EXTENDS Desired

CONSTANTS a, b, i

Conf(num, name) == [num |-> num, name |-> name]

ConfA == {Conf({a}, {})}
ConfAdded == {Conf({}, {}), Conf({b}, {})}
ConfWindow == {Conf({a}, {b}), Conf({}, {b}), Conf({}, {})}
ConfNamedDc == {Conf({}, {b})}
ConfNamed == {Conf({}, {i}), Conf({}, {})}

PagesDirect == [d \in DC |-> {{i}}]
PagesChain == [d \in DC |-> IF d = a THEN {{b}} ELSE {{i}}]
PagesAny == [d \in DC |-> IF d = a THEN {{}, {i}, {b}} ELSE {{}, {i}}]

NoExclusions == {}
ExcludeI == {{}, {i}}
================================================================================
