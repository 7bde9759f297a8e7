----------------------------- MODULE MCPluginHost -----------------------------
(* Two plugins on one address; the bounds come from the configuration.     *)
EXTENDS PluginHost

MCOrder == <<"p1", "p2">>
MCAddrs == {"a"}
MCTrapSlots == {1}

\* Two plugins may set the same range, which overlaps, or opposite values of a
\* decoder feature.
MCSpecsOf(kind) == IF kind = "xed_decode" THEN {{"on"}, {"off"}} ELSE {{kind}}
MCOpposite(item) == CASE item = "on" -> "off" [] item = "off" -> "on" [] OTHER -> "neither"
=============================================================================
