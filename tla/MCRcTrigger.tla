---------------------------- MODULE MCRcTrigger ----------------------------
(* RcTrigger on definitions of few conditions. *)
EXTENDS RcTrigger

Cond(type, target) == [type |-> type, target |-> target]
Conds == {Cond(t, n) : t \in Types, n \in {0, 2}}

Valid(d) ==
  /\ \A g \in DOMAIN d : SumsHaveTarget(d[g])
  /\ \A g \in DOMAIN d : Cardinality({i \in DOMAIN d[g] : d[g][i].type = "measured"}) <= 1

Pairs == {<<a, b>> : a, b \in Conds}
\* Every pair of conditions in one group, or in the core and an alternative.
ShortDefinitions ==
  {d \in {<<p>> : p \in Pairs} \cup {<< <<p[1]>>, <<p[2]>> >> : p \in Pairs} : Valid(d)}

S(n) == Cond("standard", n)
LongDefinitions ==
  { << <<Cond("addHits", 2), Cond("subHits", 0), S(2), Cond("trigger", 0)>> >>,
    << <<Cond("resetNextIf", 0), Cond("andNext", 0), S(2), Cond("resetIf", 0)>> >>,
    << <<S(0), Cond("orNext", 0), Cond("pauseIf", 2), Cond("measured", 2)>> >>,
    << <<Cond("addHits", 0), Cond("pauseIf", 2), Cond("addHits", 0), S(2)>> >>,
    << <<Cond("measured", 2), Cond("pauseIf", 0)>>, <<Cond("resetIf", 0)>>, <<S(2)>> >>,
    << <<Cond("resetNextIf", 2), Cond("addHits", 0), Cond("measured", 2), Cond("measuredIf", 0)>> >>,
    << << >>, <<Cond("trigger", 0), Cond("pauseIf", 0)>>, <<S(2), Cond("pauseIf", 2)>> >> }

AllDefinitions == ShortDefinitions \cup LongDefinitions
=============================================================================
