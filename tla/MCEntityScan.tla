---------------------------- MODULE MCEntityScan ----------------------------
(* Entities that differ from a complete or an empty one in one text field,   *)
(* and entities with up to two roles of each kind.                           *)
EXTENDS EntityScan

CONSTANTS a, b

aa == [type |-> a, name |-> a]
ab == [type |-> a, name |-> b]
ba == [type |-> b, name |-> a]
ShortLists == {<<>>, <<aa>>, <<ab>>, <<ab, aa>>, <<aa, ba>>}

AllFields(text) == [f \in TextFields |-> text]
But(scalars) == {[scalars EXCEPT ![f] = text] : f \in TextFields, text \in {a, b, Empty}}

SomeEntities ==
    [scalars : But(AllFields(a)) \union But(AllFields(Empty)),
     administration : {<<>>}, management : {<<aa>>}]
    \union
    [scalars : {AllFields(a), AllFields(Empty)},
     administration : ShortLists, management : ShortLists]
=============================================================================
