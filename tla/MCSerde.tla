------------------------------ MODULE MCSerde ------------------------------
EXTENDS Serde, TLC

\* Every scalar class, and every generic over a few of them: nested once.
Scalars == {Class(c) : c \in {"Any", "str", "int", "float", "bool", "NoneType", "UUID",
                              "datetime", "Decimal", "Priority", "Shade", "Color", "Small"}}
Elementary == {Class(c) : c \in {"int", "UUID", "Priority", "Color", "Small"}}
Maybe(type) == [k |-> "union", members |-> {type, Class("NoneType")}]
Over(types) ==
    UNION {{[k |-> c, of |-> t] : c \in {"list", "tuple", "set"}} \cup {Maybe(t)} \cup
           {[k |-> "mapping", key |-> Class("str"), of |-> t]} : t \in types}
AllTypes ==
    Scalars \cup Over(Elementary)
    \cup {Class(c) : c \in Arrays \cup {"dict"}}
    \cup {[k |-> "fixed", items |-> <<Class("int"), t>>] : t \in {Class("Priority"), Class("str")}}
    \cup {[k |-> "union", members |-> {Class("int"), Class("str")} \cup none] :
              none \in {{}, {Class("NoneType")}}}
    \cup {[k |-> "mapping", key |-> t, of |-> Class("int")] :
             t \in {Class(c) : c \in {"str", "bool", "float"}} \cup {Maybe(Class("str")), Class("Priority")}}
    \cup {[k |-> c, of |-> [k |-> "list", of |-> Class("Priority")]] : c \in Ordered}
    \cup {[k |-> c, of |-> Class("Priority")] : c \in {"alias", "frozenset"}}

ScalarValues ==
    {Is("str", s) : s \in {"1", "0.5", "true", "null", "u1", "RED", "red"}}
    \cup {Is("int", "1"), Is("float", "1.0"), Is("float", "0.5"), Is("bool", "true"), None,
          Is("UUID", "u1"), Is("datetime", "d1"), Is("Decimal", "1"), Is("Small", "1")}
    \cup {m[1] : m \in Members}
Few == {Is("int", "1"), Is("str", "1"), Is("Priority", "LOW"), Is("Color", "RED"), None}
Deep == {[class |-> "list", items |-> <<v>>] : v \in Few}
AllValues ==
    ScalarValues \cup Deep
    \cup {[class |-> c, items |-> <<Is("int", "1"), v>>] : c \in Ordered, v \in Few}
    \cup {[class |-> c, members |-> {v, Is("int", "2")}] : c \in {"set", "frozenset"}, v \in Few}
    \cup {[class |-> "dict", pairs |-> {<<v, Is("int", "1")>>}] :
              v \in {s \in ScalarValues : s.class # "str"} \cup Few}
    \cup {[class |-> "dict", pairs |-> {<<Is("str", "1"), v>>}] : v \in Few}
    \cup {[class |-> "list", items |-> <<v>>] : v \in Deep}

Registered == {<<Class("Enum"), "enum">>, <<Class("Enum"), "enum_by_name">>,
               <<Class("Priority"), "enum">>}
=============================================================================
