------------------------------- MODULE Serde -------------------------------
(***************************************************************************)
(* serialize, encode and deserialize (serde.py) with the default codecs,   *)
(* and the two tables an application extends: the encoders json falls back *)
(* to, and the handlers deserialize dispatches on.  A scalar is the class  *)
(* it belongs to and the text it is written as; JSON values are the values *)
(* of the classes in JsonClasses.  Which error is raised is left out.      *)
(***************************************************************************)
EXTENDS Integers, Sequences, SequencesExt, FiniteSets

CONSTANTS
    Types,      \* the target types asked for
    Values,     \* the values serialized or given to construct
    Encoders,   \* the classes an application may register an encoder for
    Handlers    \* what it may register: <<type, handler>>

VARIABLES
    encoders,   \* the classes encode has an application's encoder for
    handlers,   \* Deserialize._handlers: type |-> handler
    call        \* what is asked of serde, and what came back

vars == <<encoders, handlers, call>>

-----------------------------------------------------------------------------
(* Types and values                                                        *)

Class(c) == [k |-> "class", name |-> c]
IsClass(type, c) == type = Class(c)
Is(c, text) == [class |-> c, text |-> text]
None == Is("NoneType", "null")
Ok(v) == [ok |-> TRUE, value |-> v]
Raised == [ok |-> FALSE]

\* __mro__[1:] without object: Priority is an IntEnum, Shade a StrEnum, Color an Enum,
\* Small a plain subclass of int.
Bases(c) == CASE c = "Priority" -> <<"IntEnum", "int", "ReprEnum", "Enum">>
              [] c = "Shade" -> <<"StrEnum", "str", "ReprEnum", "Enum">>
              [] c = "Color" -> <<"Enum">>
              [] c \in {"bool", "Small"} -> <<"int">>
              [] OTHER -> <<>>
Enums == {"Priority", "Shade", "Color", "IntEnum", "StrEnum", "ReprEnum", "Enum"}
InstanceOf(v, c) == v.class = c \/ Contains(Bases(v.class), c)

\* A member is written as its name; its value is what json and decode_enum see.
Members == {<<Is("Priority", "LOW"), Is("int", "1")>>, <<Is("Priority", "HIGH"), Is("int", "2")>>,
            <<Is("Shade", "LIGHT"), Is("str", "light")>>, <<Is("Color", "RED"), Is("str", "red")>>}
MemberValue(m) == (CHOOSE p \in Members : p[1] = m)[2]

Ordered == {"list", "tuple"}
Arrays == Ordered \cup {"set", "frozenset"}
Elements(v) == IF v.class \in Ordered THEN v.items ELSE SetToSeq(v.members)

RECURSIVE Hashable(_)
Hashable(v) == CASE v.class \in {"list", "set", "dict"} -> FALSE
                 [] v.class = "tuple" -> \A i \in DOMAIN v.items : Hashable(v.items[i])
                 [] OTHER -> TRUE

\* The container of class c with the results' values, unless one was raised.
Gather(c, results) ==
    LET values == [i \in DOMAIN results |-> results[i].value]
    IN  IF \E i \in DOMAIN results : ~results[i].ok THEN Raised
        ELSE IF c \in Ordered THEN Ok([class |-> c, items |-> values])
        ELSE IF \A i \in DOMAIN values : Hashable(values[i])
             THEN Ok([class |-> c, members |-> ToSet(values)])
        ELSE Raised
GatherDict(results) ==
    IF \E p \in results : ~(p[1].ok /\ p[2].ok /\ Hashable(p[1].value)) THEN Raised
    ELSE Ok([class |-> "dict", pairs |-> {<<p[1].value, p[2].value>> : p \in results}])

-----------------------------------------------------------------------------
(* serialize and encode                                                    *)

\* What json.dumps and json.loads make of a scalar json knows, a subclass included.
Plain(v) == CASE v.class \in {"Priority", "Shade"} -> MemberValue(v)
              [] v.class = "Small" -> Is("int", v.text)
              [] OTHER -> v
JsonScalars == {"str", "int", "float", "bool", "NoneType"}

\* Keys json does not know raise: encode is not asked for them.
JsonKey(v) == IF v.class \notin Arrays \cup {"dict"} /\ Plain(v).class \in JsonScalars
              THEN Ok(Is("str", Plain(v).text))
              ELSE Raised

\* encode: its own three classes, and those an application registered.
Encode(v) ==
    CASE v.class \in {"UUID", "datetime", "Decimal"} -> Ok(Is("str", v.text))
      [] v.class \in encoders /\ v.class \in Arrays -> Ok([class |-> "list", items |-> Elements(v)])
      [] v.class \in encoders /\ v.class = "Color" -> Ok(MemberValue(v))
      [] OTHER -> Raised

\* The value json.loads gives back for what serialize wrote, or Raised.
RECURSIVE Serialized(_)
Serialized(v) ==
    IF v.class \in Ordered
    THEN Gather("list", [i \in DOMAIN v.items |-> Serialized(v.items[i])])
    ELSE IF v.class = "dict"
    THEN GatherDict({<<JsonKey(p[1]), Serialized(p[2])>> : p \in v.pairs})
    ELSE IF v.class \notin Arrays /\ Plain(v).class \in JsonScalars THEN Ok(Plain(v))
    ELSE LET encoded == Encode(v) IN IF encoded.ok THEN Serialized(encoded.value) ELSE Raised

-----------------------------------------------------------------------------
(* The handlers of deserialize                                             *)

\* Numerals: int() reads the first column, float() both.
Numerals == {<<"0", "0.0">>, <<"1", "1.0">>, <<"2", "2.0">>}
IntTexts == {n[1] : n \in Numerals}
FloatTexts == {n[2] : n \in Numerals} \cup {"0.5"}
AsFloat(text) == IF text \in FloatTexts THEN text
                 ELSE (CHOOSE n \in Numerals : n[1] = text)[2]

\* _to_number: a bool is not a number, and None stands for no number.
ToNumber(v) ==
    CASE v.class = "bool" -> None
      [] v.class # "bool" /\ (InstanceOf(v, "int") \/ v.class = "float") -> v
      [] InstanceOf(v, "str") /\ Plain(v).text \in IntTexts -> Is("int", Plain(v).text)
      [] InstanceOf(v, "str") /\ Plain(v).text \in FloatTexts -> Is("float", Plain(v).text)
      [] OTHER -> None

DecodeInt(v) ==
    LET number == ToNumber(v)
        whole == {n \in Numerals : n[2] = number.text}
    IN  IF number = None THEN Raised
        ELSE IF number.class # "float" THEN Ok(number)
        ELSE IF whole = {} THEN Raised ELSE Ok(Is("int", (CHOOSE n \in whole : TRUE)[1]))
DecodeFloat(v) ==
    LET number == ToNumber(v)
    IN  IF number = None THEN Raised ELSE Ok(Is("float", AsFloat(Plain(number).text)))
DecodeBool(v) == IF v.class = "bool" THEN Ok(v)
                 ELSE IF InstanceOf(v, "str") /\ Plain(v).text \in {"true", "false"}
                 THEN Ok(Is("bool", Plain(v).text))
                 ELSE Raised

\* decode_str, decode_none and decode_dict only validate.
DecodeSame(c, v) == IF InstanceOf(v, c) THEN Ok(v) ELSE Raised
DecodeArray(c, v) == IF v.class = c THEN Ok(v)
                     ELSE IF v.class \in Arrays
                     THEN Gather(c, [i \in DOMAIN Elements(v) |-> Ok(Elements(v)[i])])
                     ELSE Raised

\* UUID, datetime and Decimal parse a string; a string that is none of theirs raises.
Texts == [UUID |-> {"u1"}, datetime |-> {"d1"}, Decimal |-> IntTexts \cup FloatTexts]
DecodeText(c, v) == IF v.class = c THEN Ok(v)
                    ELSE IF InstanceOf(v, "str") /\ Plain(v).text \in Texts[c]
                    THEN Ok(Is(c, Plain(v).text))
                    ELSE Raised

\* decode_enum and decode_enum_by_name, registered with takes_type.  A member is looked up
\* by equality: True, 1.0 and a Decimal 1 find the member of value 1 as well.
Compared(v) ==
    LET whole == {n \in Numerals : v.text \in ToSet(n)}
    IN  CASE v.class = "bool" -> Is("int", IF v.text = "true" THEN "1" ELSE "0")
          [] v.class \in {"float", "Decimal"} /\ whole # {} ->
                Is("int", (CHOOSE n \in whole : TRUE)[1])
          [] OTHER -> Plain(v)
DecodeEnum(c, v) ==
    LET found == {p \in Members : p[1].class = c /\ v.class \notin Arrays \cup {"dict"}
                                  /\ p[2] = Compared(v)}
    IN  IF v.class = c THEN Ok(v)
        ELSE IF found = {} THEN Raised ELSE Ok((CHOOSE p \in found : TRUE)[1])
DecodeEnumByName(c, v) ==
    LET found == {p \in Members : p[1].class = c /\ InstanceOf(v, "str")
                                  /\ p[1].text = Plain(v).text}
    IN  IF v.class = c THEN Ok(v)
        ELSE IF found = {} THEN Raised ELSE Ok((CHOOSE p \in found : TRUE)[1])

Decode(handler, v, type) ==
    CASE handler = "any" -> Ok(v)
      [] handler = "int" -> DecodeInt(v)
      [] handler = "float" -> DecodeFloat(v)
      [] handler = "bool" -> DecodeBool(v)
      [] handler \in {"str", "NoneType", "dict"} -> DecodeSame(handler, v)
      [] handler \in Arrays -> DecodeArray(handler, v)
      [] handler \in DOMAIN Texts -> DecodeText(handler, v)
      [] handler = "enum" -> DecodeEnum(type.name, v)
      [] handler = "enum_by_name" -> DecodeEnumByName(type.name, v)

-----------------------------------------------------------------------------
(* Deserialize                                                             *)

\* Mutated form: an enum's mixed-in type is asked like any other base.
DispatchBases_All(type) == IF type.k = "class" THEN Bases(type.name) ELSE <<>>

\* An enum asks its enum bases only; a generic or a union has none (object apart).
DispatchBases(type) ==
    LET bases == IF type.k = "class" THEN Bases(type.name) ELSE <<>>
    IN  IF type.k = "class" /\ type.name \in Enums
        THEN SelectSeq(bases, LAMBDA c : c \in Enums)
        ELSE bases

\* The type whose handler serves, of the type itself and then its bases in order.
LookupHandler(type) ==
    LET bases == DispatchBases(type)
    IN  SelectSeq(<<type>> \o [i \in DOMAIN bases |-> Class(bases[i])],
                  LAMBDA c : c \in DOMAIN handlers)

RECURSIVE Construct(_, _)
Construct(type, v) ==
    LET found == LookupHandler(type)
    IN  IF found # <<>> THEN Decode(handlers[found[1]], v, type)
        ELSE CASE type.k = "alias" -> Construct(type.of, v)
           [] type.k \in Arrays /\ v.class \in Arrays ->
                Gather(type.k, [i \in DOMAIN Elements(v) |-> Construct(type.of, Elements(v)[i])])
           [] type.k = "fixed" /\ v.class \in Arrays /\ Len(Elements(v)) = Len(type.items) ->
                Gather("tuple", [i \in DOMAIN type.items |->
                                    Construct(type.items[i], Elements(v)[i])])
           [] type.k = "mapping" /\ v.class = "dict" ->
                GatherDict({<<Construct(type.key, p[1]), Construct(type.of, p[2])>> : p \in v.pairs})
           [] type.k = "union" ->
                LET members == type.members \ {Class("NoneType")}
                IN  IF v = None THEN Ok(None)
                    ELSE IF Cardinality(members) = 1
                    THEN Construct(CHOOSE m \in members : TRUE, v)
                    ELSE Raised
           [] OTHER -> Raised

-----------------------------------------------------------------------------
(* What is asked of serde                                                  *)

PreRegistered == {"str", "int", "float", "bool", "NoneType", "dict", "UUID", "datetime",
                  "Decimal"} \cup Arrays
Idle == [asked |-> "nothing"]

Init ==
    /\ encoders = {}
    /\ handlers = [t \in {Class(c) : c \in PreRegistered \cup {"Any"}} |->
                      IF IsClass(t, "Any") THEN "any" ELSE t.name]
    /\ call = Idle

\* @encode.register
RegisterEncoder(c) ==
    /\ call = Idle /\ encoders' = encoders \cup {c}
    /\ UNCHANGED <<handlers, call>>

\* deserialize.register: the last registration for a type stands.
Register(type, handler) ==
    /\ call = Idle
    /\ handlers' = [t \in DOMAIN handlers \cup {type} |->
                        IF t = type THEN handler ELSE handlers[t]]
    /\ UNCHANGED <<encoders, call>>

\* deserialize.deregister of a type that has a handler; of any other it raises.
Deregister(type) ==
    /\ call = Idle /\ type \in DOMAIN handlers
    /\ handlers' = [t \in DOMAIN handlers \ {type} |-> handlers[t]]
    /\ UNCHANGED <<encoders, call>>

\* deserialize(serialize(v), type=type)
RoundTrip(type, v) ==
    LET written == Serialized(v)
    IN  /\ call = Idle
        /\ call' = [asked |-> "round trip", type |-> type, of |-> v,
                    got |-> IF written.ok THEN Construct(type, written.value) ELSE Raised]
        /\ UNCHANGED <<encoders, handlers>>

\* deserialize.construct(type, v), v a native value or one json decoded.
ConstructCall(type, v) ==
    /\ call = Idle
    /\ call' = [asked |-> "construct", type |-> type, of |-> v, got |-> Construct(type, v)]
    /\ UNCHANGED <<encoders, handlers>>

Return == call # Idle /\ call' = Idle /\ UNCHANGED <<encoders, handlers>>

Next ==
    \/ \E c \in Encoders : RegisterEncoder(c)
    \/ \E h \in Handlers : Register(h[1], h[2])
    \/ \E h \in Handlers : Deregister(h[1])
    \/ \E type \in Types, v \in Values : RoundTrip(type, v) \/ ConstructCall(type, v)
    \/ Return

Spec == Init /\ [][Next]_vars

-----------------------------------------------------------------------------
(* Properties                                                              *)

\* What a handler of a plain class builds also serves its subclasses; an enum is never
\* served by the type it mixes in.
Built(v, c) == \/ c = "Any" \/ InstanceOf(v, c)
               \/ c \notin Enums /\ \E i \in DOMAIN Bases(c) : InstanceOf(v, Bases(c)[i])

\* The scalars a handler of their own, or of an enum, is asked for.
Kept(v, c) == /\ v.class = c /\ c \notin Arrays \cup {"dict", "Any"}
              /\ c \in Enums \/ Class(c) \in DOMAIN handlers

\* v is what the type says, down to its elements: as built, or (exact) of its very classes
\* throughout.  No exact value has None for a key: json writes it as the key "null".
RECURSIVE IsA(_, _, _)
IsA(v, type, exact) ==
    CASE type.k = "class" -> IF exact THEN Kept(v, type.name) ELSE Built(v, type.name)
      [] type.k = "alias" -> IsA(v, type.of, exact)
      [] type.k \in Ordered ->
            v.class = type.k /\ \A i \in DOMAIN v.items : IsA(v.items[i], type.of, exact)
      [] type.k \in Arrays \ Ordered ->
            v.class = type.k /\ \A m \in v.members : IsA(m, type.of, exact)
      [] type.k = "fixed" ->
            /\ v.class = "tuple" /\ Len(v.items) = Len(type.items)
            /\ \A i \in DOMAIN v.items : IsA(v.items[i], type.items[i], exact)
      [] type.k = "mapping" ->
            /\ v.class = "dict"
            /\ \A p \in v.pairs : /\ exact => p[1] # None
                                  /\ IsA(p[1], type.key, exact) /\ IsA(p[2], type.of, exact)
      [] type.k = "union" -> \E m \in type.members : IsA(v, m, exact)

\* A union with more than one member that is not None.  docs/tutorials/serde.md:205 has
\* deserialize raise for it; null is the call where the code does not (README, section 6).
Ambiguous(type) == type.k = "union" /\ Cardinality(type.members \ {Class("NoneType")}) > 1
NullForAmbiguous(type, v) == Ambiguous(type) /\ v = None

\* Whatever was registered and deregistered before, deserialize (serde.py:328-348) either
\* raises or gives what the type says, at every depth: never a plain int for an IntEnum,
\* never an element left as it came.  And a value of the type, whether construct is given
\* it or its bytes are (serde.py:187-199), never comes back as another value.  Nothing comes
\* back for an ambiguous union; null for one is left out.
DecodesTheType ==
    (call # Idle /\ call.got.ok /\ ~NullForAmbiguous(call.type, call.of)) =>
        /\ ~Ambiguous(call.type)
        /\ IsA(call.got.value, call.type, FALSE)
        /\ IsA(call.of, call.type, TRUE) => call.got.value = call.of

=============================================================================
