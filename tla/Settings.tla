------------------------------ MODULE Settings ------------------------------
(***************************************************************************)
(* Values of settings between the texts of files, variables and flags and  *)
(* the typed fields of the Go structures: how YAML reads a plain scalar    *)
(* (gopkg.in/yaml.v3), and how the fields are filled from what was read,   *)
(* leniently by koanf (client, server.yaml), strictly by yaml.v3           *)
(* (access.yaml).  An integer is held as its decimal text.                 *)
(***************************************************************************)
EXTENDS Layers

CONSTANTS
    Number,    \* texts that read as an integer, with the integer
    YamlTruth, \* texts that YAML reads as a Boolean, with the Boolean
    ParseBool  \* texts that Go's strconv.ParseBool takes, likewise

\* The decimal text of a number is a number, the same one; what YAML takes for a
\* Boolean Go does as well, and nothing for a number and a Boolean.
ASSUME SettingsAssumption ==
    /\ \A t \in DOMAIN Number : Number[t] \in DOMAIN Number /\ Number[Number[t]] = Number[t]
    /\ DOMAIN YamlTruth \subseteq DOMAIN ParseBool
    /\ \A t \in DOMAIN YamlTruth : ParseBool[t] = YamlTruth[t]
    /\ DOMAIN Number \intersect DOMAIN YamlTruth = {}
    /\ "" \notin DOMAIN Number \union DOMAIN ParseBool

Str(t) == [type |-> "str", val |-> t]
Num(n) == [type |-> "int", val |-> n]
Bool(b) == [type |-> "bool", val |-> b]
List(s) == [type |-> "list", val |-> s]

\* A scalar without quotes is given the type its text looks like.
Plain(t) ==
    CASE t \in DOMAIN Number -> Num(Number[t])
      [] t \in DOMAIN YamlTruth -> Bool(YamlTruth[t])
      [] OTHER -> Str(t)

\* koanf fills a field of a type from a value of another where it can.
Fits(type, v) ==
    \/ v.type = type \/ type = "str" \/ v.type # "str"
    \/ v.val = ""
    \/ type = "int" /\ v.val \in DOMAIN Number
    \/ type = "bool" /\ v.val \in DOMAIN ParseBool

AsBit(b) == IF b THEN "1" ELSE "0"
Zero(type) == CASE type = "str" -> "" [] type = "int" -> "0"
                [] type = "bool" -> FALSE [] type = "list" -> <<>>

Fill(type, v) ==
    IF v.type = type THEN v.val
    ELSE CASE v.type = "bool" -> AsBit(v.val)
           [] v.type = "int" -> IF type = "str" THEN v.val ELSE v.val # "0"
           [] v.type = "str" -> IF v.val = "" THEN Zero(type)
                                ELSE IF type = "int" THEN Number[v.val] ELSE ParseBool[v.val]

Refused == [ok |-> FALSE, conf |-> <<>>]
Accepted(conf) == [ok |-> TRUE, conf |-> conf]

\* k.Unmarshal: fields nobody has set keep their zero value, keys without a
\* field are ignored, and one value that does not fit refuses all.
Unmarshal(types, layer) ==
    IF \A k \in DOMAIN types \intersect DOMAIN layer : Fits(types[k], layer[k])
    THEN Accepted([k \in DOMAIN types |->
            IF k \in DOMAIN layer THEN Fill(types[k], layer[k]) ELSE Zero(types[k])])
    ELSE Refused

\* yaml.Unmarshal into a structure: a text in quotes is no number.
UnmarshalStrict(types, layer) ==
    IF \A k \in DOMAIN types \intersect DOMAIN layer : layer[k].type = types[k]
    THEN Unmarshal(types, layer)
    ELSE Refused
=============================================================================
