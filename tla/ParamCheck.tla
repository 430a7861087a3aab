---------------------------- MODULE ParamCheck ----------------------------
(***************************************************************************)
(* What happens to the parameters of a request: loadConfig and checkParams *)
(* of modules/api/methods/_class.js (also used by socket events), and the  *)
(* schema modules/api/swagger.js publishes for the same parameters.        *)
(*                                                                         *)
(* checkParams walks over the keys of the request, replaces each value by  *)
(* the converted one and returns the first key it does not like. The model *)
(* does the same over a small universe of JavaScript values, written as    *)
(* they look in the source ("'5'" is a string, "5" a number); the          *)
(* conversions of ECMAScript and BSON are tables over that universe.       *)
(***************************************************************************)
EXTENDS Integers, FiniteSets

CONSTANTS Name,    \* the keys of a request and the names of parameters
          Varied   \* BOUND: of the others only a few plain ones are tried

(* `result` holds a name or a word of the model.                           *)
ASSUME ParamAssumption == Varied \subseteq Name /\ Name \cap {"start", "loop", "accepted"} = {}

Text   == {"''", "'5'", "'0.5'", "'abc'", "'true'", "'[5]'", "'{}'", "'hex'"}
Lists  == {"[]", "[5]", "['5','5']"}
Number == {"6", "-6", "5", "-5", "0.5", "-0.5", "0", "1", "-1", "NaN"}
Json   == Text \cup Lists \cup {"6", "5", "-5", "0.5", "0", "true", "false", "null", "{}"}
Query  == Text \cup {"['5','5']"}   \* what a query string can carry

Type   == {"string", "number", "boolean", "object", "objectId", "array"}
Config == [type : Type, required : BOOLEAN, orientation : {"none", "positive", "negative"},
           interval : BOOLEAN, valid : BOOLEAN]

(* BOUND: a parameter that is not varied is a plain number or boolean.     *)
Plain  == {c \in Config : /\ c.type \in {"number", "boolean"} /\ c.orientation = "none"
                          /\ ~c.interval /\ ~c.valid}
Absent == "absent"

VARIABLES method, \* "get": the data is the query; "post": the JSON body
          params, \* the declared parameters: name -> configuration
          sent,   \* the value the client sent under each name, or Absent
          data,   \* container_data: the values checkParams has left so far
          todo,   \* the keys the loop has not come to
          result  \* "start", "loop", "accepted", or the name checkParams returned

vars == <<method, params, sent, data, todo, result>>

TypeOK ==
    /\ method \in {"get", "post"}
    /\ DOMAIN params \subseteq Name /\ \A n \in DOMAIN params : params[n] \in Config
    /\ sent \in [Name -> Json \cup {Absent}]
    /\ data \in [Name -> Json \cup Number \cup {"id", "fresh id", Absent}]
    /\ todo \subseteq Name
    /\ result \in Name \cup {"start", "loop", "accepted"}

Present(d) == {n \in Name : d[n] # Absent}

(* Unary plus.                                                             *)
ToNumber ==
    [v \in Json |-> CASE v \in {"''", "[]", "0", "false", "null"} -> "0"
                      [] v \in {"'5'", "5", "[5]"} -> "5"
                      [] v \in {"'0.5'", "0.5"} -> "0.5"
                      [] v \in {"6", "-5"} -> v
                      [] v = "true" -> "1"
                      [] OTHER -> "NaN"]

(* Boolean(Number.parseInt(v)): the text of v begins with a number that    *)
(* does not round to 0. ('hex' stands for an id that begins with a digit.) *)
Truthy == {"'5'", "'hex'", "6", "5", "-5", "[5]", "['5','5']"}

(* JSON.parse, which turns its argument into a string first.               *)
ParseJson ==
    [v \in Json |-> CASE v \in {"'5'", "5", "[5]"} -> "5"
                      [] v \in {"'0.5'", "0.5"} -> "0.5"
                      [] v \in {"'true'", "true"} -> "true"
                      [] v = "'[5]'" -> "[5]"
                      [] v = "'{}'" -> "{}"
                      [] v \in {"6", "-5", "0", "false", "null"} -> v
                      [] OTHER -> "throws"]

(* new ObjectId: a number or null gives a freshly generated id.            *)
ToObjectId ==
    [v \in Json |-> CASE v = "'hex'" -> "id"
                      [] v \in {"6", "5", "-5", "0.5", "0", "null"} -> "fresh id"
                      [] OTHER -> "throws"]

Negated ==
    [v \in Number |-> CASE v = "6" -> "-6" [] v = "-6" -> "6"
                        [] v = "5" -> "-5" [] v = "-5" -> "5"
                        [] v = "0.5" -> "-0.5" [] v = "-0.5" -> "0.5"
                        [] v = "1" -> "-1" [] v = "-1" -> "1"
                        [] OTHER -> v]
Below0   == {"-6", "-5", "-0.5", "-1"}
Above0   == {"6", "5", "0.5", "1"}
(* `interval` is [-5, 6], both ends open. NaN compares false.              *)
Outside  == {"-6", "-5", "6"}

(* valid_values, one of a type, and what indexOf can find: it compares     *)
(* arrays, objects and ids by identity.                                    *)
ValidValue == [string |-> "'abc'", number |-> "5", boolean |-> "true", object |-> "{}",
               objectId |-> "'hex'", array |-> "[5]"]
QueryText  == [ValidValue EXCEPT !.number = "'5'", !.boolean = "'true'", !.array = "'5'"]
Found(c, v) == v = ValidValue[c.type] /\ c.type \notin {"object", "objectId", "array"}

---------------------------------------------------------------------------
(* loadConfig and a request.                                               *)
Init ==
    /\ method \in {"get", "post"}
    /\ \E D \in SUBSET Name : params \in [D -> Config]
    /\ \A n \in DOMAIN params \ Varied : params[n] \in Plain
    /\ sent \in [Name -> (IF method = "get" THEN Query ELSE Json) \cup {Absent}]
    /\ \A n \in Name \ Varied : sent[n] \in {Absent, "'5'", "'true'"}
    /\ data = sent
    /\ todo = Present(sent)
    /\ result = "start"

(* have_params is not set for a method without parameters: its data is not *)
(* looked at. A required key must be in the data, whatever its value.      *)
Required ==
    /\ result = "start"
    /\ \/ /\ DOMAIN params = {}
          /\ result' = "accepted"
       \/ /\ DOMAIN params # {}
          /\ LET missing == {n \in DOMAIN params : params[n].required} \ Present(data)
             IN  IF missing = {} THEN result' = "loop" ELSE result' \in missing
    /\ UNCHANGED <<method, params, sent, data, todo>>

(* MUTANT of Oriented: the signs are mixed up.                             *)
OrientedBack(c, v) ==
    IF \/ c.orientation = "positive" /\ v \in Above0
       \/ c.orientation = "negative" /\ v \in Below0
    THEN Negated[v] ELSE v

Oriented(c, v) ==
    IF \/ c.orientation = "positive" /\ v \in Below0
       \/ c.orientation = "negative" /\ v \in Above0
    THEN Negated[v] ELSE v

(* MUTANT of Listed: a list is parsed even when it is one already.         *)
ListedAlways(v) == ParseJson[v]

(* A list that came as text is parsed.                                     *)
Listed(v) == IF v \in Text THEN ParseJson[v] ELSE v

(* The switch over the type.                                               *)
Converted(c, v) ==
    CASE c.type = "string"   -> v
      [] c.type = "number"   -> Oriented(c, ToNumber[v])
      [] c.type = "boolean"  -> IF v \in Truthy THEN "true" ELSE "false"
      [] c.type = "object"   -> ParseJson[v]
      [] c.type = "objectId" -> ToObjectId[v]
      [] c.type = "array"    -> Listed(v)

(* MUTANTS of Refused: the interval is closed; an exception is not caught. *)
RefusedInside(c, w) ==
    \/ w = "throws"
    \/ c.type = "number" /\ c.interval /\ w = "-6"
    \/ c.type = "array" /\ w \notin Lists
    \/ c.valid /\ ~Found(c, w)
RefusedKnown(c, w) ==
    \/ c.type = "number" /\ c.interval /\ w \in Outside
    \/ c.valid /\ ~Found(c, w)

(* Why the converted value w is refused.                                   *)
Refused(c, w) ==
    \/ w = "throws"
    \/ c.type = "number" /\ c.interval /\ w \in Outside
    \/ c.type = "array" /\ w \notin Lists
    \/ c.valid /\ ~Found(c, w)

(* One turn of the loop: an unknown key is deleted, a refused value ends   *)
(* the check, another one is replaced by what it was converted to.         *)
CheckKey(n) ==
    /\ result = "loop" /\ n \in todo
    /\ todo' = todo \ {n}
    /\ LET w == IF n \in DOMAIN params THEN Converted(params[n], data[n]) ELSE Absent IN
       \/ /\ n \in DOMAIN params => ~Refused(params[n], w)
          /\ data' = [data EXCEPT ![n] = w]
          /\ UNCHANGED result
       \/ /\ n \in DOMAIN params /\ Refused(params[n], w)
          /\ result' = n
          /\ UNCHANGED data
    /\ UNCHANGED <<method, params, sent>>

Accept ==
    /\ result = "loop" /\ todo = {}
    /\ result' = "accepted"
    /\ UNCHANGED <<method, params, sent, data, todo>>

Next == Required \/ Accept \/ \E n \in Name : CheckKey(n)

Spec == Init /\ [][Next]_vars

---------------------------------------------------------------------------
(* mapParamSchema and buildPathItem: v is what the published schema lets a *)
(* client send for c. In a query numbers and booleans are text, and a list *)
(* of one looks like its element.                                          *)
Schema(c, m) ==
    LET typed == CASE c.type = "string"   -> Text
                   [] c.type = "number"   -> IF m = "get" THEN {"'5'"} ELSE {"6", "5", "-5", "0"}
                   [] c.type = "boolean"  -> IF m = "get" THEN {"'true'"} ELSE {"true", "false"}
                   [] c.type = "objectId" -> {"'hex'"}
                   [] c.type = "object"   -> {"{}"}
                   [] c.type = "array"    -> IF m = "get" THEN {"'5'", "['5','5']"} ELSE Lists
        enum  == IF m = "get" THEN QueryText[c.type] ELSE ValidValue[c.type]
    IN  {v \in typed : /\ c.type = "number" /\ c.interval => ToNumber[v] \notin Outside
                       /\ c.valid => v = enum}

Conforms == /\ Present(sent) \subseteq DOMAIN params
            /\ \A n \in Present(sent) : sent[n] \in Schema(params[n], method)

(* What the client means by v, for a parameter of configuration c.         *)
Meaning(c, v) ==
    CASE c.type = "number"  -> CHOOSE x \in {ToNumber[v], Negated[ToNumber[v]]} :
                                  CASE c.orientation = "positive" -> x \notin Below0
                                    [] c.orientation = "negative" -> x \notin Above0
                                    [] OTHER -> x = ToNumber[v]
      [] c.type = "boolean" -> IF v \in {"true", "'true'"} THEN "true" ELSE "false"
      [] c.type = "objectId" -> "id"
      [] OTHER -> v

(* _class.js:64-132 - what a method finds in container_data, once          *)
(* checkParams has accepted it, fits its configuration: no unknown key, no *)
(* required one missing, every value of its type and, a NaN apart, inside  *)
(* its open interval and its list of valid values. An `object` may be any  *)
(* JSON value, a `string` anything a body can carry.                       *)
AcceptedFits ==
    result = "accepted" /\ DOMAIN params # {} =>
        /\ Present(data) \subseteq DOMAIN params
        /\ \A n \in DOMAIN params :
            LET c == params[n]  v == data[n] IN
            /\ c.required => v # Absent
            /\ v # Absent =>
                /\ CASE c.type = "number"   -> v \in Number
                     [] c.type = "boolean"  -> v \in {"true", "false"}
                     [] c.type = "objectId" -> v \in {"id", "fresh id"}
                     [] c.type = "array"    -> v \in Lists
                     [] OTHER               -> v \in Json
                /\ c.type = "number" /\ c.interval => v \notin Outside
                /\ c.valid => v = ValidValue[c.type]

(* The forced sign changes the number x, and takes it out of the interval  *)
(* or the list of c.                                                       *)
SignMovesOut(c, x) ==
    /\ Oriented(c, x) # x
    /\ \/ c.interval /\ Oriented(c, x) \in Outside
       \/ c.valid /\ ~Found(c, Oriented(c, x))

(* swagger.js:18-99 against _class.js:94-126 - a request that conforms to  *)
(* the published schema is refused in five cases only: an object (already  *)
(* parsed by the body parser, JSON.parse fails on it), a list of one in a  *)
(* query, valid_values that indexOf compares by identity, a number that    *)
(* the forced sign moves out of its interval or list, and a boolean with   *)
(* valid_values (true has become false).                                   *)
ConformingRefused ==
    Conforms /\ result \in Present(sent) =>
        LET c == params[result] IN
        \/ c.type = "object"
        \/ c.type = "array" /\ method = "get" /\ sent[result] = "'5'"
        \/ c.type \in {"array", "objectId"} /\ c.valid
        \/ c.type = "number" /\ SignMovesOut(c, ToNumber[sent[result]])
        \/ c.type = "boolean" /\ c.valid

(* A conforming value reaches the method with the meaning it was sent      *)
(* with, except the boolean true, which parseInt turns into false.         *)
MeaningKept ==
    Conforms /\ result = "accepted" =>
        \A n \in Present(sent) :
            \/ data[n] = Meaning(params[n], sent[n])
            \/ params[n].type = "boolean" /\ data[n] = "false"
===========================================================================
