---------------------------- MODULE ParamProofs ----------------------------
(***************************************************************************)
(* Proofs about ParamCheck for any set of parameters of any configuration. *)
(***************************************************************************)
EXTENDS ParamCheck, TLAPS

(* The value of c as checkParams leaves it, if it does not refuse it.      *)
Passes(c, v, w) == w = Converted(c, v) /\ ~Refused(c, w)

---------------------------------------------------------------------------
(* What the conversions can return.                                        *)
LEMMA TableTypes ==
  /\ \A v \in Json : /\ ToNumber[v] \in {"0", "5", "0.5", "6", "-5", "1", "NaN"}
                     /\ ParseJson[v] \in {"5", "0.5", "true", "[5]", "{}", "6", "-5", "0", "false", "null", "throws"}
                     /\ ToObjectId[v] \in {"id", "fresh id", "throws"}
  /\ \A v \in Number : Negated[v] \in Number
<1>1. \A v \in Json : ToNumber[v] \in {"0", "5", "0.5", "6", "-5", "1", "NaN"}
  BY DEF ToNumber
<1>2. \A v \in Json :
         ParseJson[v] \in {"5", "0.5", "true", "[5]", "{}", "6", "-5", "0", "false", "null", "throws"}
  BY DEF ParseJson
<1>3. \A v \in Json : ToObjectId[v] \in {"id", "fresh id", "throws"}
  BY DEF ToObjectId
<1>4. \A v \in Number : Negated[v] \in Number
  BY DEF Negated, Number
<1> QED
  BY <1>1, <1>2, <1>3, <1>4

(* A number keeps being one, whatever its sign.                            *)
LEMMA OrientedType ==
  ASSUME NEW c \in Config, NEW v \in Json
  PROVE  Oriented(c, ToNumber[v]) \in Number
<1>1. ToNumber[v] \in Number
  BY TableTypes DEF Number
<1> QED
  BY <1>1, TableTypes DEF Oriented

(* The fields of a configuration.                                          *)
LEMMA ConfigFields ==
  ASSUME NEW c \in Config
  PROVE  /\ c.type \in {"string", "number", "boolean", "object", "objectId", "array"}
         /\ c.required \in BOOLEAN /\ c.interval \in BOOLEAN /\ c.valid \in BOOLEAN
         /\ c.orientation \in {"none", "positive", "negative"}
  BY DEF Config, Type

(* A value that passes fits the configuration.                             *)
Fits(c, v) ==
    /\ CASE c.type = "number"   -> v \in Number
         [] c.type = "boolean"  -> v \in {"true", "false"}
         [] c.type = "objectId" -> v \in {"id", "fresh id"}
         [] c.type = "array"    -> v \in Lists
         [] OTHER               -> v \in Json
    /\ c.type = "number" /\ c.interval => v \notin Outside
    /\ c.valid => v = ValidValue[c.type]

LEMMA PassedFits ==
  ASSUME NEW c \in Config, NEW v \in Json, NEW w, Passes(c, v, w)
  PROVE  Fits(c, w) /\ w # Absent
<1>1. c.type = "number" /\ c.interval => w \notin Outside
  BY DEF Passes, Refused
<1>2. c.valid => w = ValidValue[c.type]
  BY DEF Passes, Refused, Found
<1>3. CASE c.type = "string"
  <2>1. w = v
    BY <1>3 DEF Passes, Converted
  <2> QED
    BY <1>1, <1>2, <1>3, <2>1 DEF Fits, Absent, Json, Text, Lists
<1>4. CASE c.type = "number"
  <2>1. w \in Number
    BY <1>4, OrientedType DEF Passes, Converted
  <2> QED
    BY <1>1, <1>2, <1>4, <2>1 DEF Fits, Absent, Number
<1>5. CASE c.type = "boolean"
  <2>1. w \in {"true", "false"}
    BY <1>5 DEF Passes, Converted
  <2> QED
    BY <1>1, <1>2, <1>5, <2>1 DEF Fits, Absent
<1>6. CASE c.type = "object"
  <2>1. w = ParseJson[v] /\ w # "throws"
    BY <1>6 DEF Passes, Converted, Refused
  <2>2. w \in Json /\ w # Absent
    BY <2>1, TableTypes DEF Json, Lists, Text, Absent
  <2> QED
    BY <1>1, <1>2, <1>6, <2>2 DEF Fits
<1>7. CASE c.type = "objectId"
  <2>1. w = ToObjectId[v] /\ w # "throws"
    BY <1>7 DEF Passes, Converted, Refused
  <2>2. w \in {"id", "fresh id"} /\ w # Absent
    BY <2>1, TableTypes DEF Absent
  <2> QED
    BY <1>1, <1>2, <1>7, <2>2 DEF Fits
<1>8. CASE c.type = "array"
  <2>1. w \in Lists
    BY <1>8 DEF Passes, Refused
  <2> QED
    BY <1>1, <1>2, <1>8, <2>1 DEF Fits, Lists, Absent
<1> QED
  BY ConfigFields, <1>3, <1>4, <1>5, <1>6, <1>7, <1>8

---------------------------------------------------------------------------
(* What the schema allows and checkParams refuses.                         *)
Excepted(c, v, m) ==
    \/ c.type = "object"
    \/ c.type = "array" /\ m = "get" /\ v = "'5'"
    \/ c.type \in {"array", "objectId"} /\ c.valid
    \/ c.type = "number" /\ SignMovesOut(c, ToNumber[v])
    \/ c.type = "boolean" /\ c.valid

LEMMA RefusedOnly ==
  ASSUME NEW c \in Config, NEW m \in {"get", "post"}, NEW v \in Schema(c, m),
         Refused(c, Converted(c, v))
  PROVE  Excepted(c, v, m)
<1>1. CASE c.type = "string"
  <2>1. Converted(c, v) = v /\ v \in Text
    BY <1>1 DEF Converted, Schema
  <2>2. c.valid => v = "'abc'"
    BY <1>1 DEF Schema, QueryText, ValidValue
  <2>3. c.valid => Found(c, v)
    BY <1>1, <2>2 DEF Found, ValidValue
  <2> QED
    BY <1>1, <2>1, <2>3 DEF Refused, Text
<1>2. CASE c.type = "number"
  <2> DEFINE x == ToNumber[v]
  <2>1. v \in {"'5'", "6", "5", "-5", "0"}
    BY <1>2 DEF Schema
  <2>2. /\ v \in {"'5'", "5"} => x = "5"
        /\ v \in {"6", "-5"} => x = v
        /\ v = "0" => x = "0"
    BY DEF ToNumber, Json, Text
  <2>3. c.interval => x \notin Outside
    BY <1>2 DEF Schema
  <2>4. c.valid => x = "5"
    BY <1>2, <2>2 DEF Schema, QueryText, ValidValue
  <2>5. c.valid => Found(c, x)
    BY <1>2, <2>4 DEF Found, ValidValue
  <2>6. Converted(c, v) = Oriented(c, x) /\ Oriented(c, x) # "throws"
    <3>1. Negated[x] # "throws"
      BY <2>1, <2>2, TableTypes DEF Number
    <3> QED
      BY <1>2, <2>1, <2>2, <3>1 DEF Converted, Oriented
  <2>7. \/ c.interval /\ Oriented(c, x) \in Outside
        \/ c.valid /\ ~Found(c, Oriented(c, x))
    BY <1>2, <2>6 DEF Refused
  <2>8. Oriented(c, x) # x
    BY <2>3, <2>5, <2>7
  <2> QED
    BY <1>2, <2>7, <2>8 DEF Excepted, SignMovesOut
<1>3. CASE c.type = "boolean" /\ ~c.valid
  BY <1>3 DEF Refused, Converted
<1>4. CASE c.type = "objectId" /\ ~c.valid
  <2>1. v = "'hex'"
    BY <1>4 DEF Schema
  <2>2. Converted(c, v) = "id"
    BY <1>4, <2>1 DEF Converted, ToObjectId, Json, Text
  <2> QED
    BY <1>4, <2>2 DEF Refused
<1>5. CASE c.type = "array" /\ ~c.valid
  <2>1. CASE m = "get"
    <3>1. v \in {"'5'", "['5','5']"}
      BY <1>5, <2>1 DEF Schema
    <3>2. ASSUME v = "['5','5']" PROVE Converted(c, v) = v
      BY <1>5, <3>2 DEF Converted, Listed, Text
    <3> QED
      BY <1>5, <2>1, <3>1, <3>2 DEF Refused, Lists, Excepted
  <2>2. CASE m = "post"
    <3>1. v \in Lists
      BY <1>5, <2>2 DEF Schema
    <3>2. Converted(c, v) = v
      BY <1>5, <3>1 DEF Converted, Listed, Lists, Text
    <3> QED
      BY <1>5, <3>1, <3>2 DEF Refused, Lists
  <2> QED
    BY <2>1, <2>2
<1> QED
  BY ConfigFields, <1>1, <1>2, <1>3, <1>4, <1>5 DEF Excepted

(* A conforming value that is not refused is what its sender meant.        *)
Meant(c, v, w) == w = Meaning(c, v) \/ (c.type = "boolean" /\ w = "false")

LEMMA NumberMeant ==
  ASSUME NEW c \in Config, c.type = "number", NEW v \in {"'5'", "6", "5", "-5", "0"}
  PROVE  Oriented(c, ToNumber[v]) = Meaning(c, v)
<1> DEFINE x == ToNumber[v]
<1>1. /\ v \in {"'5'", "5"} => x = "5"
      /\ v \in {"6", "-5"} => x = v
      /\ v = "0" => x = "0"
  BY DEF ToNumber, Json, Text
<1>2. Negated["6"] = "-6" /\ Negated["5"] = "-5" /\ Negated["-5"] = "5" /\ Negated["0"] = "0"
  BY DEF Negated, Number
<1> DEFINE fits(y) == CASE c.orientation = "positive" -> y \notin Below0
                        [] c.orientation = "negative" -> y \notin Above0
                        [] OTHER -> y = x
<1>3. Oriented(c, x) \in {x, Negated[x]} /\ fits(Oriented(c, x))
  BY <1>1, <1>2, ConfigFields DEF Oriented, Below0, Above0
<1>4. \A y \in {x, Negated[x]} : fits(y) => y = Oriented(c, x)
  BY <1>1, <1>2, ConfigFields DEF Oriented, Below0, Above0
<1>5. Meaning(c, v) = CHOOSE y \in {x, Negated[x]} : fits(y)
  BY DEF Meaning
<1> HIDE DEF x, fits
<1>6. Meaning(c, v) \in {x, Negated[x]} /\ fits(Meaning(c, v))
  BY <1>3, <1>5
<1> QED
  BY <1>4, <1>6 DEF x

LEMMA PassedMeant ==
  ASSUME NEW c \in Config, NEW m \in {"get", "post"}, NEW v \in Schema(c, m), NEW w,
         Passes(c, v, w)
  PROVE  Meant(c, v, w)
<1>1. CASE c.type = "string"
  BY <1>1 DEF Meant, Passes, Converted, Meaning
<1>2. CASE c.type = "number"
  <2>1. v \in {"'5'", "6", "5", "-5", "0"}
    BY <1>2 DEF Schema
  <2> QED
    BY <1>2, <2>1, NumberMeant DEF Meant, Passes, Converted
<1>3. CASE c.type = "boolean"
  <2>1. v \in {"'true'", "true", "false"}
    BY <1>3 DEF Schema
  <2> QED
    BY <1>3, <2>1 DEF Meant, Passes, Converted, Truthy
<1>4. CASE c.type = "objectId"
  <2>1. v = "'hex'"
    BY <1>4 DEF Schema
  <2>2. w = "id"
    BY <1>4, <2>1 DEF Passes, Converted, ToObjectId, Json, Text
  <2> QED
    BY <1>4, <2>2 DEF Meant, Meaning
<1>5. CASE c.type = "object"
  <2>1. v = "{}"
    BY <1>5 DEF Schema
  <2>2. w = "throws"
    BY <1>5, <2>1 DEF Passes, Converted, ParseJson, Json, Text
  <2> QED
    BY <2>2 DEF Passes, Refused
<1>6. CASE c.type = "array"
  <2>1. v \in Lists \/ v = "'5'"
    BY <1>6 DEF Schema, Lists
  <2>2. CASE v = "'5'"
    <3>1. w = "5"
      BY <1>6, <2>2 DEF Passes, Converted, Listed, ParseJson, Json, Text
    <3> QED
      BY <1>6, <3>1 DEF Passes, Refused, Lists
  <2>3. CASE v \in Lists
    <3>1. w = v
      BY <1>6, <2>3 DEF Passes, Converted, Listed, Text, Lists
    <3> QED
      BY <1>6, <3>1 DEF Meant, Meaning
  <2> QED
    BY <2>1, <2>2, <2>3
<1> QED
  BY ConfigFields, <1>1, <1>2, <1>3, <1>4, <1>5, <1>6

---------------------------------------------------------------------------
(* A key the loop has not come to is as it was sent; any other has passed, *)
(* was deleted, or is the one that ended the check.                        *)
Untouched == \A n \in todo : data[n] = sent[n] /\ sent[n] # Absent

Settled(n) ==
    IF n \in DOMAIN params /\ sent[n] # Absent
    THEN Passes(params[n], sent[n], data[n])
    ELSE data[n] = Absent
Handled == \A n \in Name \ todo : n # result => Settled(n)

(* Nothing is accepted before all keys are settled; the required ones were *)
(* there when the loop began.                                              *)
Complete ==
    /\ result = "accepted" => DOMAIN params = {} \/ todo = {}
    /\ result \in {"loop", "accepted"} =>
          \A n \in DOMAIN params : params[n].required => sent[n] # Absent

(* A name is returned because its value is missing or refused.             *)
Reason(n) ==
    sent[n] # Absent => n \in DOMAIN params /\ Refused(params[n], Converted(params[n], sent[n]))
Reasoned == result \in Name => Reason(result)

IInv == TypeOK /\ Untouched /\ Handled /\ Complete /\ Reasoned

(* The values a request can carry.                                         *)
LEMMA Carried == Query \subseteq Json /\ Absent \notin Json /\ Plain \subseteq Config
  BY DEF Query, Json, Text, Lists, Absent, Plain

LEMMA InitInv == Init => IInv
<1> SUFFICES ASSUME Init PROVE IInv
  OBVIOUS
<1>1. PICK D \in SUBSET Name : params \in [D -> Config]
  BY DEF Init
<1>2. sent \in [Name -> Json \cup {Absent}]
  BY Carried DEF Init
<1>3. TypeOK
  BY <1>1, <1>2 DEF Init, TypeOK, Present
<1>4. Untouched /\ Handled
  BY DEF Init, Present, Untouched, Handled, Settled
<1>5. Complete /\ Reasoned
  BY ParamAssumption DEF Init, Complete, Reasoned
<1> QED
  BY <1>3, <1>4, <1>5 DEF IInv

(* What a key is converted to stays within the type of the data.           *)
LEMMA ConvertedType ==
  ASSUME NEW c \in Config, NEW v \in Json, ~Refused(c, Converted(c, v))
  PROVE  Converted(c, v) \in Json \cup Number \cup {"id", "fresh id"}
<1>1. Passes(c, v, Converted(c, v))
  BY DEF Passes
<1>2. Fits(c, Converted(c, v))
  BY <1>1, PassedFits
<1> QED
  BY <1>2, ConfigFields DEF Fits, Json

LEMMA RequiredInv == IInv /\ Required => IInv'
<1> SUFFICES ASSUME IInv, Required PROVE IInv'
  OBVIOUS
<1> DEFINE missing == {n \in DOMAIN params : params[n].required} \ Present(data)
<1>0. /\ UNCHANGED <<method, params, sent, data, todo>>
      /\ result = "start"
      /\ result' \in {"accepted", "loop"} \cup missing
  BY DEF Required
<1>1. missing \subseteq Name
  BY DEF IInv, TypeOK
<1>2. TypeOK'
  BY <1>0, <1>1 DEF IInv, TypeOK
<1>3. result \notin Name
  BY <1>0, ParamAssumption
<1>4. Untouched' /\ Handled'
  BY <1>0, <1>3 DEF IInv, Untouched, Handled, Settled
<1>5. \A n \in DOMAIN params : data[n] = Absent <=> sent[n] = Absent
  <2> SUFFICES ASSUME NEW n \in DOMAIN params PROVE data[n] = Absent <=> sent[n] = Absent
    OBVIOUS
  <2>1. CASE n \in todo
    BY <2>1 DEF IInv, Untouched
  <2>2. CASE n \notin todo
    <3>1. Settled(n)
      BY <1>3, <2>2 DEF IInv, TypeOK, Handled
    <3>2. ASSUME sent[n] # Absent PROVE data[n] # Absent
      <4>1. params[n] \in Config /\ sent[n] \in Json
        BY <3>2 DEF IInv, TypeOK
      <4> QED
        BY <3>1, <3>2, <4>1, PassedFits DEF Settled
    <3> QED
      BY <3>1, <3>2 DEF Settled
  <2> QED
    BY <2>1, <2>2
<1>6. Complete'
  <2>1. result' = "accepted" => DOMAIN params = {}
    BY <1>1, ParamAssumption DEF Required
  <2>2. result' = "loop" => missing = {}
    BY <1>1, ParamAssumption DEF Required
  <2>3. ASSUME missing = {}, NEW n \in DOMAIN params, params[n].required
        PROVE  sent[n] # Absent
    <3>1. n \in Name /\ n \in Present(data)
      BY <2>3 DEF IInv, TypeOK
    <3> QED
      BY <1>5, <3>1 DEF Present
  <2> QED
    BY <1>0, <2>1, <2>2, <2>3 DEF Complete
<1>7. Reasoned'
  <2> SUFFICES ASSUME result' \in Name PROVE Reason(result)'
    BY DEF Reasoned
  <2>1. result' \in missing
    BY <1>0, ParamAssumption
  <2>2. result' \in DOMAIN params /\ data[result'] = Absent
    BY <1>1, <2>1 DEF Present
  <2>3. sent[result'] = Absent
    BY <1>5, <2>2
  <2> QED
    BY <1>0, <2>3 DEF Reason
<1> QED
  BY <1>2, <1>4, <1>6, <1>7 DEF IInv

LEMMA CheckInv == ASSUME NEW n \in Name, IInv, CheckKey(n) PROVE IInv'
<1> DEFINE w == IF n \in DOMAIN params THEN Converted(params[n], data[n]) ELSE Absent
<1>0. /\ UNCHANGED <<method, params, sent>>
      /\ result = "loop" /\ n \in todo /\ todo' = todo \ {n}
      /\ result \notin Name
  BY ParamAssumption DEF CheckKey
<1>1. data[n] = sent[n] /\ sent[n] # Absent /\ sent[n] \in Json
  BY <1>0 DEF IInv, Untouched, TypeOK
<1>2. n \in DOMAIN params => params[n] \in Config
  BY DEF IInv, TypeOK
<1>3. CASE /\ n \in DOMAIN params => ~Refused(params[n], w)
           /\ data' = [data EXCEPT ![n] = w]
           /\ UNCHANGED result
  <2>1. w \in Json \cup Number \cup {"id", "fresh id", Absent}
    BY <1>1, <1>2, <1>3, ConvertedType
  <2>2. TypeOK'
    BY <1>0, <1>3, <2>1 DEF IInv, TypeOK
  <2>3. data'[n] = w /\ \A k \in Name \ {n} : data'[k] = data[k]
    BY <1>3 DEF IInv, TypeOK
  <2>4. Untouched'
    BY <1>0, <2>3 DEF IInv, Untouched, TypeOK
  <2>5. Settled(n)'
    BY <1>0, <1>1, <1>3, <2>3 DEF Settled, Passes
  <2>6. ASSUME NEW k \in Name \ todo', k # n PROVE Settled(k)'
    <3>1. Settled(k)
      BY <1>0, <2>6 DEF IInv, Handled
    <3> QED
      BY <1>0, <2>3, <2>6, <3>1 DEF Settled
  <2>7. Handled'
    BY <2>5, <2>6 DEF Handled
  <2>8. Complete' /\ Reasoned'
    BY <1>0, <1>3 DEF IInv, Complete, Reasoned, Reason
  <2> QED
    BY <2>2, <2>4, <2>7, <2>8 DEF IInv
<1>4. CASE n \in DOMAIN params /\ Refused(params[n], w) /\ result' = n /\ UNCHANGED data
  <2>1. TypeOK'
    BY <1>0, <1>4 DEF IInv, TypeOK
  <2>2. Untouched' /\ Handled'
    BY <1>0, <1>4 DEF IInv, Untouched, Handled, Settled
  <2>3. Complete'
    BY <1>4, ParamAssumption DEF Complete
  <2>4. Reasoned'
    BY <1>0, <1>1, <1>4 DEF Reasoned, Reason
  <2> QED
    BY <2>1, <2>2, <2>3, <2>4 DEF IInv
<1> QED
  BY <1>3, <1>4 DEF CheckKey

LEMMA Inductive == Spec => []IInv
<1>1. IInv /\ Accept => IInv'
  BY ParamAssumption DEF Accept, IInv, TypeOK, Untouched, Handled, Settled, Complete, Reasoned
<1>2. IInv /\ UNCHANGED vars => IInv'
  BY DEF vars, IInv, TypeOK, Untouched, Handled, Settled, Complete, Reasoned, Reason
<1>3. IInv /\ [Next]_vars => IInv'
  BY <1>1, <1>2, RequiredInv, CheckInv DEF Next
<1> QED
  BY <1>3, InitInv, PTL DEF Spec

---------------------------------------------------------------------------
(* ParamCheck.tla, TypeOK: for any parameters of any configuration what    *)
(* checkParams leaves in the container is a JSON value, a number or an id. *)
THEOREM ParamTypeCorrect == Spec => []TypeOK
<1>1. IInv => TypeOK
  BY DEF IInv
<1> QED
  BY <1>1, Inductive, PTL

(* _class.js:64-132 - for any parameters of any configuration, what a      *)
(* method finds in container_data fits the configuration.                  *)
THEOREM AcceptedIsFit == Spec => []AcceptedFits
<1>1. IInv => AcceptedFits
  <2> SUFFICES ASSUME IInv, result = "accepted", DOMAIN params # {}
               PROVE  /\ Present(data) \subseteq DOMAIN params
                      /\ \A n \in DOMAIN params :
                            /\ params[n].required => data[n] # Absent
                            /\ data[n] # Absent => Fits(params[n], data[n])
    BY DEF AcceptedFits, Fits
  <2>1. \A n \in Name : Settled(n)
    BY ParamAssumption DEF IInv, Complete, Handled
  <2>2. Present(data) \subseteq DOMAIN params
    BY <2>1 DEF Present, Settled
  <2>3. ASSUME NEW n \in DOMAIN params
        PROVE  /\ params[n].required => data[n] # Absent
               /\ data[n] # Absent => Fits(params[n], data[n])
    <3>1. n \in Name /\ params[n] \in Config /\ sent[n] \in Json \cup {Absent}
      BY DEF IInv, TypeOK
    <3>2. params[n].required => sent[n] # Absent
      BY DEF IInv, Complete
    <3>3. CASE sent[n] = Absent
      BY <2>1, <3>1, <3>2, <3>3 DEF Settled
    <3>4. CASE sent[n] # Absent
      <4>1. Passes(params[n], sent[n], data[n])
        BY <2>1, <3>1, <3>4 DEF Settled
      <4> QED
        BY <3>1, <3>4, <4>1, PassedFits
    <3> QED
      BY <3>3, <3>4
  <2> QED
    BY <2>2, <2>3
<1> QED
  BY <1>1, Inductive, PTL

(* swagger.js:18-99 against _class.js:94-126 - for any parameters of any   *)
(* configuration, a request that conforms to the published schema is       *)
(* refused in the five cases of ConformingRefused only.                    *)
THEOREM RefusalsAreKnown == Spec => []ConformingRefused
<1>1. IInv => ConformingRefused
  <2> SUFFICES ASSUME IInv, Conforms, result \in Present(sent)
               PROVE  Excepted(params[result], sent[result], method)
    BY DEF ConformingRefused, Excepted
  <2>1. result \in Name /\ sent[result] # Absent
    BY DEF Present
  <2>2. /\ result \in DOMAIN params
        /\ Refused(params[result], Converted(params[result], sent[result]))
    BY <2>1 DEF IInv, Reasoned, Reason
  <2>3. /\ params[result] \in Config /\ method \in {"get", "post"}
        /\ sent[result] \in Schema(params[result], method)
    BY <2>2 DEF IInv, TypeOK, Conforms
  <2> QED
    BY <2>2, <2>3, RefusedOnly
<1> QED
  BY <1>1, Inductive, PTL

(* _class.js:81-133 - for any parameters of any configuration, a           *)
(* conforming value reaches the method with the meaning it was sent with,  *)
(* the boolean true apart.                                                 *)
THEOREM MeaningIsKept == Spec => []MeaningKept
<1>1. IInv => MeaningKept
  <2> SUFFICES ASSUME IInv, Conforms, result = "accepted", NEW n \in Present(sent)
               PROVE  Meant(params[n], sent[n], data[n])
    BY DEF MeaningKept, Meant
  <2>1. n \in Name /\ sent[n] # Absent /\ n \in DOMAIN params
    BY DEF Present, Conforms
  <2>2. Settled(n)
    BY <2>1, ParamAssumption DEF IInv, Complete, Handled
  <2>3. Passes(params[n], sent[n], data[n])
    BY <2>1, <2>2 DEF Settled
  <2>4. /\ params[n] \in Config /\ method \in {"get", "post"}
        /\ sent[n] \in Schema(params[n], method)
    BY <2>1 DEF IInv, TypeOK, Conforms
  <2> QED
    BY <2>3, <2>4, PassedMeant
<1> QED
  BY <1>1, Inductive, PTL
===========================================================================
