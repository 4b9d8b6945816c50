----------------------------- MODULE JsonSchema ------------------------------
(***************************************************************************)
(* internal/jsonschema: the validation of a tool call's arguments, and the *)
(* schemas of two tools, browse_url and search_web (webutils/server.go).   *)
(*                                                                         *)
(* A JSON value is a record: [bool], [null], [text, length], [num] in      *)
(* halves, so that 3 is one and a half, [items] and [fields].  A schema is *)
(* a record of those keywords it has.  What an error says is left out.     *)
(***************************************************************************)
EXTENDS Integers, Sequences

CONSTANTS
    MaxURL, MaxText, MaxSelector, MaxValue, MaxActions, MaxQuery, MaxResults

Has(record, key) == key \in DOMAIN record
Whole(n) == n % 2 = 0

-----------------------------------------------------------------------------
(* validate *)

InRange(schema, n) ==
    /\ Has(schema, "minimum") => n >= 2 * schema.minimum
    /\ Has(schema, "maximum") => n <= 2 * schema.maximum

Listed(enum, value) == Has(value, "text") /\ value.text \in enum

\* The first branch whose enumeration of "type" has the object's type.
Selected(branches, value) ==
    {i \in DOMAIN branches :
        /\ Has(value, "fields") /\ Has(value.fields, "type")
        /\ Has(branches[i], "properties") /\ Has(branches[i].properties, "type")
        /\ Has(branches[i].properties["type"], "enum")
        /\ Listed(branches[i].properties["type"].enum, value.fields["type"])}

RECURSIVE Validate(_, _)

\* Objects whose unknown properties are let through.
ValidObjectOpen(schema, fields) ==
    /\ schema.required \subseteq DOMAIN fields
    /\ \A key \in DOMAIN fields \cap DOMAIN schema.properties :
          Validate(schema.properties[key], fields[key])

ValidObject(schema, fields) ==
    /\ schema.required \subseteq DOMAIN fields
    /\ DOMAIN fields \subseteq DOMAIN schema.properties
    /\ \A key \in DOMAIN fields : Validate(schema.properties[key], fields[key])

ValidArray(schema, items) ==
    /\ Has(schema, "maxItems") => Len(items) <= schema.maxItems
    /\ Has(schema, "minItems") => Len(items) >= schema.minItems
    /\ Has(schema, "items") => \A i \in DOMAIN items : Validate(schema.items, items[i])

ValidString(schema, length) ==
    /\ Has(schema, "maxLength") => length <= schema.maxLength
    /\ Has(schema, "minLength") => length >= schema.minLength

\* A branch the type selects decides alone; otherwise any branch will do.
ValidAnyOf(branches, value) ==
    LET chosen == Selected(branches, value) IN
    IF chosen # {} THEN Validate(branches[CHOOSE i \in chosen : \A j \in chosen : i <= j], value)
    ELSE \E i \in DOMAIN branches : Validate(branches[i], value)

Validate(schema, value) ==
    /\ Has(schema, "enum") => Listed(schema.enum, value)
    /\ Has(schema, "anyOf") => ValidAnyOf(schema.anyOf, value)
    /\ CASE schema.type = "object"  -> Has(value, "fields") /\ ValidObject(schema, value.fields)
         [] schema.type = "array"   -> Has(value, "items") /\ ValidArray(schema, value.items)
         [] schema.type = "string"  -> Has(value, "text") /\ ValidString(schema, value.length)
         [] schema.type = "integer" -> Has(value, "num") /\ Whole(value.num) /\ InRange(schema, value.num)
         [] schema.type = "number"  -> Has(value, "num") /\ InRange(schema, value.num)
         [] schema.type = "boolean" -> Has(value, "bool")
         [] schema.type = ""        -> TRUE

\* The arguments as they stand in the message; absent ones and null are {}.
Absent == [absent |-> TRUE]
Arguments(raw) ==
    IF Has(raw, "fields") THEN raw ELSE [fields |-> [key \in {} |-> Absent]]
ValidateRaw(schema, raw) ==
    (Has(raw, "fields") \/ Has(raw, "null") \/ Has(raw, "absent")) /\ Validate(schema, Arguments(raw))

-----------------------------------------------------------------------------
(* The schemas. *)

Text(max)       == [type |-> "string", maxLength |-> max]
OneOf(names)    == [type |-> "string", enum |-> names]
Integer(lo, hi) == [type |-> "integer", minimum |-> lo, maximum |-> hi]
Object(properties, required) ==
    [type |-> "object", properties |-> properties, required |-> required]

Modes     == {"viewport", "full_page"}
Engines   == {"duckduckgo"}
Pointing  == {"wait_visible", "hover", "click"}
Typing    == {"set_value", "type", "press"}

ActionSchema ==
    Object([type |-> OneOf(Pointing \cup Typing), selector |-> Text(MaxSelector),
            value |-> Text(MaxValue)], {"type", "selector"})

InputSchema ==
    Object([url |-> Text(MaxURL), max_text_chars |-> Integer(1, MaxText),
            capture_screenshot |-> [type |-> "boolean"], screenshot_mode |-> OneOf(Modes),
            wait_text |-> Text(MaxText),
            actions |-> [type |-> "array", maxItems |-> MaxActions, items |-> ActionSchema]],
           {"url"})

InputSchemaSearch ==
    Object([query |-> [type |-> "string", minLength |-> 1, maxLength |-> MaxQuery],
            max_results |-> Integer(1, MaxResults), engine |-> OneOf(Engines)], {"query"})

-----------------------------------------------------------------------------
(* What the handlers make of the arguments. *)

OptionalInt(fields, key) ==
    IF Has(fields, key) /\ Has(fields[key], "num") /\ Whole(fields[key].num)
    THEN fields[key].num \div 2 ELSE 0

OptionalActions(fields) ==
    IF Has(fields, "actions") /\ Has(fields["actions"], "items") THEN fields["actions"].items ELSE <<>>

\* A request for more than the maximum, or for none, is brought into range.
MaxTextChars(fields, default) ==
    LET asked == OptionalInt(fields, "max_text_chars") IN
    IF asked <= 0 THEN default ELSE IF asked > MaxText THEN MaxText ELSE asked

\* validateBrowserActions: a value exactly for those actions that type.
ValidAction(action) ==
    LET blank(key) == ~Has(action.fields, key) \/ action.fields[key].length = 0 IN
    /\ ~blank("selector") /\ action.fields["selector"].length <= MaxSelector
    /\ action.fields["type"].text \in Pointing => blank("value")
    /\ action.fields["type"].text \in Typing =>
          ~blank("value") /\ action.fields["value"].length <= MaxValue
    /\ action.fields["type"].text \in Pointing \cup Typing

ValidActions(actions) == Len(actions) <= MaxActions /\ \A i \in DOMAIN actions : ValidAction(actions[i])
=============================================================================
