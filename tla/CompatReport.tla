---------------------------- MODULE CompatReport ----------------------------
(***************************************************************************)
(* AssessCompatibility (internal/dynamic/compat.go): may a static tool be   *)
(* replaced by the dynamic one of its name?  Input schemas are compared     *)
(* keyword by keyword; what they accept is the reference here.              *)
(*                                                                         *)
(* Schemas are those the compiler and the static tools make: an object of   *)
(* scalars, required names among the properties.  Of the keywords, "type",  *)
(* "enum" and "maximum" stand for those that constrain, "description" for   *)
(* those that do not.  A schema that is no JSON object is left out.          *)
(***************************************************************************)
EXTENDS FiniteSets, Naturals

CONSTANTS
    Names,       \* names of inputs
    Operations,  \* operationIds
    Fields,      \* top-level fields of results
    Properties,  \* schemas of an input: [type, enum, maximum, description], absent ones None
    Values,      \* values of an input: [type, n]
    None

Schemas ==
    UNION {[props : [names -> Properties], required : SUBSET names, extra : BOOLEAN] : names \in SUBSET Names}

(* What is declared of a static tool: the operations it calls, and whether it hides, *)
(* judges or removes something.  None when nothing is declared.                       *)
Profiles == {None} \cup [operations : SUBSET Operations \ {{}}, output : BOOLEAN, semantic : BOOLEAN, security : BOOLEAN]

VARIABLES
    static,  \* [input, output, profile]
    dynamic, \* [input, output, operation, blocked], None until chosen
    classes  \* the report's

vars == <<static, dynamic, classes>>

Init ==
    /\ static \in [input : Schemas, output : SUBSET Fields, profile : Profiles]
    /\ dynamic = None /\ classes = {}

-----------------------------------------------------------------------------
(* Mutated form: bounds are not compared. *)
KeywordsWithoutBounds == {"type", "enum"}
Keywords == {"type", "enum", "maximum"}

CompareInputSchemas(a, b) ==
    {<<"name", n>> : n \in (DOMAIN a.props \ DOMAIN b.props) \cup (DOMAIN b.props \ DOMAIN a.props)}
    \cup (UNION {{<<k, n>> : k \in {k \in Keywords : a.props[n][k] # b.props[n][k]}}
                \cup (IF (n \in a.required) # (n \in b.required) THEN {<<"required", n>>} ELSE {})
                : n \in DOMAIN a.props \cap DOMAIN b.props})
    \cup (IF a.extra # b.extra THEN {<<"extra", None>>} ELSE {})

compareTopLevel(a, b) == (a \ b) \cup (b \ a)

Class(name, differs) == IF differs THEN {name} ELSE {}

AssessCompatibility(s, d) ==
    LET p == s.profile
        found == Class("INPUT_MISMATCH", CompareInputSchemas(s.input, d.input) # {})
                 \cup Class("OUTPUT_MISMATCH", compareTopLevel(s.output, d.output) # {} \/ (p # None /\ p.output))
                 \cup Class("SEMANTIC_MISMATCH",
                            IF p = None THEN TRUE ELSE p.semantic \/ p.operations # {d.operation})
                 \cup Class("SECURITY_MISMATCH", d.blocked \/ (p # None /\ p.security)) IN
    IF found = {} THEN {"COMPATIBLE"} ELSE found

Assess ==
    /\ dynamic = None
    /\ dynamic' \in [input : {s \in Schemas : ~s.extra}, output : SUBSET Fields, operation : Operations, blocked : BOOLEAN]
    /\ classes' = AssessCompatibility(static, dynamic')
    /\ UNCHANGED static

Next == Assess
Spec == Init /\ [][Next]_vars

-----------------------------------------------------------------------------
(* Properties. *)

Accepts(schema, value) ==
    /\ value.type = schema.type
    /\ schema.enum # None => value.n \in schema.enum
    /\ schema.maximum # None /\ value.type = "integer" => value.n <= schema.maximum

Inputs == UNION {[names -> Values] : names \in SUBSET (Names \cup {"unlisted"})}

Valid(schema, input) ==
    /\ schema.required \subseteq DOMAIN input
    /\ \A n \in DOMAIN input :
         IF n \in DOMAIN schema.props THEN Accepts(schema.props[n], input[n]) ELSE schema.extra

(* What the report calls compatible can be swapped: both tools accept the same inputs    *)
(* (docs/dynamic-mcp.md: what is not compared does not change what is accepted), their    *)
(* results have the same fields, the static tool is declared, with nothing it hides or    *)
(* judges, to call that one operation, and the gate has not blocked it.                   *)
CompatibleIsInterchangeable ==
    classes = {"COMPATIBLE"} =>
        /\ \A input \in Inputs : Valid(static.input, input) <=> Valid(dynamic.input, input)
        /\ static.output = dynamic.output /\ ~dynamic.blocked
        /\ static.profile = [operations |-> {dynamic.operation}, output |-> FALSE, semantic |-> FALSE, security |-> FALSE]
=============================================================================
