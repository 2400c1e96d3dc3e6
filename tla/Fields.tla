-------------------------------- MODULE Fields --------------------------------
(* The fields of a publication and the templates that print them.            *)
(*                                                                           *)
(* Fields come from the defaults of the profile, from the files of the       *)
(* publication, from the publication, from the files of the command and from *)
(* assignments of the command (fields.go).  A template is evaluated when a   *)
(* command checks the publication and again when the publication is made,    *)
(* with computed values that are known only then (template.go, computed.go). *)
(*                                                                           *)
(* A value is a tuple: its type and what it holds.  Formats of dates and     *)
(* numbers, and the text that a map or list is printed as, are left out.     *)
EXTENDS Integers, Sequences, SequencesExt, FiniteSetsExt

Null == <<"null">>
Text(s) == <<"text", s>>
Number(n) == <<"number", n>>
Truthful(b) == <<"bool", b>>
MapOf(f) == <<"map", f>>
ListOf(s) == <<"list", s>>
Refused == <<"refused">>

OfType(v, type) == v[1] = type

-----------------------------------------------------------------------------
(* Layers and assignments *)

RECURSIVE MergeFields(_, _)

\* Mutation of MergeFields: a map of a later layer replaces the earlier one.
MergeFields_Shallow(target, source) == source @@ target

\* Two maps are merged; anything else is replaced.
MergeFields(target, source) ==
    [k \in DOMAIN target \cup DOMAIN source |->
        IF k \notin DOMAIN source THEN target[k]
        ELSE IF k \in DOMAIN target /\ OfType(target[k], "map") /\ OfType(source[k], "map")
           THEN MapOf(MergeFields(target[k][2], source[k][2]))
        ELSE source[k]]

RECURSIVE Assign(_, _, _)

\* The pointer leads through maps, which are made where there is none, and
\* through the elements that a list has.
Assign(node, pointer, value) ==
    IF pointer = <<>> THEN value
    ELSE LET segment == Head(pointer)
             Put(child) == Assign(child, Tail(pointer), value)
         IN CASE OfType(node, "map") ->
                   LET new == Put(IF segment \in DOMAIN node[2] THEN node[2][segment]
                                  ELSE MapOf(<<>>))
                   IN IF new = Refused THEN Refused ELSE MapOf((segment :> new) @@ node[2])
              [] OfType(node, "list") /\ \E i \in DOMAIN node[2] : ToString(i - 1) = segment ->
                   LET i == CHOOSE j \in DOMAIN node[2] : ToString(j - 1) = segment
                       new == Put(node[2][i])
                   IN IF new = Refused THEN Refused ELSE ListOf([node[2] EXCEPT ![i] = new])
              [] OTHER -> Refused

ReservedRoots == {"mdoc", "page"}

\* rejectReservedRoots, for a layer that has to be a map.
LayerAccepted(value) ==
    OfType(value, "map") /\ DOMAIN value[2] \cap ReservedRoots = {}

\* loadFile: it is in an approved root and holds one map.
FileAccepted(file) == file.place = "approved" /\ LayerAccepted(file.content)

\* Of a malformed assignment the pointer is empty.
AssignmentAccepted(a) == a.pointer # <<>> /\ a.pointer[1] \notin ReservedRoots

Contents(files) == [i \in DOMAIN files |-> files[i].content]

ResolveFields(options) ==
    LET files == options.configured \o options.command
        layers == <<options.defaults>> \o Contents(options.configured)
                  \o <<options.fields>> \o Contents(options.command)
        merged == FoldLeft(LAMBDA t, s : MergeFields(t, s[2]), <<>>, layers)
        values == FoldLeft(LAMBDA v, a : IF v = Refused THEN v ELSE Assign(v, a.pointer, a.value),
                           MapOf(merged), options.assignments)
    IN  IF /\ \A i \in DOMAIN layers : LayerAccepted(layers[i])
           /\ \A i \in DOMAIN files : FileAccepted(files[i])
           /\ \A i \in DOMAIN options.assignments : AssignmentAccepted(options.assignments[i])
        THEN values ELSE Refused

-----------------------------------------------------------------------------
(* Computed values *)

\* What is known of a publication when it is planned.
PlanComputedValues(kind) ==
    [project |-> MapOf([id |-> Text("project")]), profile |-> Text("profile"),
     publication |-> MapOf([id |-> Text("id"), kind |-> Text(kind), title |-> Text("title")])]
    @@ IF kind = "bundle" THEN [bundle |-> MapOf([id |-> Text("id"), title |-> Text("title")])]
       ELSE <<>>

\* And what an operation adds to it.
FreezeComputed(plan, frozen) ==
    plan @@ [operation_id |-> Text(frozen.operation), review_set_id |-> Text(frozen.operation),
             generation |-> Number(frozen.generation), published_at |-> Text(frozen.at)]

\* Mutation of ValidationComputed: the check knows what the plan knows.
ValidationComputed_Plan(kind) == PlanComputedValues(kind)

\* The check makes up an operation.
ValidationComputed(kind) ==
    FreezeComputed(PlanComputedValues(kind), [operation |-> "validation", generation |-> 1, at |-> "1970"])

-----------------------------------------------------------------------------
(* Templates.  A context holds fields, computed values and whether page      *)
(* fields are allowed; variables are kept beside it.                         *)

Scalars == {"null", "text", "bool", "number"}

Truth(v) ==
    CASE OfType(v, "null") -> FALSE
      [] OfType(v, "bool") -> v[2]
      [] OfType(v, "number") -> v[2] # 0
      [] OfType(v, "text") -> v[2] # ""
      [] OfType(v, "list") -> v[2] # <<>>
      [] OfType(v, "map") -> DOMAIN v[2] # {}
      [] OTHER -> TRUE

RECURSIVE Lookup(_, _)
Lookup(value, path) ==
    IF path = <<>> THEN value
    ELSE IF OfType(value, "map") /\ Head(path) \in DOMAIN value[2]
       THEN Lookup(value[2][Head(path)], Tail(path))
    ELSE Refused

\* A required value is there and not null.
Required(value) == IF value = Null THEN Refused ELSE value

\* The functions of a template; those of a path take nothing but the path.
PathFunctions == {"field", "optional", "mdoc", "page"}

Call(name, path, arguments, context) ==
    IF name \in PathFunctions /\ arguments # <<>> THEN Refused
    ELSE IF name = "field" THEN Required(Lookup(MapOf(context.fields), path))
    ELSE IF name = "optional"
       THEN IF Lookup(MapOf(context.fields), path) = Refused THEN Null
            ELSE Lookup(MapOf(context.fields), path)
    ELSE IF name = "mdoc" THEN Required(Lookup(MapOf(context.computed), path))
    ELSE IF name = "page" THEN IF context.pages /\ path \in {<<"number">>, <<"count">>}
                          THEN <<"page", path[1]>> ELSE Refused
    ELSE IF \E i \in DOMAIN arguments : arguments[i] = Refused THEN Refused
    ELSE IF name = "upper" THEN IF arguments[1][1] \in Scalars THEN arguments[1] ELSE Refused
    ELSE IF name = "eq" THEN Truthful(arguments[1] = arguments[2])
    ELSE IF name = "not" THEN Truthful(~Truth(arguments[1]))
    ELSE IF name = "and" THEN Truthful(\A i \in DOMAIN arguments : Truth(arguments[i]))
    ELSE IF name = "or" THEN Truthful(\E i \in DOMAIN arguments : Truth(arguments[i]))
    ELSE IF name # "len" THEN Refused
    ELSE    CASE arguments[1] = Null -> Number(0)
              [] arguments[1][1] \in {"text", "page"} -> Number(Len(arguments[1][2]))
              [] OfType(arguments[1], "list") -> Number(Len(arguments[1][2]))
              [] OfType(arguments[1], "map") -> Number(Cardinality(DOMAIN arguments[1][2]))
              [] OTHER -> Refused

RECURSIVE Pipeline(_, _, _, _)
RECURSIVE Argument(_, _, _, _)

\* A constant, the dot or a variable with fields below it, or a pipeline in
\* parentheses.
Argument(term, context, variables, dot) ==
    CASE term.term = "constant" -> term.value
      [] term.term = "dot" -> Lookup(dot, term.path)
      [] term.term = "variable" ->
            IF term.name \in DOMAIN variables THEN Lookup(variables[term.name], term.path)
            ELSE Refused
      [] term.term = "pipe" -> Pipeline(term.commands, context, variables, dot)

\* The commands from left to right.  What one answers is the last argument of
\* the next, unless it is a page field.
Pipeline(commands, context, variables, dot) ==
    LET command == Last(commands)
        before == Front(commands)
        piped == IF before = <<>> THEN Null ELSE Pipeline(before, context, variables, dot)
        given == [i \in DOMAIN command.arguments |->
                     Argument(command.arguments[i], context, variables, dot)]
    IN  IF piped = Refused \/ OfType(piped, "page") THEN Refused
        ELSE IF command.call = "" THEN IF before = <<>> THEN given[1] ELSE Refused
        ELSE Call(command.call, command.path,
                           IF before = <<>> THEN given ELSE Append(given, piped), context)

Printed(value) ==
    CASE value = Null -> <<>>
      [] OfType(value, "page") -> <<value>>
      [] OTHER -> <<Text(value)>>

Failure == [ok |-> FALSE, segments |-> <<>>, variables |-> <<>>]

RECURSIVE Nodes(_, _, _, _)

\* One node: what it prints and the variables after it.  A branch shares the
\* variables of the template, each round of a range has a copy.  The keys of a
\* map are taken in the order of their names, which is left open here.
Node(node, context, variables, dot) ==
    LET value == IF node.node = "text" THEN Null
                 ELSE Pipeline(node.pipe, context, variables, dot)
        items == IF OfType(value, "list") THEN value[2]
                 ELSE SetToSortSeq({value[2][k] : k \in DOMAIN value[2]}, LAMBDA a, b : TRUE)
        rounds == [i \in DOMAIN items |->
                      Nodes(node.list, context, (node.variable :> items[i]) @@ variables, items[i])]
    IN  IF value = Refused THEN Failure
        ELSE IF node.node = "text"
           THEN [ok |-> TRUE, segments |-> <<Text(Text(node.text))>>, variables |-> variables]
        ELSE IF node.node = "action"
           THEN [ok |-> TRUE, segments |-> Printed(value), variables |-> variables]
        ELSE IF node.node = "declare"
           THEN [ok |-> TRUE, segments |-> <<>>, variables |-> (node.variable :> value) @@ variables]
        ELSE IF OfType(value, "page") THEN Failure
        ELSE IF node.node = "if"
           THEN Nodes(IF Truth(value) THEN node.list ELSE node.other, context, variables, dot)
        ELSE IF node.node = "with"
           THEN IF Truth(value) THEN Nodes(node.list, context, variables, value)
                ELSE Nodes(node.other, context, variables, dot)
        ELSE IF value[1] \notin {"list", "map"} THEN Failure
        ELSE IF ~Truth(value) THEN Nodes(node.other, context, variables, dot)
        ELSE IF \E i \in DOMAIN rounds : ~rounds[i].ok THEN Failure
        ELSE [ok |-> TRUE, variables |-> variables,
                       segments |-> FlattenSeq([i \in DOMAIN rounds |-> rounds[i].segments])]

Nodes(list, context, variables, dot) ==
    FoldLeft(LAMBDA r, node :
                 IF ~r.ok THEN r
                 ELSE LET next == Node(node, context, r.variables, dot)
                      IN IF next.ok THEN [next EXCEPT !.segments = r.segments \o @] ELSE Failure,
             [ok |-> TRUE, segments |-> <<>>, variables |-> variables], list)

EvaluateTemplate(list, context) ==
    LET root == MapOf([fields |-> MapOf(context.fields), mdoc |-> MapOf(context.computed)])
    IN Nodes(list, context, ("$" :> root), root)

\* Where a template stands: "header" is that of a header or footer and
\* "default" that of its default variant, which replaces it; both have page
\* fields, as a first page has.
PagePlaces == {"header", "first_page", "default"}
TemplateContext(place, fields, computed) ==
    [fields |-> fields, computed |-> computed, pages |-> place \in PagePlaces]

\* The places whose templates are checked.
CheckedPlaces == {"title", "cover", "header", "first_page", "appendix"}

ValidateTemplate(place, list, fields, kind) ==
    IF place \in CheckedPlaces
    THEN EvaluateTemplate(list, TemplateContext(place, fields, ValidationComputed(kind)))
    ELSE [ok |-> TRUE, segments |-> <<>>, variables |-> <<>>]
===============================================================================
