------------------------------- MODULE MCBooks --------------------------------
(* Fields, templates and bundles over bounded inputs: a state is an input,   *)
(* and a step evaluates it.                                                  *)
EXTENDS Books, Answers

-------------------------------------------------------------------------------
(* Fields: four layers of different shapes, the values of each its own, and  *)
(* up to two assignments; files that are in the wrong place or no maps.      *)

Shape(n, v) ==
    CASE n = 1 -> MapOf(<<>>)
      [] n = 2 -> MapOf([a |-> Text(v)])
      [] n = 3 -> MapOf([a |-> MapOf([b |-> Text(v)])])
      [] n = 4 -> MapOf([a |-> MapOf([b |-> MapOf(<<>>), c |-> Text(v)]), d |-> Null])
      [] n = 5 -> MapOf([a |-> ListOf(<<Text(v), MapOf([b |-> Text(v)])>>)])
      [] n = 6 -> MapOf([a |-> MapOf([b |-> MapOf([b |-> Text(v)]), c |-> Text(v)])])
      [] n = 7 -> MapOf([mdoc |-> Text(v)])
      [] n = 8 -> Null

FileOf(place, content) == [place |-> place, content |-> content]
Assignments ==
    {<<>>} \cup
    {<<[pointer |-> p, value |-> v]>> :
        p \in {<<>>, <<"a">>, <<"a", "b">>, <<"a", "b", "b">>, <<"a", "0">>, <<"a", "1", "b">>,
               <<"d">>, <<"page">>},
        v \in {Text("s"), MapOf([c |-> Text("s")])}} \cup
    {<<[pointer |-> <<"a">>, value |-> v], [pointer |-> <<"a", "b">>, value |-> Text("t")]>> :
        v \in {Text("s"), MapOf([c |-> Text("s")]), ListOf(<<Text("s")>>)}}

FieldInputs ==
    {[of |-> "fields",
      options |-> [defaults |-> Shape(w, "w"), configured |-> <<FileOf("approved", Shape(x, "x"))>>,
                   fields |-> Shape(y, "y"), command |-> <<FileOf("approved", Shape(z, "z"))>>,
                   assignments |-> s]] :
        w \in 1..6, x \in 1..6, y \in 1..7, z \in 1..6, s \in Assignments}
    \cup
    {[of |-> "fields",
      options |-> [defaults |-> Shape(2, "w"), configured |-> <<FileOf(p, Shape(x, "x"))>>,
                   fields |-> Shape(3, "y"), command |-> <<FileOf(q, Shape(z, "z"))>>,
                   assignments |-> <<>>]] :
        p \in {"approved", "outside", "missing", "directory"}, x \in {2, 7, 8},
        q \in {"approved", "outside"}, z \in {5, 7, 8}}

AnswerFields ==
    /\ input.of = "fields"
    /\ answer' = [of |-> "fields", values |-> ResolveFields(input.options)]

-------------------------------------------------------------------------------
(* Templates: one node, or a variable and a node that may ask for it.        *)

Constant(v) == [term |-> "constant", value |-> v]
Dot(path) == [term |-> "dot", path |-> path]
Variable(name) == [term |-> "variable", name |-> name, path |-> <<>>]
Value(term) == [call |-> "", path |-> <<>>, arguments |-> <<term>>]
Ask(name, path) == [call |-> name, path |-> path, arguments |-> <<>>]
Apply(name, arguments) == [call |-> name, path |-> <<>>, arguments |-> arguments]
Nested(command) == [term |-> "pipe", commands |-> <<command>>]

TestFields ==
    [a |-> Text("x"), e |-> Text(""), n |-> Null, z |-> Number(0), m |-> MapOf([k |-> Text("y")]),
     l |-> ListOf(<<Text("x"), Null>>), v |-> ListOf(<<>>)]

Commands ==
    {Ask("field", <<k>>) : k \in {"a", "e", "n", "z", "l", "v", "q"}}
    \cup {Ask("field", <<"m", "k">>), Ask("optional", <<"n">>), Ask("optional", <<"a">>),
          Ask("mdoc", <<"generation">>), Ask("mdoc", <<"operation_id">>), Ask("mdoc", <<"bundle", "id">>),
          Ask("page", <<"number">>), Ask("page", <<"total">>),
          Value(Dot(<<>>)), Value(Dot(<<"fields", "a">>)), Value(Variable("$"))}

PipelinesOf(commands) ==
    {<<c>> : c \in commands}
    \cup {<<c, Apply(f, <<>>)>> : c \in commands, f \in {"upper", "not", "len"}}
    \cup {<<Apply(f, <<Nested(c)>>)>> : c \in commands, f \in {"upper", "not", "len"}}
    \cup {<<Apply(f, <<Nested(c), Constant(d)>>)>> : c \in commands, f \in {"eq", "and", "or"},
                                                   d \in {Text("x"), Number(1)}}

NodeOf(kind, pipe, list, other) ==
    [node |-> kind, pipe |-> pipe, list |-> list, other |-> other, text |-> "", variable |-> "$i"]
Action(command) == NodeOf("action", <<command>>, <<>>, <<>>)
Declare(pipe) == [NodeOf("declare", pipe, <<>>, <<>>) EXCEPT !.variable = "$v"]

\* The parser refuses a variable outside the node that declares it: "$i" is
\* that of a range, "$v" that of a declaration before it.
ControlNodes(pipes, lists) ==
    {NodeOf(kind, p, list, other) :
        kind \in {"if", "with", "range"}, p \in pipes, list \in lists,
        other \in {<<>>, <<Action(Ask("field", <<"q">>))>>}}
    \cup {NodeOf("range", p, <<Action(Value(Variable("$i")))>>, <<>>) : p \in pipes}

Templates ==
    {<<NodeOf("action", p, <<>>, <<>>)>> : p \in PipelinesOf(Commands)}
    \cup {<<n>> : n \in ControlNodes(PipelinesOf(Commands), {<<Action(Value(Dot(<<>>)))>>})}
    \cup {<<Declare(<<c>>), n, Action(Value(Variable("$v")))>> :
            c \in {Ask("field", <<"l">>), Ask("page", <<"number">>), Ask("optional", <<"n">>),
                   Ask("mdoc", <<"operation_id">>)},
            n \in ControlNodes(PipelinesOf({Value(Variable("$v"))}),
                    {<<Action(Value(Dot(<<>>)))>>, <<Declare(<<Ask("field", <<"a">>)>>)>>})}

TemplateInputs ==
    {[of |-> "template", template |-> t, place |-> p, kind |-> k] :
        t \in Templates, p \in {"header", "cover"}, k \in {"source", "bundle"}}
    \cup
    {[of |-> "template", template |-> <<NodeOf("action", c, <<>>, <<>>)>>, place |-> p, kind |-> k] :
        c \in PipelinesOf(Commands), p \in {"default", "first_page", "title", "appendix"},
        k \in {"source", "bundle"}}

AnswerTemplate ==
    /\ input.of = "template"
    /\ LET made == FreezeComputed(PlanComputedValues(input.kind),
                       [operation |-> "operation", generation |-> 2, at |-> "today"])
       IN answer' = [of |-> "template",
                     checked |-> ValidateTemplate(input.place, input.template, TestFields, input.kind),
                     made |-> EvaluateTemplate(input.template,
                                TemplateContext(input.place, TestFields, made))]

-------------------------------------------------------------------------------
(* Bundles: two members with links to each other and to themselves, equal    *)
(* IDs and texts, a title inside another block, and headings that define the *)
(* words "K1" and "K2".                                                      *)

LinkWord(w, link) == [word |-> w, link |-> link]
LocalLink(w, file, fragment) == LinkWord(w, <<"local", file, fragment>>)

FirstMembers ==
    {<<Heading(1, "top", Words(<<"A">>)),
       Paragraph(<<LocalLink("l1", "fb", "sec"), Word("K1"), LocalLink("l2", "", "sub"), Word("K2")>>),
       Heading(2, "sub", Words(<<"S">>))>>,
     <<Heading(1, "top", Words(<<"A">>)), Heading(1, "top", Words(<<"B">>)),
       Paragraph(<<LocalLink("l1", "", "top"), Word("K1")>>)>>,
     <<Heading(2, "sub", Words(<<"S", "K1">>)), Heading(1, "", Words(<<"A">>)), Heading(2, "", Words(<<"A">>)),
       Paragraph(<<LocalLink("l1", "fb", ""), LocalLink("l2", "fa", "sub")>>)>>,
     <<Paragraph(<<LinkWord("l1", <<"image", "img">>), LinkWord("K1", <<"code">>), LinkWord("l2", <<"web", "w">>),
                   LocalLink("l3", "fc", "sec")>>),
       [Heading(1, "top", Words(<<"A">>)) EXCEPT !.nested = TRUE], Heading(3, "sub", Words(<<"S">>))>>}

SecondMembers ==
    {<<Heading(1, "sec", Words(<<"K1", "def">>)), Paragraph(<<LocalLink("m1", "fa", "top"), Word("K1")>>)>>,
     <<Heading(1, "b", Words(<<"T">>)), Heading(2, "sec", Words(<<"K1", "K1">>)),
       Heading(2, "mdoc-appendix", Words(<<"K2">>)), Paragraph(<<Word("K1"), LocalLink("m1", "", "mdoc-appendix")>>)>>,
     <<Heading(1, "b", Words(<<"T">>)), Heading(2, "sec", Words(<<"K1">>)), Heading(2, "", Words(<<"K1">>))>>,
     <<Heading(1, "b", Words(<<"T">>)), Heading(2, "sec", <<LinkWord("K1", <<"code">>), Word("K1")>>),
       Heading(2, "sec:2", Words(<<"K2">>)), Heading(2, "sec", Words(<<"U">>))>>}

MemberOf(key, file, blocks, title, appendix) ==
    [key |-> key, file |-> file, blocks |-> blocks,
     config |-> [title |-> title, adjustment |-> 0, appendix |-> appendix, appendixTitle |-> <<>>]]
AppendixOf(key, file, blocks, template) ==
    [MemberOf(key, file, blocks, "document_title", TRUE) EXCEPT !.config.appendixTitle = template]

ContentsOf(depth, members) == [enabled |-> depth > 0, depth |-> depth, members |-> members]
Selector(include, exclude) == [enabled |-> TRUE, depth |-> 0, include |-> include, exclude |-> exclude]
RuleOf(unresolved) == [words |-> {"K1", "K2"}, source |-> "b.md", unresolved |-> unresolved]

Covers ==
    {[enabled |-> FALSE, fields |-> {}]} \cup
    {[enabled |-> TRUE, fields |-> {[path |-> <<k>>, optional |-> b, visible |-> v]}] :
        k \in {"a", "e", "n"}, b \in BOOLEAN, v \in BOOLEAN}

BundleOptions(hash) ==
    [hash |-> hash, files |-> {"fa", "fb", "fc", "img"}, approved |-> {"fa", "fb", "fc", "img"},
     keys |-> [fc |-> "c.md"], urls |-> ("c.md" :> "doc"),
     context |-> TemplateContext("cover", TestFields, ValidationComputed("bundle"))]

BundleInputs ==
    {[of |-> "bundle",
      book |-> [members |-> <<MemberOf("a.md", "fa", x, t, a), MemberOf("b.md", "fb", y, u, a)>>,
                titleLevel |-> l, hierarchy |-> IF f = "error" THEN "error" ELSE "warning", fragments |-> f,
                toc |-> c, rules |-> r, cover |-> [enabled |-> FALSE, fields |-> {}], title |-> <<>>],
      hash |-> [shared |-> h, twins |-> {Start("a.md"), Start("b.md")}]] :
        x \in FirstMembers, y \in SecondMembers, t \in {"", "document_title", "remove", "heading_2"},
        u \in {"", "document_title"}, a \in BOOLEAN, l \in 0..1, f \in {"error", "warning_root", "preserve"},
        c \in {ContentsOf(0, <<>>), ContentsOf(1, <<>>), ContentsOf(2, <<>>),
               ContentsOf(2, "a.md" :> Selector({}, {"sub"})), ContentsOf(2, "b.md" :> Selector({"sec"}, {}))},
        r \in {<<>>, <<RuleOf("error")>>, <<RuleOf("warning")>>}, h \in {3}}
    \cup
    {[of |-> "bundle",
      book |-> [members |-> <<MemberOf("a.md", "fa", x, "", FALSE)>>, titleLevel |-> 0, hierarchy |-> "allow",
                fragments |-> "preserve", toc |-> ContentsOf(1, <<>>), rules |-> <<>>, cover |-> c, title |-> <<>>],
      hash |-> [shared |-> h, twins |-> {<<"a.md", "heading", "text:A:1">>,
                                                          <<"a.md", "heading", "text:A:2">>}]] :
        x \in FirstMembers, c \in Covers, h \in {0, 1, 13, 14}}
    \cup
    {[of |-> "bundle",
      book |-> [members |-> <<AppendixOf("a.md", "fa", x, t), AppendixOf("b.md", "fb", y, u)>>,
                titleLevel |-> l, hierarchy |-> "warning", fragments |-> "warning_root",
                toc |-> ContentsOf(2, <<>>), rules |-> <<RuleOf("warning")>>,
                cover |-> [enabled |-> FALSE, fields |-> {}], title |-> <<>>],
      hash |-> [shared |-> 3, twins |-> {Start("a.md"), Start("b.md")}]] :
        x \in FirstMembers, y \in SecondMembers, l \in 0..1,
        t \in {<<>>, <<Action(Ask("field", <<"a">>))>>},
        u \in {<<Action(Ask("field", <<k>>))>> : k \in {"a", "q"}}}

AnswerBundle ==
    /\ input.of = "bundle"
    /\ \E options \in {BundleOptions(input.hash)} :
       \E made \in {Assemble(input.book, options)} :
          answer' = [of |-> "bundle", made |-> made,
                     final |-> IF made.ok THEN Finalize(made, made.parts) ELSE made]

-------------------------------------------------------------------------------
BooksInit ==
    /\ answer = Unanswered
    /\ input \in FieldInputs \cup TemplateInputs \cup BundleInputs

BooksNext ==
    /\ answer = Unanswered
    /\ AnswerFields \/ AnswerTemplate \/ AnswerBundle
    /\ UNCHANGED input

BooksSpec == BooksInit /\ [][BooksNext]_answerVars

-------------------------------------------------------------------------------
(* Properties *)

RECURSIVE Leaves(_)
\* The paths of what is no map in a value.
Leaves(v) ==
    IF ~OfType(v, "map") THEN {<<<<>>, v>>}
    ELSE UNION {{<<<<k>> \o l[1], l[2]>> : l \in Leaves(v[2][k])} : k \in DOMAIN v[2]}

RECURSIVE MapPaths(_)
MapPaths(v) ==
    IF ~OfType(v, "map") THEN {}
    ELSE {<<>>} \cup UNION {{<<k>> \o p : p \in MapPaths(v[2][k])} : k \in DOMAIN v[2]}

\* What a later layer hides of an earlier one: what is at or below a value it
\* gives, and a value where it gives a map.
Hides(layer, path) ==
    \/ \E l \in Leaves(layer) : IsPrefix(l[1], path)
    \/ path \in MapPaths(layer)

\* The leaves of all layers that no layer of a higher priority hides.
MergedLeaves(o) ==
    LET layers == <<o.defaults, o.configured[1].content, o.fields, o.command[1].content>>
    IN UNION {{l \in Leaves(layers[i]) : \A j \in (i + 1)..Len(layers) : ~Hides(layers[j], l[1])} :
                 i \in DOMAIN layers}

Assigned(o) == answer.of = "fields" /\ answer.values # Refused /\ o.assignments # <<>>
InListAt(values, pointer) ==
    \E l \in Leaves(values) : OfType(l[2], "list") /\ IsPrefix(l[1], pointer)

\* The fields away from the pointers of assignments are those that no layer of
\* a higher priority hides; at the pointer of the last assignment is what it
\* gives, and nothing else when that is no map; and no field takes the name of
\* a computed or page value (fields.go: Resolve).  What else there is below a
\* map that an assignment gives is left open: by README.md:136 the map is
\* merged with the one at the pointer, and assign replaces that one.
FieldsByPriority ==
    answer.of = "fields" /\ answer.values # Refused =>
        LET o == input.options
            found == Leaves(answer.values)
            pointers == {o.assignments[i].pointer : i \in DOMAIN o.assignments}
            Away(leaves) == {l \in leaves : \A p \in pointers : ~IsPrefix(p, l[1]) /\ ~IsPrefix(l[1], p)}
        IN /\ Away(found) = Away(MergedLeaves(o))
           /\ \A l \in found : l[1][1] \notin ReservedRoots
           /\ Assigned(o) =>
                LET a == Last(o.assignments)
                    given == {<<a.pointer \o l[1], l[2]>> : l \in Leaves(a.value)}
                IN \/ InListAt(answer.values, a.pointer)
                   \/ /\ given \subseteq found
                      /\ OfType(a.value, "map") \/ {l \in found : IsPrefix(a.pointer, l[1])} = given

Conditions(template) ==
    {template[i].pipe : i \in {j \in DOMAIN template : template[j].node \in {"if", "with", "range"}}}
Compares(pipe) == \E i \in DOMAIN pipe : pipe[i].call = "eq"

\* Of a template that decides something by comparing a value that only the
\* operation knows, the check cannot know what will be made.
Foreseeable(template) == \A pipe \in Conditions(template) : ~Compares(pipe)

\* In the places that are checked, a template that passes the check can be
\* made, and one that can be made passes the check; page fields come out only
\* where they are allowed and only as such (field_resolution.go, template.go).
TemplatesValidated ==
    answer.of = "template" =>
        /\ input.place \in CheckedPlaces /\ Foreseeable(input.template) =>
              answer.checked.ok = answer.made.ok
        /\ \A i \in DOMAIN answer.made.segments :
              LET s == answer.made.segments[i]
              IN /\ OfType(s, "page") => input.place \in {"header", "first_page", "default"}
                 /\ OfType(s, "text") => ~OfType(s[2], "page") /\ s[2] # Null

\* Validation rejects a template that cannot be made, wherever it stands
\* (README.md:146 and application_test.go:443).  The code passes over the
\* templates of default variants (field_resolution.go: the list of
\* validatePublicationTemplates), which a publish evaluates (headers.go).
EveryTemplateValidated ==
    answer.of = "template" /\ Foreseeable(input.template) /\ answer.checked.ok => answer.made.ok

IdsOf(part) ==
    <<part.id>> \o SelectSeq([i \in DOMAIN part.blocks |->
                        IF IsHeading(part.blocks[i]) THEN part.blocks[i].anchor ELSE NoAnchor],
                    LAMBDA id : id # NoAnchor)

\* The member of a file or source key, as its author wrote it.
Written(attribute, value) == CHOOSE m \in Range(input.book.members) : m[attribute] = value
WrittenLink(member, word) ==
    CHOOSE l \in {w.link : w \in UNION {Range(b.words) : b \in Range(member.blocks)}} :
        \E b \in Range(member.blocks) : LinkWord(word, l) \in Range(b.words)

\* The heading "h" of a part is the one heading the author named so, or, for
\* want of one, the link leads to the start of the part.
LandsAt(link, part, target) ==
    LET texts(blocks) == {TextOf(b.words) : b \in {c \in Range(blocks) : IsHeading(c)}}
        named == {b \in Range(Written("key", part.key).blocks) : IsHeading(b) /\ b.id = link[3]}
    IN IF target = part.id THEN link[3] = "" \/ input.book.fragments = "warning_root"
       ELSE \E b \in Range(part.blocks) :
              /\ IsHeading(b) /\ b.anchor = target
              /\ \/ \E h \in named : TextOf(h.words) = TextOf(b.words)
                 \/ link[3] = "mdoc-appendix" /\ named = {}
              /\ Cardinality({h \in named : TextOf(h.words) \in texts(part.blocks)}) <= 1

\* A bundle that was assembled is not refused by its own check after the
\* filters, unless a title inside another block was to be removed; its names
\* are different; every link and every entry of the contents leads to one of
\* them, a link to a member into that member and to the heading its author
\* named, a word of a reference rule to the heading that begins with it, and
\* the entries are in the order of the document (assembler.go, links.go,
\* references.go, toc.go).
LinksLand ==
    answer.of = "bundle" /\ answer.made.ok =>
        IF ~answer.final.ok
        THEN \E m \in Range(input.book.members) :
                m.config.title \in {"document_title", "remove"}
                /\ \E b \in Range(m.blocks) : IsHeading(b) /\ b.nested
        ELSE LET parts == {p \in Range(answer.final.parts) : p.kind = "member"}
                 ids == FlattenSeq([i \in DOMAIN answer.made.parts |-> IdsOf(answer.made.parts[i])])
                 entries == [i \in DOMAIN answer.made.contents |-> answer.made.contents[i].id]
             IN /\ IsInjective(ids)
                /\ SelectSeq(ids, LAMBDA id : id \in Range(entries)) = entries
                /\ \A p \in parts : \A b \in Range(p.blocks) : \A w \in Range(b.words) :
                      w.link[1] = "internal" =>
                        IF w.word \in {"K1", "K2"}
                        THEN \E q \in parts : \E h \in Range(q.blocks) :
                                /\ q.key = "b.md" /\ IsHeading(h)
                                /\ h.anchor = w.link[2] /\ h.words[1].word = w.word
                                /\ h # b \/ b.words[1] # w \/ Len(b.words) > 1
                        ELSE LET link == WrittenLink(Written("key", p.key), w.word)
                                 key == IF link[2] = "" THEN p.key ELSE Written("file", link[2]).key
                             IN \E q \in parts : q.key = key /\ LandsAt(link, q, w.link[2])
===============================================================================
