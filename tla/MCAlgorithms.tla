----------------------------- MODULE MCAlgorithms -----------------------------
(* The pure algorithms over bounded inputs: a state is an input, and a step  *)
(* evaluates one algorithm on it.                                            *)
EXTENDS ReviewMerge, MCBooks

Seqs(S, n) == UNION {[1..k -> S] : k \in 0..n}

-------------------------------------------------------------------------------
(* Merging a review: members of up to three blocks, an export with or        *)
(* without one generated block, and any review of up to three blocks.        *)

Block(t, k, l) == [text |-> t, kind |-> k, link |-> l]
X == Block("x", "para", FALSE)
Y == Block("y", "para", FALSE)
N == Block("n", "para", FALSE)
L == Block("x", "para", TRUE)
T == Block("y", "table", FALSE)

\* At most one table: equal tables are told apart only by their position.
MergeMembers ==
    {m \in {<<s>> : s \in UNION {[1..n -> {X, Y, T, L}] : n \in 1..3}}
           \cup {<<s, t>> : s \in UNION {[1..n -> {X, Y, T}] : n \in 1..2}, t \in {<<Y>>, <<X>>, <<T>>}} :
       LET f == FlattenSeq(m) IN Cardinality({i \in DOMAIN f : f[i] = T}) <= 1}

MergeExports(m) ==
    LET f == FlattenSeq(m)
    IN {[blocks |-> f, gen |-> 0], [blocks |-> <<X>> \o f, gen |-> 1]}
       \cup {[blocks |-> SubSeq(f, 1, p) \o <<N>> \o SubSeq(f, p + 1, Len(f)), gen |-> p + 1] :
                p \in 0..Len(f)}

MergeInputs ==
    {[of |-> "merge", members |-> m, export |-> e.blocks, gen |-> e.gen, portable |-> b] :
        <<m, e, b>> \in UNION {{m} \X MergeExports(m) \X BOOLEAN : m \in MergeMembers}}

MergeAnswer(review, local, map, found) ==
    LET Base(m) == Source(input.members[m])
    IN [of |-> "merge", review |-> review, local |-> local, ok |-> map.ok,
        changes |-> found.changes, matches |-> found.matches,
        proposals |-> [m \in DOMAIN input.members |->
            Proposal(Base(m), IF m = 1 THEN local ELSE Base(m), map.entries, review, found.changes, m)]]

AnswerMerge ==
    /\ input.of = "merge"
    /\ \E map \in {SourceMap(input.members, input.export)},
          review \in Seqs({X, Y, N, T}, 3) :
       \E found \in {ClassifyReview(map.entries, review, input.portable)} :
          \/ answer' = MergeAnswer(review, Source(input.members[1]), map, found)
          \/ /\ input.gen = 0 /\ ~input.portable
             /\ input.members \in {<<<<X, Y>>>>, <<<<X, X>>>>, <<<<X, N>>>>}
             /\ \E local \in Seqs({X, Y, BlankLine}, 4) :
                   answer' = MergeAnswer(review, local, map, found)

-------------------------------------------------------------------------------
(* Configurations: the user's directory, a project and a directory below it; *)
(* two profiles; a state file that is a link to another, names that differ   *)
(* in case, and every source giving an output format or a state file or not. *)

At(dir, name) == [dir |-> dir, name |-> name]
GlobalConfigs ==
    {[found |-> FALSE, dir |-> "home", unknown |-> FALSE, version |-> 1, default |-> "", layer |-> <<>>]}
    \cup {[found |-> TRUE, dir |-> "home", unknown |-> u, version |-> 1, default |-> "", layer |-> l] :
            u \in BOOLEAN, l \in {<<>>, [format |-> "json"], [quiet |-> TRUE],
                                  [state |-> At("", "a")], [state |-> At("work", "a")]}}

StatesOfProfile ==
    {<<>>} \cup {[state |-> s] : s \in {NoPath, At("", "a"), At("", "A"), At("", "ln"), At("home", "a")}}

\* A version 1 profile has every key; a version 3 one needs a publication.
ProfileOf(version, layer) ==
    IF version = 1
    THEN [sources |-> <<At("", "a")>>, entry |-> At("", "a"), reference |-> At("", "b"),
          staging |-> "staging", review |-> "review", max |-> 0,
          state |-> IF layer = <<>> THEN NoPath ELSE layer.state]
    ELSE IF version = 3
         THEN layer @@ [entry |-> At("", "book"), publications |->
                 [book |-> [kind |-> "bundle", source |-> NoPath,
                            members |-> <<[source |-> At("", "a"), start |-> "", title |-> "", adjustment |-> 0]>>,
                            references |-> <<>>, fieldFiles |-> <<>>, fields |-> {}, fragments |-> "",
                            toc |-> [enabled |-> FALSE, mode |-> "", depth |-> 0, members |-> <<>>]]]]
         ELSE layer

ProjectsOf(version, layer) ==
    {[version |-> version, unknown |-> FALSE, named |-> TRUE, default |-> default, layer |-> layer,
      profiles |-> IF n = 1 THEN [p |-> ProfileOf(version, s)]
                   ELSE [p |-> ProfileOf(version, s), q |-> ProfileOf(version, t)]] :
        default \in {"", "q"}, n \in 1..2, s \in StatesOfProfile, t \in StatesOfProfile}

ConfigDisk(global, projects) ==
    [global |-> global, projects |-> projects,
     above |-> [sub |-> <<"sub", "work">>, work |-> <<"work">>, home |-> <<"home">>],
     links |-> (At("work", "ln") :> At("work", "a")), files |-> {},
     lower |-> [a |-> "a", A |-> "a", ln |-> "ln", b |-> "b"]]

Environments ==
    {("MDOC_PROFILE" :> [ok |-> TRUE, value |-> ""]) @@ e :
        e \in {<<>>, [MDOC_OUTPUT_FORMAT |-> [ok |-> TRUE, value |-> "human"]],
               [MDOC_OUTPUT_FORMAT |-> [ok |-> TRUE, value |-> "text"]],
               [MDOC_OUTPUT_QUIET |-> [ok |-> TRUE, value |-> TRUE]],
               [MDOC_OUTPUT_QUIET |-> [ok |-> FALSE, value |-> FALSE]]}}

Options(working, project, allow, env, overrides) ==
    [working |-> working, project |-> project, allowMissing |-> allow, profile |-> "",
     env |-> env, overrides |-> overrides, root |-> NoPath, entry |-> NoPath, sources |-> <<>>]

Quiet == ("MDOC_PROFILE" :> [ok |-> TRUE, value |-> ""])

\* State files: no output settings, and no state file but those of the files.
StateInputs ==
    {[of |-> "config", asked |-> {"p", "q"}, options |-> Options("sub", "", FALSE, Quiet, <<>>),
      disk |-> ConfigDisk(g, [work |-> project])] :
        g \in {x \in GlobalConfigs : ~x.unknown /\ DOMAIN x.layer \subseteq {"state"}},
        project \in UNION {ProjectsOf(v, <<>>) : v \in 1..3}}

OutputInputs ==
    {[of |-> "config", asked |-> {"p", "q"}, options |-> Options(at, p, TRUE, e, f),
      disk |-> ConfigDisk(g, IF l.version = 0 THEN <<>> ELSE [work |-> l])] :
        at \in {"sub", "home"}, p \in {"", "work"}, e \in Environments,
        f \in {<<>>, [format |-> "json"], [format |-> "human", quiet |-> FALSE]}, g \in GlobalConfigs,
        l \in {[version |-> 0]} \cup
              {[version |-> v, unknown |-> u \/ v = 1, named |-> TRUE, default |-> "", layer |-> o,
                profiles |-> [p |-> ProfileOf(v, <<>>)]] :
                  v \in 1..4, u \in BOOLEAN, o \in {[format |-> "json"], [format |-> "text"], [quiet |-> TRUE]}}
              \cup {CHOOSE x \in ProjectsOf(1, <<>>) : x.default = "" /\ DOMAIN x.profiles = {"p"}}}

-------------------------------------------------------------------------------
(* Documents: a project with a directory of its own sources, an approved     *)
(* root outside it and a file outside both, reached through links.           *)

Doc(names) == <<"p", "docs">> \o names
FileA == Doc(<<"a.md">>)
FileB == Doc(<<"b.md">>)
FileE == <<"e", "x.md">>
Alias == Doc(<<"ln.md">>)
WrongCase == Doc(<<"A.md">>)
LinkTargets ==
    {FileA, FileB, FileE, Alias, WrongCase, <<"o", "x.md">>, Doc(<<"none.md">>),
     Doc(<<"img.png">>), <<"p", "lx", "x.md">>}
LinkOf(kind, target, fragment) == [kind |-> kind, target |-> target, fragment |-> fragment]
TestLinks ==
    {LinkOf(k, t, "") : k \in {"local", "image", "absolute"}, t \in LinkTargets}
    \cup {LinkOf("local", FileA, "top"), LinkOf("local", FileB, "top"),
          LinkOf("here", <<>>, "top"), LinkOf("remote", <<>>, ""),
          LinkOf("remote_image", <<>>, ""), LinkOf("invalid", <<>>, "")}

MarkdownFile(parses, links) ==
    [markdown |-> TRUE, parses |-> parses, headings |-> {"top"}, links |-> links]

\* Names whose NFC forms are equal: "e1.md" and "e2.md".
DocumentDisks ==
    {[files |-> (FileA :> MarkdownFile(TRUE, TestLinks))
                @@ (FileB :> [MarkdownFile(b, {}) EXCEPT !.headings = {}])
                @@ (FileE :> MarkdownFile(TRUE, {}))
                @@ (<<"o", "x.md">> :> MarkdownFile(TRUE, {}))
                @@ (Doc(<<"img.png">>) :> [MarkdownFile(FALSE, {}) EXCEPT !.markdown = FALSE])
                @@ more,
      links |-> links, miscased |-> {WrongCase},
      normal |-> [n \in {"p", "docs", "a.md", "b.md", "x.md", "ln.md", "A.md", "img.png", "none.md",
                         "external", "1", "lx", "e", "o"} |-> n]
                 @@ ("e1.md" :> "e1.md") @@ ("e2.md" :> "e1.md")] :
        b \in BOOLEAN,
        links \in {(Alias :> FileA), (Alias :> FileE), (Alias :> <<"o", "x.md">>),
                   (<<"p", "lx">> :> <<"e">>)},
        more \in {<<>>, <<"p", "external", "1", "x.md">> :> MarkdownFile(TRUE, {}),
                  (Doc(<<"e1.md">>) :> MarkdownFile(TRUE, {})) @@ (Doc(<<"e2.md">>) :> MarkdownFile(TRUE, {}))}}

SourcePatterns == {<<"p">>, <<"p", "docs">>, <<"e">>, FileA, FileB, Alias, WrongCase, <<"p", "lx", "x.md">>}

Bundle(members, references, contents) ==
    [kind |-> "bundle", source |-> <<>>, members |-> members, references |-> references,
     contents |-> contents]
OneSource(source) ==
    [kind |-> "source", source |-> source, members |-> <<>>, references |-> {}, contents |-> <<>>]
ChapterSources == {FileA, FileB, FileE, Alias, Doc(<<"none.md">>)}
Books ==
    {OneSource(f) : f \in ChapterSources}
    \cup {Bundle(m, r, c) : m \in Seqs({FileA, FileB, FileE, Alias}, 2) \ {<<>>},
                            r \in {{}, {FileA}, {FileB}},
                            c \in {<<>>, <<FileA>>, <<FileE, FileB>>, <<<<"docs", "a.md">>>>}}

SelectionInputs ==
    {[of |-> "documents", disk |-> d, roots |-> roots,
      profile |-> [sources |-> s, excludes |-> x, entry |-> e,
                   publications |-> <<>>, publication |-> ""]] :
        d \in DocumentDisks, roots \in {<<<<"p">>>>, <<<<"p">>, <<"e">>>>},
        s \in {t \in SUBSET SourcePatterns : Cardinality(t) \in 1..2},
        x \in {{}, {FileB}, {<<"p", "external">>}},
        e \in {<<>>, FileA, <<"external", "1", "x.md">>}}

BookInputs ==
    {[of |-> "documents", disk |-> d, roots |-> <<<<"p">>, <<"e">>>>,
      profile |-> [sources |-> s, excludes |-> {}, entry |-> <<>>,
                   publications |-> [book |-> b], publication |-> n]] :
        d \in {x \in DocumentDisks : Doc(<<"e1.md">>) \notin DOMAIN x.files},
        s \in {{FileA, FileE}, {FileA, FileB, FileE}}, b \in Books, n \in {"book", "other"}}

-------------------------------------------------------------------------------
ASSUME DocumentInputsWellFormed ==
    \A i \in SelectionInputs \cup BookInputs : DocumentsInput(i)

ASSUME ConfigInputsWellFormed ==
    \A i \in StateInputs \cup OutputInputs : ConfigInput(i)

AlgorithmsInit ==
    /\ answer = Unanswered
    /\ \/ input \in MergeInputs
       \/ input \in StateInputs \cup OutputInputs
       \/ input \in SelectionInputs \cup BookInputs
       \/ input \in FieldInputs \cup TemplateInputs \cup BundleInputs

AlgorithmsNext ==
    /\ answer = Unanswered
    /\ AnswerMerge \/ AnswerConfig \/ AnswerDocuments \/ AnswerFields \/ AnswerTemplate \/ AnswerBundle
    /\ UNCHANGED input

AlgorithmsSpec == AlgorithmsInit /\ [][AlgorithmsNext]_answerVars
-------------------------------------------------------------------------------
(* Merging.                                                                  *)

Texts(s) == [i \in DOMAIN s |-> s[i].text]
NotBlank(l) == l.kind # "blank"
Generated(j) == input.gen # 0 /\ <<input.gen, j>> \in answer.matches

\* A review of unchanged sources whose changes all find a place is what the
\* merged sources say, block by block, without the generated block: nothing
\* the reviewer wrote is lost, doubled or moved (merge.go, source_map.go,
\* align.go).
ReviewApplied ==
    (/\ answer.of = "merge"
     /\ answer.ok /\ answer.local = Source(input.members[1]) /\ Conflicts(answer.changes) = {}
     /\ (input.gen = 0 \/ \E j \in DOMAIN answer.review : Generated(j))
     /\ \A m \in DOMAIN answer.proposals : answer.proposals[m].ok)
      => Texts(FlattenSeq([m \in DOMAIN answer.proposals |->
                             SelectSeq(answer.proposals[m].lines, NotBlank)]))
         = FlattenSeq([j \in DOMAIN answer.review |->
                         IF Generated(j) THEN <<>> ELSE <<answer.review[j].text>>])

Woven(base, edits) ==
    FlattenSeq([p \in 1..(Len(base) + 1) |->
        FlattenSeq(SetToSeq({e.lines : e \in {d \in edits : d.lo = p - 1}}))
        \o IF p > Len(base) \/ \E e \in edits : p \in (e.lo + 1)..e.hi THEN <<>> ELSE <<base[p]>>])

Patched(before, patch) ==
    LET old == SelectSeq(patch, LAMBDA l : l[1] # "+")
        new == SelectSeq(patch, LAMBDA l : l[1] # "-")
    IN IF [i \in DOMAIN old |-> old[i][2]] = before
       THEN [i \in DOMAIN new |-> new[i][2]] ELSE <<"does not apply">>

\* A proposal that is no conflict holds the edits of the author and those of
\* the review, which touch no line in common, and its patch turns the file of
\* the author into it (merge.go, patch.go).
MergeKeepsBothSides ==
    answer.of = "merge" /\ answer.ok =>
      \A m \in DOMAIN answer.proposals :
        LET p == answer.proposals[m]
            base == Source(input.members[m])
            local == IF m = 1 THEN answer.local ELSE base
        IN p.ok =>
             /\ \A a \in p.author, b \in p.remote :
                   /\ ((a.lo + 1)..a.hi) \cap ((b.lo + 1)..b.hi) = {}
                   /\ a.lo = b.lo => <<>> \in {a.lines, b.lines}
             /\ p.lines = Woven(base, p.author \cup p.remote)
             /\ Patched(local, FilePatch(local, p.lines)) = p.lines

===============================================================================
