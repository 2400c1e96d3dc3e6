------------------------------- MODULE Documents -------------------------------
(* internal/document and internal/publication: which files are the sources   *)
(* of a profile, under which keys, where their links lead, and which         *)
(* publications they make.  Pure operators.                                  *)
(*                                                                           *)
(* A path is the sequence of its names from the root of the disk; a link's   *)
(* target is the path it leads to from the directory of its document.  The   *)
(* disk d is a record: files (path -> [markdown, parses, headings, links]),  *)
(* links (a symbolic link and where it leads, in one step), miscased (paths  *)
(* that reach a file only because the volume ignores case) and normal (the   *)
(* NFC form of a name).  A link has the extension of the file it leads to.   *)
(* Titles and the wording of issues are left out; an issue is its code.      *)
EXTENDS Integers, Sequences, FiniteSets, SequencesExt

NoKey == <<>>

\* filepath.EvalSymlinks
Real(d, path) ==
    LET through == {l \in DOMAIN d.links : IsPrefix(l, path)}
    IN IF through = {} THEN path
       ELSE LET l == CHOOSE x \in through : TRUE
            IN d.links[l] \o SubSeq(path, Len(l) + 1, Len(path))

Exists(d, path) == Real(d, path) \in DOMAIN d.files \cup d.miscased
Within(root, path) == IsPrefix(root, path)
CaseMatches(d, root, path) == Within(root, path) /\ path \notin d.miscased
Below(root, path) == SubSeq(path, Len(root) + 1, Len(path))

\* The first approved root that holds the file, 0 when none does.
ContainingRoot(d, roots, path) ==
    LET holding == {i \in DOMAIN roots : Within(Real(d, roots[i]), Real(d, path))}
    IN IF holding = {} THEN 0 ELSE Min(holding)

\* sourcekey.Normalize
Normalize(d, names) == [i \in DOMAIN names |-> d.normal[names[i]]]

-------------------------------------------------------------------------------
(* Source selection.                                                         *)

\* A source is a file or a directory; a pattern is the files it matches.
ExpandSource(d, source) ==
    LET listed == DOMAIN d.files \cup {l \in DOMAIN d.links : d.links[l] \in DOMAIN d.files}
    IN IF Exists(d, source) THEN {source} ELSE {p \in listed : Within(source, p)}

ExcludedSource(path, excludes) == \E e \in excludes : Within(e, path)

Candidates(d, profile) ==
    {p \in UNION {ExpandSource(d, s) : s \in profile.sources} :
        /\ ~ExcludedSource(p, profile.excludes)
        /\ Real(d, p) \in DOMAIN d.files => d.files[Real(d, p)].markdown}

\* What the key of a source in an external root begins with.
ExternalNumber(i) == ToString(i - 1)
ExternalPrefix(i) == IF i > 1 THEN <<"external", ExternalNumber(i)>> ELSE <<>>

SelectedSourceKey(d, roots, path) ==
    LET i == ContainingRoot(d, roots, path)
    IN Normalize(d, ExternalPrefix(i) \o Below(roots[i], path))

ValidCandidate(d, roots, path) ==
    LET i == ContainingRoot(d, roots, path)
    IN i > 0 /\ CaseMatches(d, roots[i], path)

ConflictingKeys(d, roots, chosen) ==
    \E p, q \in chosen : /\ Real(d, p) = Real(d, q)
                         /\ SelectedSourceKey(d, roots, p) # SelectedSourceKey(d, roots, q)

SharedKey(d, roots, chosen) ==
    \E p, q \in chosen : /\ Real(d, p) # Real(d, q)
                         /\ SelectedSourceKey(d, roots, p) = SelectedSourceKey(d, roots, q)

\* [ok, sources]: a set of [path, key], one for each real file.  The first
\* root is the project's, the others are the external ones.
SelectSources(d, roots, profile) ==
    LET chosen == Candidates(d, profile)
        kept == {CHOOSE q \in chosen : Real(d, q) = Real(d, p) : p \in chosen}
    IN IF (\E p \in chosen : ~ValidCandidate(d, roots, p))
          \/ ConflictingKeys(d, roots, chosen) \/ SharedKey(d, roots, chosen)
       THEN [ok |-> FALSE, sources |-> {}]
       ELSE [ok |-> TRUE, sources |-> {[path |-> p, key |-> SelectedSourceKey(d, roots, p)] : p \in kept}]

\* The key of the selected source that a key, or a path, names.
ResolveSelectedSourceKey(d, root, sources, value, absolute) ==
    LET named == {s \in sources : ~absolute /\ s.key = Normalize(d, value)}
        path == IF absolute THEN value ELSE root \o value
        reached == {s \in sources : Real(d, s.path) = Real(d, path)}
    IN IF named # {} THEN (CHOOSE s \in named : TRUE).key
       ELSE IF reached # {} THEN (CHOOSE s \in reached : TRUE).key ELSE NoKey

\* The entry is a path or the key of an external source; without one, the
\* only source is it.
ResolveEntrySourceKey(d, root, sources, value) ==
    IF value # <<>> THEN ResolveSelectedSourceKey(d, root, sources, value, value[1] # "external")
    ELSE IF Cardinality(sources) = 1 THEN (CHOOSE s \in sources : TRUE).key ELSE NoKey

-------------------------------------------------------------------------------
(* The graph of the documents.                                               *)

\* paths: the key of a source by its path and by that of its real file;
\* documents: the sources that could be read and parsed, by key.
PathKeys(d, sources) ==
    [p \in {s.path : s \in sources} \cup {Real(d, s.path) : s \in sources} |->
        (CHOOSE s \in sources : p \in {s.path, Real(d, s.path)}).key]

GraphOf(d, roots, profile, sources) ==
    LET parsed == {s \in sources : d.files[Real(d, s.path)].parses}
        entry == ResolveEntrySourceKey(d, roots[1], sources, profile.entry)
        documents == [k \in {s.key : s \in parsed} |->
                        LET s == CHOOSE x \in parsed : x.key = k
                        IN [path |-> s.path, source |-> d.files[Real(d, s.path)]]]
    IN [roots |-> roots, paths |-> PathKeys(d, sources), documents |-> documents,
        entry |-> entry,
        issues |-> IF sources = {} THEN {"no_sources"}
                   ELSE (IF parsed # sources THEN {"pandoc"} ELSE {})
                        \cup (IF entry = NoKey /\ profile.entry # <<>> THEN {"entry_invalid"} ELSE {})
                        \cup (IF entry # NoKey /\ entry \notin DOMAIN documents
                              THEN {"entry_missing"} ELSE {})]

Discover(d, roots, profile) ==
    GraphOf(d, roots, profile, SelectSources(d, roots, profile).sources)

KeyForPath(d, graph, path) ==
    IF path \in DOMAIN graph.paths THEN graph.paths[path]
    ELSE IF Real(d, path) \in DOMAIN graph.paths THEN graph.paths[Real(d, path)] ELSE NoKey

\* A link is [kind, target, fragment]: kind "local", "image" or "absolute",
\* which begins with a slash, with the path its target has when it is joined
\* to the document's directory; "here" with a fragment of its own document;
\* "remote" or "remote_image", with a scheme or a host; or "invalid".
JoinedKinds == {"local", "image", "absolute"}

ResolveTarget_Path(d, graph, link) ==
    LET key == IF link.target \in DOMAIN graph.paths THEN graph.paths[link.target] ELSE NoKey
    IN IF link.kind \in JoinedKinds /\ key \in DOMAIN graph.documents THEN key ELSE NoKey

ResolveTarget(d, graph, link) ==
    LET key == KeyForPath(d, graph, link.target)
    IN IF link.kind \in JoinedKinds /\ key \in DOMAIN graph.documents THEN key ELSE NoKey

HasHeading(document, fragment) == fragment = "" \/ fragment \in document.source.headings

\* The issue a target has by its place on the disk, "" for none.
PlaceIssue(d, graph, link) ==
    LET i == ContainingRoot(d, graph.roots, link.target)
    IN IF i = 0 THEN "unsafe_path"
       ELSE IF ~Exists(d, link.target)
            THEN IF link.kind = "image" THEN "missing_asset" ELSE "broken_link"
       ELSE IF ~CaseMatches(d, graph.roots[i], link.target) THEN "case_mismatch" ELSE ""

\* unpublished_markdown_links: "error", "warning" or "preserve".
MarkdownIssue(d, graph, link, policy) ==
    LET key == KeyForPath(d, graph, link.target)
    IN IF key \notin DOMAIN graph.documents
       THEN IF policy = "preserve" THEN "" ELSE "unpublished_link"
       ELSE IF HasHeading(graph.documents[key], link.fragment) THEN "" ELSE "missing_fragment"

ValidateLink(d, graph, document, link, policy) ==
    LET place == PlaceIssue(d, graph, link)
        file == d.files[Real(d, link.target)]
    IN IF link.kind = "invalid" THEN {"invalid_link"}
       ELSE IF link.kind = "remote_image" THEN {"unsafe_asset_source"}
       ELSE IF link.kind = "remote" THEN {}
       ELSE IF link.kind = "here" THEN IF HasHeading(document, link.fragment) THEN {}
                                      ELSE {"missing_fragment"}
       ELSE IF link.kind = "absolute" THEN {"unsafe_path"}
       ELSE IF place \in {"unsafe_path", "missing_asset", "broken_link"} THEN {place}
       ELSE IF link.kind = "image" /\ place = "case_mismatch" THEN {place}
       ELSE IF link.kind = "image" THEN IF file.markdown THEN {"unsupported_asset"} ELSE {}
       ELSE IF place = "case_mismatch" THEN {place, MarkdownIssue(d, graph, link, policy)} \ {""}
       ELSE (IF file.markdown THEN {MarkdownIssue(d, graph, link, policy)} ELSE {}) \ {""}

-------------------------------------------------------------------------------
(* Publications.                                                             *)

SourceTarget(key) == <<"source", key>>
PublicationTarget(id) == <<"publication", id>>

\* Versions 1 and 2: each document is a publication of its own.
NormalizeLegacy(graph) ==
    LET items == [k \in DOMAIN graph.documents |->
                    [kind |-> "source", target |-> SourceTarget(k), members |-> <<k>>,
                     references |-> {}, contents |-> <<>>]]
    IN [items |-> items,
        entry |-> IF graph.entry \in DOMAIN items THEN graph.entry ELSE NoKey,
        issues |-> {}]

\* A configured path names a document by the path it was selected under.
DocumentAt(graph, path) ==
    LET found == {k \in DOMAIN graph.documents : graph.documents[k].path = path}
    IN IF found = {} THEN NoKey ELSE CHOOSE k \in found : TRUE

ResolveIssue_Existing(d, graph, path) ==
    IF DocumentAt(graph, path) # NoKey \/ Exists(d, path) THEN {}
    ELSE IF ContainingRoot(d, graph.roots, path) = 0 THEN {"publication_source_unsafe"}
    ELSE {"publication_source_missing"}

ResolveIssue(d, graph, path) ==
    IF DocumentAt(graph, path) # NoKey THEN {}
    ELSE IF ContainingRoot(d, graph.roots, path) = 0 THEN {"publication_source_unsafe"}
    ELSE IF Exists(d, path) THEN {"publication_source_excluded"}
    ELSE {"publication_source_missing"}

\* The documents of the members, each once: a repeated one is left out.
NewMembers(graph, p) ==
    {i \in DOMAIN p.members :
        DocumentAt(graph, p.members[i])
            \notin {NoKey} \cup {DocumentAt(graph, p.members[j]) : j \in 1..(i - 1)}}

NthOf(S, n) == CHOOSE i \in S : Cardinality({j \in S : j <= i}) = n

Members(graph, p) ==
    LET new == NewMembers(graph, p)
    IN [n \in 1..Cardinality(new) |-> DocumentAt(graph, p.members[NthOf(new, n)])]

MemberRepeated(graph, p) ==
    \E i, j \in DOMAIN p.members : /\ i < j
                                   /\ DocumentAt(graph, p.members[i]) # NoKey
                                   /\ DocumentAt(graph, p.members[i]) = DocumentAt(graph, p.members[j])

\* The table of contents selects members by path or by key.
NormalizeTOCMember(graph, p, selector) ==
    LET kept == Range(Members(graph, p))
        byPath == {k \in kept : graph.documents[k].path = selector}
        byKey == {k \in kept : k = selector}
    IN IF byPath # {} THEN CHOOSE k \in byPath : TRUE
       ELSE IF byKey # {} THEN CHOOSE k \in byKey : TRUE ELSE NoKey

ResolvePublication(d, graph, id, p) ==
    LET members == IF p.kind = "source"
                   THEN IF DocumentAt(graph, p.source) = NoKey THEN <<>>
                        ELSE <<DocumentAt(graph, p.source)>>
                   ELSE Members(graph, p)
        inside(path) == DocumentAt(graph, path) \in Range(members)
        paths == IF p.kind = "source" THEN {p.source} ELSE Range(p.members) \cup p.references
        contents == [i \in DOMAIN p.contents |-> NormalizeTOCMember(graph, p, p.contents[i])]
    IN [item |-> [kind |-> p.kind, target |-> PublicationTarget(id), members |-> members,
                  references |-> {DocumentAt(graph, r) : r \in {x \in p.references : inside(x)}},
                  contents |-> contents],
        issues |->
          (UNION {ResolveIssue(d, graph, path) : path \in paths})
          \cup (IF p.kind = "bundle" /\ MemberRepeated(graph, p)
                THEN {"publication_member_duplicate"} ELSE {})
          \cup (IF \E r \in p.references : DocumentAt(graph, r) # NoKey /\ ~inside(r)
                THEN {"publication_reference_source_not_member"} ELSE {})
          \cup (IF NoKey \in Range(contents) THEN {"publication_toc_member_missing"} ELSE {})]

ResolveExplicit(d, graph, publications, entry) ==
    LET resolved == [id \in DOMAIN publications |-> ResolvePublication(d, graph, id, publications[id])]
    IN [items |-> [id \in DOMAIN resolved |-> resolved[id].item],
        entry |-> IF entry \in DOMAIN resolved THEN entry ELSE NoKey,
        issues |-> (UNION {resolved[id].issues : id \in DOMAIN resolved})
                   \cup (IF entry \in DOMAIN resolved THEN {} ELSE {"publication_entry_missing"})]

ResolvePublications(d, graph, version, profile) ==
    IF version < 3 THEN NormalizeLegacy(graph)
    ELSE ResolveExplicit(d, graph, profile.publications, profile.publication)
===============================================================================
