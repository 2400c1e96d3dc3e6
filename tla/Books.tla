-------------------------------- MODULE Books ---------------------------------
(* A bundle: how its members become one document (bundle/assembler.go).      *)
(*                                                                           *)
(* The headings of every member are moved, removed and named; links between  *)
(* members become links inside the document, and the words that a reference  *)
(* rule knows become links to the heading that defines them; only headings   *)
(* that something leads to keep a name.  After the filters have run, the     *)
(* document is compared with what was assembled and gets its contents.       *)
(*                                                                           *)
(* A member is a sequence of headings and paragraphs, "nested" when they are *)
(* inside another block; a text is a sequence of words with a link each.     *)
(* Letters, formatting and layout are left out.                              *)
EXTENDS Fields

Plain == <<"none">>
Word(w) == [word |-> w, link |-> Plain]
Words(texts) == [i \in DOMAIN texts |-> Word(texts[i])]
Paragraph(words) == [block |-> "para", words |-> words]

NoLogical == <<>>
NoAnchor == <<>>
Heading(level, id, words) ==
    [block |-> "heading", level |-> level, id |-> id, words |-> words, nested |-> FALSE,
     logical |-> NoLogical, anchor |-> NoAnchor]
IsHeading(b) == b.block = "heading"

\* inlineText
TextOf(words) == FoldLeft(LAMBDA s, w : s \o w.word, "", words)

-----------------------------------------------------------------------------
(* Headings *)

TitleLevels ==
    [heading_1 |-> 1, heading_2 |-> 2, heading_3 |-> 3, heading_4 |-> 4, heading_5 |-> 5, heading_6 |-> 6]

\* What names a heading within its member: its ID or else its text, with a
\* count when it is not the first of that ID.
Identity(blocks, kept, i) ==
    LET b == blocks[i]
        same == {j \in kept : j <= i /\ blocks[j].id = b.id
                    /\ (b.id = "" => TextOf(blocks[j].words) = TextOf(b.words))}
        name == IF b.id = "" THEN "text:" \o TextOf(b.words) ELSE b.id
    IN IF b.id # "" /\ Cardinality(same) = 1 THEN name
       ELSE name \o ":" \o ToString(Cardinality(same))

\* The title is the first heading of level 1.  One to be removed is taken from
\* the blocks only where it is a block of the member itself.
TransformBelow(key, blocks, config, headings, title) ==
    LET removed == title > 0 /\ config.title \in {"document_title", "remove"}
        kept == headings \ (IF removed THEN {title} ELSE {})
        delta == config.adjustment +
                 IF title = 0 THEN 0
                 ELSE IF config.title = "document_title" THEN -1
                 ELSE IF config.title \in DOMAIN TitleLevels THEN TitleLevels[config.title] - 1
                 ELSE 0
        moved == [i \in DOMAIN blocks |->
                    IF i \notin kept THEN blocks[i]
                    ELSE [blocks[i] EXCEPT !.level = @ + delta,
                                           !.logical = <<key, "heading", Identity(blocks, kept, i)>>]]
    IN [ok |-> \A i \in kept : moved[i].level \in 1..6,
        title |-> IF title = 0 THEN <<>> ELSE blocks[title].words,
        blocks |-> IF removed /\ ~blocks[title].nested THEN RemoveAt(moved, title) ELSE moved]

TransformHeadings(key, blocks, config) ==
    LET headings == {i \in DOMAIN blocks : IsHeading(blocks[i])}
        titles == {i \in headings : blocks[i].level = 1}
    IN TransformBelow(key, blocks, config, headings, IF titles = {} THEN 0 ELSE Min(titles))

\* The title of an appendix is that of its template, which has made the given
\* segments, or else the member's own.
AppendixTitle(config, title, made) ==
    IF config.appendixTitle = <<>>
    THEN [ok |-> TRUE, words |-> [i \in DOMAIN title |-> title[i].word]]
    ELSE [ok |-> made.ok, words |-> [i \in DOMAIN made.segments |-> ToString(made.segments[i][2])]]

AddTitle(key, blocks, level, words) ==
    <<IF level <= 0 THEN Paragraph(words)
      ELSE [Heading(level, "mdoc-appendix", words) EXCEPT !.logical = <<key, "appendix">>]>> \o blocks

AddAppendix(key, blocks, config, level, own) ==
    IF ~config.appendix THEN [ok |-> TRUE, blocks |-> blocks]
    ELSE [ok |-> own.ok, blocks |-> AddTitle(key, blocks, level, Words(<<"Appendix">> \o own.words))]

\* The headings mdoc knows of.
Refs(blocks) == SelectSeq(blocks, LAMBDA b : IsHeading(b) /\ b.logical # NoLogical)

HierarchyHolds(refs) == \A i \in 2..Len(refs) : refs[i].level <= refs[i - 1].level + 1

-----------------------------------------------------------------------------
(* Bookmarks *)

\* Of a hash, the first 12 letters and then as many pairs as are needed; 14
\* parts fill a name, which has no room for a label then.
MaxParts == 14
MaxAttempts == 65

\* The hash gives the "twins" the same parts up to "shared".
Digest(hash, logical) ==
    [p \in 1..MaxParts |-> IF p <= hash.shared /\ logical \in hash.twins THEN <<"same">> ELSE logical]

BookmarkName(hash, logical, parts, label) ==
    <<SubSeq(Digest(hash, logical), 1, parts), IF parts = MaxParts THEN "" ELSE label>>

RECURSIVE Settle(_, _, _, _)

\* Names that collide are made longer until none do.
Settle(hash, labels, parts, attempts) ==
    LET names == [l \in DOMAIN labels |-> BookmarkName(hash, l, parts[l], labels[l])]
        colliding == {l \in DOMAIN labels : \E m \in DOMAIN labels \ {l} : names[l] = names[m]}
    IN IF colliding = {} THEN [ok |-> TRUE, names |-> names]
       ELSE IF attempts = 1 \/ \E l \in colliding : parts[l] = MaxParts THEN [ok |-> FALSE]
       ELSE Settle(hash, labels,
                            [l \in DOMAIN parts |-> parts[l] + (IF l \in colliding THEN 1 ELSE 0)],
                            attempts - 1)

GenerateBookmarks(hash, candidates) ==
    LET logicals == {candidates[i].logical : i \in DOMAIN candidates}
        labels == [l \in logicals |-> (CHOOSE c \in Range(candidates) : c.logical = l).label]
    IN IF Cardinality(logicals) < Len(candidates) THEN [ok |-> FALSE]
       ELSE Settle(hash, labels, [l \in logicals |-> 1], MaxAttempts)

Start(key) == <<key, "start">>

-----------------------------------------------------------------------------
(* Contents *)

\* Entries of a configuration for a member are in toc.members; depth 0 is none.
TOCHeadingIncluded(toc, key, heading) ==
    LET s == IF key \in DOMAIN toc.members THEN toc.members[key]
             ELSE [enabled |-> TRUE, depth |-> 0, include |-> {}, exclude |-> {}]
    IN /\ toc.enabled /\ s.enabled
       /\ s.include = {} \/ heading.id \in s.include
       /\ heading.id \notin s.exclude
       /\ heading.level <= IF s.depth > 0 THEN s.depth ELSE toc.depth

\* Every selected heading is one heading of one member.
SelectorsHold(toc, members) ==
    \A key \in DOMAIN toc.members :
        \E m \in Range(members) :
            /\ m.key = key
            /\ \A id \in toc.members[key].include \cup toc.members[key].exclude :
                  Len(SelectSeq(Refs(m.blocks), LAMBDA h : h.id = id /\ id # "")) = 1

-----------------------------------------------------------------------------
(* References *)

\* The headings of a member that begin with a word of the rule.
Definitions(rule, member) ==
    SelectSeq(Refs(member.blocks), LAMBDA h : h.words # <<>> /\ h.words[1].word \in rule.words)

RuleHolds(rule, members) ==
    \E m \in Range(members) :
        LET d == Definitions(rule, m)
        IN /\ m.key = rule.source
           /\ d # <<>>
           /\ IsInjective([i \in DOMAIN d |-> d[i].words[1].word])

\* Each word and the heading that defines it.
DefinedBy(rule, members) ==
    LET d == Definitions(rule, CHOOSE m \in Range(members) : m.key = rule.source)
    IN [w \in {d[i].words[1].word : i \in DOMAIN d} |->
            (CHOOSE h \in Range(d) : h.words[1].word = w).logical]

\* The words of a block that a rule is about: none in code or in a link, and
\* not the first that a heading defines.
Mentions(rule, defined, block) ==
    LET eligible == {i \in DOMAIN block.words :
                        block.words[i].link = Plain /\ block.words[i].word \in rule.words}
        own == IF IsHeading(block)
               THEN {i \in eligible : block.words[i].word \in DOMAIN defined
                        /\ defined[block.words[i].word] = block.logical}
               ELSE {}
    IN IF own = {} THEN eligible ELSE eligible \ {Min(own)}

RewriteMentions(member, rule, defined, names) ==
    LET Made(block) == {i \in Mentions(rule, defined, block) : block.words[i].word \in DOMAIN defined}
        unknown == UNION {{b.words[i].word : i \in Mentions(rule, defined, b)} : b \in Range(member.blocks)}
                   \ DOMAIN defined
    IN [ok |-> unknown = {} \/ rule.unresolved # "error",
        issues |-> {<<"reference", member.key, w>> :
                        w \in {v \in unknown : rule.unresolved = "warning"}},
        member |-> [member EXCEPT !.blocks = [p \in DOMAIN @ |->
            [@[p] EXCEPT !.words = [i \in DOMAIN @ |->
                IF i \in Made(member.blocks[p])
                THEN [@[i] EXCEPT !.link = <<"internal", names[defined[member.blocks[p].words[i].word]]>>]
                ELSE @[i]]]]]]

RewriteReferences(member, rule, members, names) ==
    RewriteMentions(member, rule, DefinedBy(rule, members), names)

\* All rules, one after the other.
RewriteAllReferences(member, rules, members, names) ==
    FoldLeft(LAMBDA r, rule :
                 IF ~r.ok THEN r
                 ELSE LET next == RewriteReferences(r.member, rule, members, names)
                      IN [next EXCEPT !.issues = @ \cup r.issues],
             [ok |-> TRUE, issues |-> {}, member |-> member], rules)

-----------------------------------------------------------------------------
(* Links.  A link is the web's, an image's or a local one with a path and a  *)
(* fragment; the path of a file is the file it leads to.                     *)

LinksOf(blocks) ==
    FlattenSeq([p \in DOMAIN blocks |-> [i \in DOMAIN blocks[p].words |-> blocks[p].words[i].link]])

FileOfLink(link, member) == IF link[1] = "local" /\ link[2] = "" THEN member.file ELSE link[2]
Targets(link, member, members) == {m \in Range(members) : m.file = FileOfLink(link, member)}
HeadingsNamed(member, fragment) == SelectSeq(Refs(member.blocks), LAMBDA h : h.id = fragment)

\* In a member: to the heading of the fragment, or where the policy says.
InternalLink(link, target, names, policy) ==
    LET found == HeadingsNamed(target, link[3])
    IN IF link[3] = "" THEN <<"internal", names[Start(target.key)]>>
       ELSE IF Len(found) = 1 THEN <<"internal", names[found[1].logical]>>
       ELSE IF policy = "warning_root" THEN <<"internal", names[Start(target.key)]>>
       ELSE IF policy = "preserve" THEN <<"preserved", link[2], link[3]>>
       ELSE Refused

RewriteLink(link, member, members, names, policy, options) ==
    IF link[1] \in {"none", "code", "web"} THEN link
    ELSE IF link[1] = "image"
       THEN IF link[2] \in options.approved \cap options.files THEN link ELSE Refused
    ELSE IF Targets(link, member, members) # {}
       THEN InternalLink(link, CHOOSE m \in Targets(link, member, members) : TRUE, names, policy)
    ELSE IF link[2] \in options.approved /\ link[2] \in DOMAIN options.keys
            /\ options.keys[link[2]] \in DOMAIN options.urls
       THEN <<"publication", options.urls[options.keys[link[2]]]>>
    ELSE Refused

RewriteMember(member, members, names, policy, options) ==
    [member EXCEPT !.blocks = [p \in DOMAIN @ |->
        [@[p] EXCEPT !.words = [i \in DOMAIN @ |->
            [@[i] EXCEPT !.link = RewriteLink(@, member, members, names, policy, options)]]]]]

\* The author is told of every fragment that is not one heading.
FragmentIssues(member, members, policy) ==
    {<<"fragment", member.key, l[3]>> :
        l \in {k \in Range(LinksOf(member.blocks)) :
                policy = "warning_root" /\ k[1] = "local" /\ k[3] # ""
                /\ \E m \in Targets(k, member, members) : Len(HeadingsNamed(m, k[3])) # 1}}

\* collectDependencies
Dependencies(member) ==
    LET links == SelectSeq(LinksOf(member.blocks), LAMBDA l : l[1] \notin {"none", "code", "web"})
    IN [i \in DOMAIN links |-> [source |-> member.key, link |-> links[i]]]

-----------------------------------------------------------------------------
(* The cover *)

\* A field is printed by a template; one that must be there is not blank.
CoverField(field, context) ==
    EvaluateTemplate(<<[node |-> "action",
        pipe |-> <<[call |-> IF field.optional THEN "optional" ELSE "field", path |-> field.path,
                    arguments |-> <<>>]>>]>>, context)

Blank(segments) == \A i \in DOMAIN segments : segments[i] = Text(Text(""))

CoverFieldHolds(field, value) == value.ok /\ (field.optional \/ ~Blank(value.segments))

CoverHolds(cover, context) ==
    \A f \in cover : f.visible =>
        CoverFieldHolds(f, CoverField(f, context))

-----------------------------------------------------------------------------
(* Assembly *)

\* A protected marker and the blocks in it.
NoMember == [key |-> "", config |-> <<>>, blocks |-> <<>>]
Part(kind, id, member) ==
    [kind |-> kind, id |-> id, key |-> member.key, config |-> member.config, blocks |-> member.blocks]
CoverId == <<"mdoc_cover">>
TOCId == <<"mdoc_toc">>

\* transformHeadings and addAppendix of one member.
PrepareAs(member, t, added) ==
    [ok |-> t.ok /\ added.ok, title |-> t.title, member |-> [member EXCEPT !.blocks = added.blocks]]

Prepare(member, level, context, t) ==
    PrepareAs(member, t,
        AddAppendix(member.key, t.blocks, member.config, level,
            AppendixTitle(member.config, t.title,
                          EvaluateTemplate(member.config.appendixTitle, context))))

BookmarkCandidates(members) ==
    FlattenSeq([m \in DOMAIN members |->
        LET refs == Refs(members[m].blocks)
        IN <<[logical |-> Start(members[m].key), label |-> members[m].key]>>
           \o [i \in DOMAIN refs |-> [logical |-> refs[i].logical, label |-> TextOf(refs[i].words)]]])

ContentsHeadings(toc, member) ==
    SelectSeq(Refs(member.blocks), LAMBDA h : TOCHeadingIncluded(toc, member.key, h))
InternalNames(member) ==
    {l[2] : l \in {k \in Range(LinksOf(member.blocks)) : k[1] = "internal"}}

\* Mutation of Anchored: links are collected before the references are made.
Anchored_Linked(toc, linked, rewritten, names) ==
    UNION {{names[h.logical] : h \in Range(ContentsHeadings(toc, m))} \cup InternalNames(m) : m \in Range(linked)}

\* The names that the contents or a link leads to.
Anchored(toc, linked, rewritten, names) ==
    UNION {{names[h.logical] : h \in Range(ContentsHeadings(toc, m))} \cup InternalNames(m) : m \in Range(rewritten)}

Anchor(member, anchored, names) ==
    LET Id(b) == IF names[b.logical] \in anchored THEN names[b.logical] ELSE NoAnchor
    IN [member EXCEPT !.blocks = [p \in DOMAIN @ |->
            IF ~IsHeading(@[p]) \/ @[p].logical = NoLogical THEN @[p]
            ELSE [@[p] EXCEPT !.anchor = Id(member.blocks[p])]]]

Protected(member, headings) ==
    [i \in DOMAIN headings |-> [source |-> member.key, level |-> headings[i].level,
                                id |-> headings[i].anchor, text |-> TextOf(headings[i].words)]]

\* ExtractTopology: what the filters must leave alone.
ExtractTopology(parts) ==
    LET members == SelectSeq(parts, LAMBDA p : p.kind = "member")
    IN [markers |-> [i \in DOMAIN parts |-> [parts[i] EXCEPT !.blocks = <<>>]],
        headings |-> FlattenSeq([i \in DOMAIN members |->
                        Protected(members[i], SelectSeq(members[i].blocks, IsHeading))]),
        dependencies |-> FlattenSeq([i \in DOMAIN members |-> Dependencies(members[i])])]

\* The steps before the document is put together, in their order.
Assemblable(book, options, prepared, members, bookmarks) ==
    /\ members # <<>>
    /\ \A m \in DOMAIN prepared :
          prepared[m].ok
          /\ (HierarchyHolds(Refs(members[m].blocks)) \/ book.hierarchy \in {"allow", "warning"})
    /\ SelectorsHold(book.toc, members)
    /\ \A r \in DOMAIN book.rules : RuleHolds(book.rules[r], members)
    /\ bookmarks.ok
    /\ book.cover.enabled => CoverHolds(book.cover.fields, options.context)

Bundled(book, prepared, members, references, names, result) ==
    LET titles == SelectSeq(prepared, LAMBDA q : q.member.config.title = "document_title" /\ q.title # <<>>)
        parts == (IF book.cover.enabled THEN <<Part("cover", CoverId, NoMember)>> ELSE <<>>)
                 \o (IF book.toc.enabled THEN <<Part("toc", TOCId, NoMember)>> ELSE <<>>)
                 \o [m \in DOMAIN result |-> Part("member", names[Start(result[m].key)], result[m])]
        Known(m) == Protected(result[m], Refs(result[m].blocks))
    IN [ok |-> TRUE, parts |-> parts,
        title |-> IF book.title # <<>> \/ titles = <<>> THEN book.title ELSE titles[1].title,
        topology |-> [ExtractTopology(parts) EXCEPT
                         !.headings = FlattenSeq([m \in DOMAIN result |-> Known(m)])],
        contents |-> FlattenSeq([m \in DOMAIN result |->
                         Protected(result[m], ContentsHeadings(book.toc, result[m]))]),
        issues |-> UNION {FragmentIssues(members[m], members, book.fragments) \cup references[m].issues :
                             m \in DOMAIN members}
                   \cup {<<"hierarchy", members[m].key>> :
                           m \in {n \in DOMAIN members : book.hierarchy = "warning"
                                     /\ ~HierarchyHolds(Refs(members[n].blocks))}}]

AnchorAll(members, anchored, names) == [m \in DOMAIN members |-> Anchor(members[m], anchored, names)]

AssembleLinked(book, prepared, members, names, linked) ==
    LET references == [m \in DOMAIN linked |-> RewriteAllReferences(linked[m], book.rules, members, names)]
        rewritten == [m \in DOMAIN references |-> references[m].member]
    IN IF \A m \in DOMAIN linked : Refused \notin Range(LinksOf(linked[m].blocks)) /\ references[m].ok
       THEN Bundled(book, prepared, members, references, names,
                    AnchorAll(rewritten, Anchored(book.toc, linked, rewritten, names), names))
       ELSE [ok |-> FALSE]

AssembleNamed(book, options, prepared, members, bookmarks) ==
    IF Assemblable(book, options, prepared, members, bookmarks)
    THEN AssembleLinked(book, prepared, members, bookmarks.names,
            [m \in DOMAIN members |-> RewriteMember(members[m], members, bookmarks.names, book.fragments, options)])
    ELSE [ok |-> FALSE]

AssembleMembers(book, options, prepared, members) ==
    AssembleNamed(book, options, prepared, members,
                  GenerateBookmarks(options.hash, BookmarkCandidates(members)))

AssemblePrepared(book, options, prepared) ==
    AssembleMembers(book, options, prepared, [m \in DOMAIN prepared |-> prepared[m].member])

Assemble(book, options) ==
    AssemblePrepared(book, options,
        [i \in DOMAIN book.members |->
            LET m == book.members[i]
            IN Prepare(m, book.titleLevel, options.context,
                       TransformHeadings(m.key, m.blocks, m.config))])

VerifyTopology(expected, filtered) == ExtractTopology(filtered) = expected

\* Of a document whose protected parts the filters left alone, the marker of
\* the cover goes and that of the contents becomes links.
Finalize(assembled, filtered) ==
    IF ~VerifyTopology(assembled.topology, filtered) THEN [ok |-> FALSE]
    ELSE LET kept == SelectSeq(filtered, LAMBDA p : p.kind # "cover")
         IN [ok |-> TRUE,
             parts |-> [i \in DOMAIN kept |->
                IF kept[i].kind = "toc" THEN [kind |-> "contents", entries |-> assembled.contents]
                ELSE kept[i]]]
===============================================================================
