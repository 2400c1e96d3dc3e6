-------------------------------- MODULE Answers --------------------------------
(* What the configuration and the documents answer a command: a state is an  *)
(* input, and a step evaluates it.  The inputs are what the file system and  *)
(* the checks before can give; the bounded ones of MCAlgorithms are of them. *)
EXTENDS Config, Documents

VARIABLES input, answer

answerVars == <<input, answer>>
Unanswered == [of |-> "nothing"]

-------------------------------------------------------------------------------
(* Configuration.                                                            *)

\* A file with another key than its version has is one with unknown keys.
WellFormedConfig(d) ==
    \A base \in DOMAIN d.projects :
        LET project == d.projects[base]
        IN /\ IsFiniteSet(DOMAIN project.profiles)
           /\ ~project.unknown /\ project.version \in {2, 3} =>
                 /\ DOMAIN project.layer \subseteq ProjectKeys
                 /\ \A name \in DOMAIN project.profiles :
                       DOMAIN project.profiles[name] \subseteq ProfileKeys

\* asked: the profiles a command may be run under.
ConfigInput(i) ==
    /\ i.of = "config"
    /\ Unset \notin i.asked
    /\ {"project", "profile", "working", "env", "overrides"} \subseteq DOMAIN i.options
    /\ DOMAIN i.options.overrides \subseteq FlagKeys
    /\ WellFormedConfig(i.disk)

AnswerConfig ==
    /\ input.of = "config"
    /\ answer' = [of |-> "config",
                  resolved |-> [n \in {Unset} \cup input.asked |->
                      Resolve([input.options EXCEPT !.profile = n], input.disk)],
                  output |-> ResolveOutput(input.options, input.disk)]

ConfigInit == ConfigInput(input) /\ answer = Unanswered
ConfigNext == answer = Unanswered /\ AnswerConfig /\ UNCHANGED input
ConfigSpec == ConfigInit /\ [][ConfigNext]_answerVars

-------------------------------------------------------------------------------
(* Properties of the configuration.                                          *)

\* Whenever a command gets its settings, its result and its errors are
\* encoded by the format those settings name, although the format is settled
\* by itself, before them and by another reading of the files
\* (resolver.go: ResolveOutput and Resolve).
OutputAgrees ==
    answer.of = "config" /\ answer.resolved[Unset].ok =>
        answer.output = [ok |-> TRUE, format |-> answer.resolved[Unset].settings.format,
                         quiet |-> answer.resolved[Unset].settings.quiet]

\* The state file is neither a variable's nor a flag's.
StateLeftToFiles(o) == "state" \notin DOMAIN EnvironmentRuntimeLayer(o.env) \cup DOMAIN o.overrides

\* No two profiles a project can run under keep their state in one file,
\* whichever file names it and whatever link or spelling reaches it: a run
\* checks it for all profiles although it resolves only its own
\* (resolver.go: validateV2StatePaths).
ProfilesOwnTheirState ==
    (/\ answer.of = "config" /\ StateLeftToFiles(input.options)
     /\ ProjectDir(input.options, input.disk) # Unset) =>
        \A m, n \in input.asked :
            LET a == answer.resolved[m]  b == answer.resolved[n]
            IN (/\ m # n /\ a.ok /\ b.ok /\ a.settings.version # 1
                /\ NoPath \notin {a.settings.state, b.settings.state})
               => StateKey(input.disk, a.settings.state) # StateKey(input.disk, b.settings.state)

\* What two readings of the configuration settle apart agrees.
SettingsAgree == OutputAgrees /\ ProfilesOwnTheirState

-------------------------------------------------------------------------------
(* Documents.                                                                *)

\* The names of a path have a NFC form.
Named(d, path) == path \in Seq(STRING) /\ path \in Seq(DOMAIN d.normal)

\* A link says where it leads in one step: neither it nor what it leads to is
\* reached through a link.
LinksInOneStep(d) ==
    \A l, m \in DOMAIN d.links :
        /\ IsPrefix(m, l) => m = l
        /\ ~IsPrefix(m, d.links[l]) /\ ~IsPrefix(d.links[l], m)

\* A name in the wrong case is in the wrong case through a link, too.
MiscasedThroughLinks(d) ==
    \A l \in DOMAIN d.links, m \in d.miscased :
        IsPrefix(d.links[l], m) =>
            l \o SubSeq(m, Len(d.links[l]) + 1, Len(m)) \in d.miscased

WellFormedDisk(d) ==
    /\ \A n \in DOMAIN d.normal : /\ d.normal[n] \in DOMAIN d.normal
                                  /\ d.normal[d.normal[n]] = d.normal[n]
    /\ \A l \in DOMAIN d.links : Named(d, l) /\ d.links[l] \in Seq(STRING)
    /\ LinksInOneStep(d) /\ MiscasedThroughLinks(d)
    /\ \A f \in DOMAIN d.files :
          /\ Named(d, f) /\ Real(d, f) = f
          /\ \A link \in d.files[f].links : link.target \in Seq(STRING)

\* A root is a directory; a publication of one source has no members
\* (Config: ValidatePublication).
DocumentsInput(i) ==
    /\ i.of = "documents"
    /\ WellFormedDisk(i.disk)
    /\ i.roots \in Seq(Seq(STRING)) /\ i.roots # <<>>
    /\ \A n \in DOMAIN i.roots : /\ ~Exists(i.disk, i.roots[n])
                                 /\ ExternalPrefix(n) \in Seq(DOMAIN i.disk.normal)
    /\ \A s \in i.profile.sources : Named(i.disk, s)
    /\ \A id \in DOMAIN i.profile.publications :
          LET p == i.profile.publications[id]
          IN /\ p.kind \in {"source", "bundle"}
             /\ p.members \in Seq(Seq(STRING))
             /\ p.kind = "source" => p.members = <<>>

AnswerDocuments ==
    /\ input.of = "documents"
    /\ \E selected \in {SelectSources(input.disk, input.roots, input.profile)} :
       \E graph \in {GraphOf(input.disk, input.roots, input.profile, selected.sources)} :
          answer' = [of |-> "documents", ok |-> selected.ok, sources |-> selected.sources,
                     graph |-> graph,
                     legacy |-> ResolvePublications(input.disk, graph, 2, input.profile),
                     set |-> ResolvePublications(input.disk, graph, 3, input.profile)]

DocumentsInit == DocumentsInput(input) /\ answer = Unanswered
DocumentsNext == answer = Unanswered /\ AnswerDocuments /\ UNCHANGED input
DocumentsSpec == DocumentsInit /\ [][DocumentsNext]_answerVars

-------------------------------------------------------------------------------
(* Properties of the documents.                                              *)

\* The paths a disk has or its documents link to.
PathsOf(d) ==
    DOMAIN d.files \cup DOMAIN d.links \cup d.miscased
    \cup {link.target : link \in UNION {d.files[f].links : f \in DOMAIN d.files}}

\* A selection that is accepted gives every file one key and every key one
\* file inside the approved roots, and both the key and any path of the file
\* lead back to it (select.go).
KeysNameFiles ==
    answer.of = "documents" /\ answer.ok =>
        \A s \in answer.sources :
            /\ ContainingRoot(input.disk, input.roots, s.path) > 0
            /\ \A t \in answer.sources :
                  s # t => s.key # t.key /\ Real(input.disk, s.path) # Real(input.disk, t.path)
            /\ ResolveSelectedSourceKey(input.disk, input.roots[1], answer.sources, s.key, FALSE) = s.key
            /\ \A p \in PathsOf(input.disk) : Real(input.disk, p) = Real(input.disk, s.path) =>
                  ResolveSelectedSourceKey(input.disk, input.roots[1], answer.sources, p, TRUE) = s.key

\* A local link leads to the document of the file it names, under whatever
\* path, and to no other; and one that validation has nothing to say about
\* leads to a document (discover.go: validateLink and ResolveTarget).
LinksFindDocuments ==
    answer.of = "documents" =>
        LET documents == answer.graph.documents
            fileOf(key) == Real(input.disk, documents[key].path)
        IN \A key \in DOMAIN documents : \A link \in documents[key].source.links :
              LET found == ResolveTarget(input.disk, answer.graph, link)
                  named == Real(input.disk, link.target)
              IN /\ link.kind \in {"local", "image"} =>
                       {k \in DOMAIN documents : fileOf(k) = named} = {found} \ {NoKey}
                 /\ (/\ link.kind = "local" /\ named \in DOMAIN input.disk.files
                     /\ input.disk.files[named].markdown
                     /\ ValidateLink(input.disk, answer.graph, documents[key], link, "error") = {})
                    => found # NoKey

\* Sources are found by their keys and by the links to them.
DocumentsFound == KeysNameFiles /\ LinksFindDocuments

PathsOfPublication(p) == IF p.kind = "source" THEN <<p.source>> ELSE p.members

PublicationComplete(d, graph, item, p) ==
    LET paths == PathsOfPublication(p)
    IN /\ [i \in DOMAIN item.members |-> Real(d, graph.documents[item.members[i]].path)]
          = [i \in DOMAIN paths |-> Real(d, paths[i])]
       /\ IsInjective(item.members)
       /\ item.references \cup Range(item.contents) \subseteq Range(item.members)

\* A publication without an issue has exactly the documents its configuration
\* names, in that order and each once, and its references and its table of
\* contents select among them (publication.go).
PublicationsComplete ==
    answer.of = "documents" /\ answer.set.issues = {} =>
        /\ answer.set.entry \in DOMAIN answer.set.items
        /\ \A id \in DOMAIN answer.set.items :
              PublicationComplete(input.disk, answer.graph, answer.set.items[id],
                                  input.profile.publications[id])
===============================================================================
