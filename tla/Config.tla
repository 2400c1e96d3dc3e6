-------------------------------- MODULE Config --------------------------------
(* internal/config: how the configuration files, the environment and the     *)
(* flags become the settings of one command.  Pure operators.                *)
(*                                                                           *)
(* A path is [dir, name]; dir = "" is a relative path, and a path that the   *)
(* code rejects because it leaves the directory of its file is an absolute   *)
(* one here.  A layer is a record of the settings a source gives, the nested *)
(* YAML keys flattened and shortened:                                        *)
(*   format, quiet (of output); root; pandoc; version; include, exclude,     *)
(*   external (of sources); entry; reference, filters, roots (of style);     *)
(*   staging, review (folder names of destination); max; state (state_file); *)
(*   publications.                                                           *)
(* The disk d is a record: global and projects (the configuration files),    *)
(* above (a directory and its parents, nearest first), links (what a         *)
(* symbolic link leads to), files (the Lua filters that exist) and lower     *)
(* (the lower-case form of a name).                                          *)
(* A value that is present and null is left out of the layers.               *)
EXTENDS Integers, Sequences, FiniteSets, SequencesExt

\* What is not given: a name, a directory, a setting.
Unset == ""
NoPath == [dir |-> Unset, name |-> Unset]
Root(dir) == [dir |-> dir, name |-> "."]
IsAbs(p) == p.dir # Unset

ResolveValuePath(p, base) ==
    IF p = NoPath \/ IsAbs(p) \/ base = Unset THEN p ELSE [p EXCEPT !.dir = base]

\* The file a path leads to; what does not exist stays under its directory.
CanonicalConfigPath(d, p) == IF p \in DOMAIN d.links THEN d.links[p] ELSE p

\* The key under which a state file is owned: NFC and lower case.
StateKey(d, p) ==
    LET real == CanonicalConfigPath(d, p) IN [real EXCEPT !.name = d.lower[real.name]]

PathWithinAny(d, dirs, p) == \E dir \in dirs : dir \in Range(d.above[p.dir])

-------------------------------------------------------------------------------
(* The sources of settings.                                                  *)

DefaultRuntimeLayer ==
    [version |-> 2, root |-> [dir |-> Unset, name |-> "."], pandoc |-> "pandoc",
     format |-> "human", quiet |-> FALSE,
     include |-> <<>>, exclude |-> <<>>, external |-> <<>>,
     entry |-> NoPath, reference |-> NoPath, filters |-> <<>>, roots |-> <<>>,
     staging |-> "Documents Staging", review |-> "Documents Review",
     max |-> 5, state |-> NoPath, publications |-> <<>>]

NormalizeV1Profile(p) ==
    [include |-> p.sources, exclude |-> <<>>, external |-> <<>>,
     entry |-> p.entry, reference |-> p.reference, filters |-> <<>>, roots |-> <<>>,
     staging |-> p.staging, review |-> p.review,
     max |-> IF p.max = 0 THEN 5 ELSE p.max, state |-> p.state]

\* The keys each part of a file and the flags can give (schema.go, cli.go).
ProfileKeys ==
    {"include", "exclude", "external", "entry", "reference", "filters", "roots",
     "staging", "review", "max", "state", "publications"}
ProjectKeys == {"root", "pandoc", "format", "quiet"}
FlagKeys ==
    {"root", "include", "entry", "reference", "state", "pandoc", "format", "quiet",
     "staging", "review"}

EnvironmentKey ==
    [MDOC_PANDOC_BINARY |-> "pandoc", MDOC_ROOT |-> "root",
     MDOC_OUTPUT_FORMAT |-> "format", MDOC_OUTPUT_QUIET |-> "quiet",
     MDOC_ENTRY |-> "entry", MDOC_REFERENCE_DOCX |-> "reference",
     MDOC_STATE_FILE |-> "state", MDOC_MAX_TABLE_COLUMNS |-> "max",
     MDOC_SOURCES |-> "include", MDOC_EXCLUDES |-> "exclude", MDOC_FILTERS |-> "filters"]

\* A variable is [ok, value]: ok is whether its text parses.
EnvironmentRuntimeLayer(env) ==
    LET vars == DOMAIN env \cap DOMAIN EnvironmentKey
    IN [key \in {EnvironmentKey[v] : v \in vars} |->
          env[CHOOSE v \in vars : EnvironmentKey[v] = key].value]

EnvironmentParses(env) ==
    \A v \in DOMAIN env \cap DOMAIN EnvironmentKey : env[v].ok

\* Layers are [base, layer], the weakest first, and the first has every key.
LastGiving(layers, key) == layers[Max({i \in DOMAIN layers : key \in DOMAIN layers[i].layer})]
Merge(layers) ==
    [key \in UNION {DOMAIN layers[i].layer : i \in DOMAIN layers} |->
        LastGiving(layers, key).layer[key]]
OriginBase(layers, key) == LastGiving(layers, key).base

DefaultsAt(base) == [base |-> base, layer |-> DefaultRuntimeLayer]
GlobalRuntimeLayer(d) ==
    [base |-> d.global.dir, layer |-> IF d.global.found THEN d.global.layer ELSE <<>>]
EnvironmentAt(base, env) == [base |-> base, layer |-> EnvironmentRuntimeLayer(env)]

\* What a project gives under one of its profiles, a layer for each part.
ProjectRuntimeLayer(project, name, base) ==
    <<[base |-> base, layer |-> IF project.version = 1 THEN <<>> ELSE project.layer],
      [base |-> base, layer |-> IF project.version = 1
                                THEN NormalizeV1Profile(project.profiles[name])
                                ELSE project.profiles[name]],
      [base |-> base, layer |-> [version |-> project.version]]>>

-------------------------------------------------------------------------------
(* Publications of a version 3 profile: a function from IDs to records.      *)

MemberStarts == {Unset, "continuous", "after_cover", "new_page", "odd_page", "new_section"}
TitleModes == {Unset, "document_title", "heading_1", "heading_2", "heading_3", "heading_4",
               "heading_5", "heading_6", "keep", "remove"}

ValidateConfigPath(p, relative) == p # NoPath /\ (relative => ~IsAbs(p))

ValidateMember(m, relative) ==
    /\ ValidateConfigPath(m.source, relative)
    /\ m.start \in MemberStarts
    /\ m.title \in TitleModes
    /\ m.adjustment \in -5..5

\* pattern: "good", "empty" (it can match the empty string) or "bad".
ValidateReferenceLink(r, relative) ==
    /\ r.id # Unset
    /\ r.pattern = "good"
    /\ ValidateConfigPath(r.source, relative)
    /\ r.match = "heading_prefix"
    /\ r.unresolved \in {"error", "warning", "preserve"}

ValidateTOC(toc) ==
    /\ toc.mode \in {Unset, "static"}
    /\ toc.depth \in (IF toc.enabled THEN 1..6 ELSE 0..6)
    /\ IsInjective([i \in DOMAIN toc.members |-> toc.members[i].source])
    /\ \A i \in DOMAIN toc.members :
          /\ toc.members[i].depth \in 0..6
          /\ IsInjective(toc.members[i].include) /\ IsInjective(toc.members[i].exclude)
          /\ Range(toc.members[i].include) \cap Range(toc.members[i].exclude) = {}

HasTOCSettings(toc) == toc.enabled \/ toc.mode # Unset \/ toc.depth # 0 \/ toc.members # <<>>

ValidatePublication(p, relative) ==
    /\ p.kind \in {"source", "bundle"}
    /\ p.fields \cap {"mdoc", "page"} = {}
    /\ \A i \in DOMAIN p.fieldFiles : ValidateConfigPath(p.fieldFiles[i], relative)
    /\ p.fragments \in {Unset, "error", "warning_root", "preserve"}
    /\ \A i \in DOMAIN p.references : ValidateReferenceLink(p.references[i], relative)
    /\ IsInjective([i \in DOMAIN p.references |-> p.references[i].id])
    /\ p.kind = "source" =>
          /\ ValidateConfigPath(p.source, relative)
          /\ p.members = <<>> /\ p.references = <<>> /\ ~HasTOCSettings(p.toc)
    /\ p.kind = "bundle" =>
          /\ p.source = NoPath /\ p.members # <<>>
          /\ \A i \in DOMAIN p.members : ValidateMember(p.members[i], relative)
    /\ \A i \in DOMAIN p.toc.members : ValidateConfigPath(p.toc.members[i].source, relative)
    /\ ValidateTOC(p.toc)

\* The entry of a version 3 profile is the ID of a publication.
ValidateVersion3Profile(publications, entry, relative) ==
    /\ publications # <<>>
    /\ entry.name \in DOMAIN publications
    /\ \A id \in DOMAIN publications : ValidatePublication(publications[id], relative)

\* Only a source directly under the publication has an origin of its own;
\* the paths inside its lists belong to the project file.
ResolvePublicationPaths(p, origin, projectBase) ==
    LET inList(s) == [i \in DOMAIN s |->
                        [s[i] EXCEPT !.source = ResolveValuePath(@, projectBase)]]
    IN [p EXCEPT
          !.source = ResolveValuePath(@, IF origin = Unset THEN projectBase ELSE origin),
          !.members = inList(@), !.references = inList(@), !.toc.members = inList(@),
          !.fieldFiles = [i \in DOMAIN @ |-> ResolveValuePath(@[i], projectBase)]]

-------------------------------------------------------------------------------
(* Reading the files.                                                        *)

\* config.go: the checks of a version 1 project, its state files by name.
ValidV1(d, profiles) ==
    /\ \A n \in DOMAIN profiles : LET p == profiles[n] IN
          /\ p.sources # <<>>
          /\ \A path \in Range(p.sources) \cup {p.entry, p.reference} :
                path # NoPath /\ ~IsAbs(path)
          /\ p.review # Unset /\ p.staging # Unset /\ p.review # p.staging
          /\ p.max >= 0 /\ ~IsAbs(p.state)
    /\ LET stated == {n \in DOMAIN profiles : profiles[n].state # NoPath}
       IN IsInjective([n \in stated |-> d.lower[profiles[n].state.name]])

\* unknown: the file has a key its version does not define, or a second
\* document; named: its IDs and profile names are well formed.
ReadProject(d, project) ==
    /\ ~project.unknown /\ project.named
    /\ project.profiles # <<>>
    /\ \/ project.version = 1 /\ ValidV1(d, project.profiles)
       \/ project.version = 2
       \/ /\ project.version = 3
          /\ \A n \in DOMAIN project.profiles :
                LET p == project.profiles[n]
                IN /\ {"publications", "entry"} \subseteq DOMAIN p
                   /\ ValidateVersion3Profile(p.publications, p.entry, TRUE)

ReadGlobal(d) == d.global.found => ~d.global.unknown /\ d.global.version = 1

\* The first profile that is named decides, known or not; "" is an error.
SelectRuntimeProfile(asked, names) ==
    LET named == {i \in DOMAIN asked : asked[i] # Unset}
    IN IF named # {}
       THEN IF asked[Min(named)] \in names THEN asked[Min(named)] ELSE Unset
       ELSE IF Cardinality(names) = 1 THEN CHOOSE n \in names : TRUE ELSE Unset

\* The directory whose .mdoc.yaml is used; "" when there is none.
DiscoverProject(d, start) ==
    LET holding == SelectSeq(d.above[start], LAMBDA dir : dir \in DOMAIN d.projects)
    IN IF holding = <<>> THEN Unset ELSE holding[1]

ProjectDir(o, d) == IF o.project # Unset THEN o.project ELSE DiscoverProject(d, o.working)

-------------------------------------------------------------------------------
(* The settings of a command.                                                *)

\* The key of a source in an external root is no path; "external" stands for
\* one.
IsExternalSourceKey(p) == p = [dir |-> Unset, name |-> "external"]

ResolveRuntimePaths(layers, projectBase) ==
    LET v == Merge(layers)
        at(key) == ResolveValuePath(v[key], OriginBase(layers, key))
        each(key) == [i \in DOMAIN v[key] |-> ResolveValuePath(v[key][i], OriginBase(layers, key))]
    IN [v EXCEPT
          !.root = at("root"), !.reference = at("reference"), !.state = at("state"),
          !.entry = IF v.version = 3 \/ IsExternalSourceKey(@) THEN @ ELSE at("entry"),
          !.include = each("include"), !.exclude = each("exclude"),
          !.external = each("external"), !.filters = each("filters"), !.roots = each("roots"),
          !.publications = [id \in DOMAIN @ |->
              ResolvePublicationPaths(@[id], OriginBase(layers, "publications"), projectBase)]]

CheckedState_Project(d, project, projectBase, selected, value, name) ==
    IF name = selected THEN value
    ELSE IF "state" \in DOMAIN project.profiles[name]
         THEN ResolveValuePath(project.profiles[name].state, projectBase) ELSE NoPath

\* The state file the duplicate check gives a profile: the selected one has
\* the resolved value, the others what the two files say.
CheckedState(d, project, projectBase, selected, value, name) ==
    IF name = selected THEN value
    ELSE IF "state" \in DOMAIN project.profiles[name]
         THEN ResolveValuePath(project.profiles[name].state, projectBase)
         ELSE IF d.global.found /\ "state" \in DOMAIN d.global.layer
              THEN ResolveValuePath(d.global.layer.state, d.global.dir)
              ELSE NoPath

ValidateV2StatePaths(d, project, projectBase, selected, value) ==
    LET state(n) == CheckedState(d, project, projectBase, selected, value, n)
        stated == {n \in DOMAIN project.profiles : state(n) # NoPath}
    IN IsInjective([n \in stated |-> StateKey(d, state(n))])

ValidateStylePaths(d, v) ==
    v.reference # NoPath \/ v.filters # <<>> =>
        LET allowed == {v.root.dir} \cup {r.dir : r \in Range(v.roots)}
                       \cup (IF d.global.found THEN {d.global.dir} ELSE {})
            inside(p) == PathWithinAny(d, allowed, CanonicalConfigPath(d, p))
        IN /\ v.reference # NoPath => inside(v.reference)
           /\ \A f \in Range(v.filters) : f \in d.files /\ inside(f)

Validate(v) ==
    /\ v.version \in 1..3
    /\ v.root # NoPath /\ v.pandoc # Unset
    /\ v.format \in {"human", "json"}
    /\ v.staging # Unset /\ v.review # Unset /\ v.staging # v.review
    /\ v.max >= 0
    /\ v.version = 3 => ValidateVersion3Profile(v.publications, v.entry, FALSE)

Failed == [ok |-> FALSE]
Accepted(name, v) == [ok |-> TRUE, profile |-> name, settings |-> v]

\* A command with sources on its command line and no project.
DirectRoot(o) ==
    IF o.root = NoPath THEN Root(o.working) ELSE ResolveValuePath(o.root, o.working)
Given(o, layer) == [base |-> DirectRoot(o).dir, layer |-> layer]
SourcesGiven(o) == IF o.sources # <<>> THEN [include |-> o.sources] ELSE <<>>
EntryGiven(o) == IF o.entry # NoPath THEN [entry |-> o.entry] ELSE <<>>

DirectLayers(o, d) ==
    <<DefaultsAt(o.working), GlobalRuntimeLayer(d), EnvironmentAt(o.working, o.env),
      Given(o, o.overrides), Given(o, [root |-> DirectRoot(o)]),
      Given(o, SourcesGiven(o)), Given(o, EntryGiven(o))>>

ResolveDirect(o, d) ==
    LET v == ResolveRuntimePaths(DirectLayers(o, d), Unset)
    IN IF ReadGlobal(d) /\ EnvironmentParses(o.env) /\ ValidateStylePaths(d, v) /\ Validate(v)
       THEN Accepted("direct", v) ELSE Failed

SelectedProfile(o, d, project) ==
    SelectRuntimeProfile(
        <<o.profile, o.env.MDOC_PROFILE.value, project.default,
          IF d.global.found THEN d.global.default ELSE Unset>>,
        DOMAIN project.profiles)

ProjectLayers(o, d, base, name) ==
    LET project == ProjectRuntimeLayer(d.projects[base], name, base)
    IN <<DefaultsAt(base), GlobalRuntimeLayer(d), project[1], project[2], project[3],
         EnvironmentAt(o.working, o.env), [base |-> o.working, layer |-> o.overrides]>>

ResolveProject(o, d, base) ==
    LET project == d.projects[base]
        name == SelectedProfile(o, d, project)
        v == ResolveRuntimePaths(ProjectLayers(o, d, base, name), base)
    IN IF ~ReadProject(d, project) \/ ~ReadGlobal(d) \/ name = Unset \/ ~EnvironmentParses(o.env)
       THEN Failed
       ELSE IF /\ project.version \in {2, 3} =>
                     ValidateV2StatePaths(d, project, base, name, v.state)
               /\ ValidateStylePaths(d, v) /\ Validate(v)
            THEN Accepted(name, v) ELSE Failed

Resolve(o, d) ==
    LET base == ProjectDir(o, d)
    IN IF base = Unset
       THEN IF o.allowMissing THEN ResolveDirect(o, d) ELSE Failed
       ELSE IF base \in DOMAIN d.projects THEN ResolveProject(o, d, base) ELSE Failed

\* Encoding of results and errors is settled apart, before and without the
\* profile: unknown keys and versions are not looked at.
OutputLayers(o, d) ==
    LET base == ProjectDir(o, d)
        project == IF base # Unset /\ d.projects[base].version \in {2, 3}
                   THEN d.projects[base].layer ELSE <<>>
    IN <<[base |-> base, layer |-> [format |-> "human", quiet |-> FALSE]], GlobalRuntimeLayer(d),
         [base |-> base, layer |-> project],
         EnvironmentAt(o.working, o.env), [base |-> o.working, layer |-> o.overrides]>>

ResolveOutput(o, d) ==
    LET merged == Merge(OutputLayers(o, d))
        quiet == "MDOC_OUTPUT_QUIET"
    IN IF /\ ProjectDir(o, d) \in {Unset} \cup DOMAIN d.projects
          /\ quiet \in DOMAIN o.env => o.env[quiet].ok
          /\ merged.format \in {"human", "json"}
       THEN [ok |-> TRUE, format |-> merged.format, quiet |-> merged.quiet]
       ELSE Failed
===============================================================================
