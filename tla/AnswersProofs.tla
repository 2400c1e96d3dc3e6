---------------------------- MODULE AnswersProofs ----------------------------
(***************************************************************************)
(* Proofs that what the configuration and the documents answer agrees, for *)
(* any well formed input: any number of profiles, roots, sources, links    *)
(* and publications.                                                       *)
(*                                                                         *)
(* A state is an input and its answer, so the invariant only says that the *)
(* answer is the one of the input; the work is in the lemmas about the     *)
(* operators that make it.                                                 *)
(***************************************************************************)
EXTENDS Answers, FiniteSetTheorems, SequenceTheorems, WellFoundedInduction, TLAPS

-----------------------------------------------------------------------------
(* Least and greatest numbers *)

Smaller == {p \in Nat \X Nat : p[1] < p[2]}

\* The natural numbers are well founded.
LEMMA SmallerWellFounded == IsWellFoundedOn(Smaller, Nat)
BY NatLessThanWellFounded, Zenon DEF OpToRel, Smaller

\* A set of natural numbers has a least one.
LEMMA MinInside ==
    ASSUME NEW S, S \subseteq Nat, S # {}
    PROVE  Min(S) \in S /\ \A y \in S : Min(S) <= y
<1>1. \A x, y \in Nat : y < x => <<y, x>> \in Smaller
  BY DEF Smaller
<1>2. PICK x \in S : \A y \in S : ~(<<y, x>> \in Smaller)
  BY SmallerWellFounded, WFMin
<1>3. ASSUME NEW y \in S PROVE x <= y
  <2>1. x \in Nat /\ y \in Nat /\ ~(<<y, x>> \in Smaller)
    BY <1>2, <1>3
  <2>2. ~(y < x)
    BY <1>1, <2>1
  <2>3. QED BY <2>1, <2>2
<1>4. QED BY <1>2, <1>3 DEF Min

-----------------------------------------------------------------------------
(* Paths and links *)

\* Where a link does not reach, a path is what it leads to; where one does,
\* that is its end and the rest of the path.
LEMMA RealCases ==
    ASSUME NEW d, NEW path
    PROVE  \/ /\ Real(d, path) = path
              /\ \A l \in DOMAIN d.links : ~IsPrefix(l, path)
           \/ \E l \in DOMAIN d.links :
                 /\ IsPrefix(l, path)
                 /\ Real(d, path) = d.links[l] \o SubSeq(path, Len(l) + 1, Len(path))
<1> DEFINE through == {l \in DOMAIN d.links : IsPrefix(l, path)}
<1>1. CASE through = {}
  BY <1>1 DEF Real
<1>2. CASE through # {}
  <2> DEFINE l == CHOOSE x \in through : TRUE
  <2>1. l \in through
    BY <1>2
  <2>2. Real(d, path) = d.links[l] \o SubSeq(path, Len(l) + 1, Len(path))
    BY <1>2 DEF Real
  <2>3. QED BY <2>1, <2>2
<1>3. QED BY <1>1, <1>2

\* A sequence begins with all of another one or with a part of it.
LEMMA PrefixOfJoined ==
    ASSUME NEW m \in Seq(STRING), NEW s \in Seq(STRING), NEW t \in Seq(STRING),
           IsPrefix(m, s \o t)
    PROVE  IsPrefix(m, s) \/ IsPrefix(s, m)
<1>1. CASE Len(m) <= Len(s)
  BY <1>1 DEF IsPrefix
<1>2. CASE Len(m) > Len(s)
  BY <1>2 DEF IsPrefix
<1>3. QED BY <1>1, <1>2

\* What a path leads to leads to itself.
LEMMA RealIsReal ==
    ASSUME NEW d, WellFormedDisk(d), NEW path \in Seq(STRING)
    PROVE  Real(d, Real(d, path)) = Real(d, path)
<1>1. CASE Real(d, path) = path
  BY <1>1
<1>2. ASSUME NEW l \in DOMAIN d.links, IsPrefix(l, path),
             Real(d, path) = d.links[l] \o SubSeq(path, Len(l) + 1, Len(path))
      PROVE  Real(d, Real(d, path)) = Real(d, path)
  <2> DEFINE rest == SubSeq(path, Len(l) + 1, Len(path))
             real == d.links[l] \o rest
  <2>1. l \in Seq(STRING) /\ d.links[l] \in Seq(STRING)
    BY DEF WellFormedDisk, Named
  <2>2. rest \in Seq(STRING)
    BY <2>1
  <2>3. ASSUME NEW m \in DOMAIN d.links, IsPrefix(m, real) PROVE FALSE
    <3>1. m \in Seq(STRING)
      BY DEF WellFormedDisk, Named
    <3>2. IsPrefix(m, d.links[l]) \/ IsPrefix(d.links[l], m)
      BY <2>1, <2>2, <2>3, <3>1, PrefixOfJoined
    <3>3. QED BY <3>2 DEF WellFormedDisk, LinksInOneStep
  <2>4. Real(d, real) = real
    BY <2>3, RealCases
  <2>5. QED BY <1>2, <2>4
<1>3. QED BY <1>1, <1>2, RealCases

\* A path is its beginning and the rest.
LEMMA PrefixAndRest ==
    ASSUME NEW s \in Seq(STRING), NEW t \in Seq(STRING), IsPrefix(s, t)
    PROVE  s \o SubSeq(t, Len(s) + 1, Len(t)) = t
<1> DEFINE rest == SubSeq(t, Len(s) + 1, Len(t))
<1>1. Len(s) <= Len(t) /\ \A n \in 1..Len(s) : s[n] = t[n]
  <2>1. Len(s) <= Len(t) /\ SubSeq(s, 1, Len(s)) = SubSeq(t, 1, Len(s))
    BY DEF IsPrefix
  <2>2. \A n \in 1..Len(s) : SubSeq(s, 1, Len(s))[n] = s[n] /\ SubSeq(t, 1, Len(s))[n] = t[n]
    BY <2>1
  <2>3. QED BY <2>1, <2>2
<1>2. rest \in Seq(STRING) /\ Len(rest) = Len(t) - Len(s)
      /\ \A n \in 1..Len(rest) : rest[n] = t[Len(s) + n]
  BY <1>1
<1> HIDE DEF rest
<1>3. s \o rest \in Seq(STRING) /\ Len(s \o rest) = Len(t)
  BY <1>1, <1>2
<1>4. ASSUME NEW n \in 1..Len(t) PROVE (s \o rest)[n] = t[n]
  <2>1. CASE n <= Len(s)
    <3>1. n \in 1..Len(s)
      BY <2>1
    <3>2. (s \o rest)[n] = s[n]
      BY <1>2, <3>1
    <3>3. QED BY <1>1, <3>1, <3>2
  <2>2. CASE n > Len(s)
    <3>1. n - Len(s) \in 1..Len(rest) /\ Len(s) + (n - Len(s)) = n
      BY <1>2, <2>2
    <3>2. (s \o rest)[n] = rest[n - Len(s)]
      BY <1>2, <2>2, <3>1
    <3>3. QED BY <1>2, <3>1, <3>2
  <2>3. n \in Nat /\ Len(s) \in Nat
    OBVIOUS
  <2>4. n <= Len(s) \/ n > Len(s)
    BY <2>3
  <2>5. QED BY <2>1, <2>2, <2>4
<1>5. QED BY <1>3, <1>4, SeqEqual DEF rest

\* What is joined comes apart again.
LEMMA JoinedAgain ==
    ASSUME NEW s \in Seq(STRING), NEW t \in Seq(STRING)
    PROVE  IsPrefix(s, s \o t) /\ SubSeq(s \o t, Len(s) + 1, Len(s \o t)) = t
<1>1. s \o t \in Seq(STRING) /\ Len(s \o t) = Len(s) + Len(t)
  OBVIOUS
<1>2. IsPrefix(s, s \o t)
  BY DEF IsPrefix
<1>3. SubSeq(s \o t, Len(s) + 1, Len(s \o t)) = t
  OBVIOUS
<1>4. QED BY <1>2, <1>3

-----------------------------------------------------------------------------
(* Sources and their keys *)

\* A link is what it leads to.
LEMMA LinkItself ==
    ASSUME NEW d, WellFormedDisk(d), NEW l \in DOMAIN d.links
    PROVE  Real(d, l) = d.links[l]
<1>1. l \in Seq(STRING) /\ d.links[l] \in Seq(STRING)
  BY DEF WellFormedDisk, Named
<1>2. IsPrefix(l, l)
  BY <1>1 DEF IsPrefix
<1>3. PICK m \in DOMAIN d.links :
         IsPrefix(m, l) /\ Real(d, l) = d.links[m] \o SubSeq(l, Len(m) + 1, Len(l))
  BY <1>2, RealCases
<1>4. m = l
  BY <1>3 DEF WellFormedDisk, LinksInOneStep
<1>5. SubSeq(l, Len(l) + 1, Len(l)) = <<>>
  BY <1>1
<1>6. QED BY <1>1, <1>3, <1>4, <1>5

\* A candidate exists and its names have a normal form.
LEMMA CandidateExists ==
    ASSUME NEW i, DocumentsInput(i), NEW c \in Candidates(i.disk, i.profile)
    PROVE  Exists(i.disk, c) /\ Named(i.disk, c)
<1> DEFINE d == i.disk
<1>1. PICK s \in i.profile.sources : c \in ExpandSource(d, s)
  BY DEF Candidates
<1>2. WellFormedDisk(d) /\ Named(d, s)
  BY DEF DocumentsInput
<1>3. CASE Exists(d, s)
  BY <1>1, <1>2, <1>3 DEF ExpandSource
<1>4. CASE ~Exists(d, s)
  <2>1. \/ c \in DOMAIN d.files
        \/ c \in DOMAIN d.links /\ d.links[c] \in DOMAIN d.files
    BY <1>1, <1>4 DEF ExpandSource
  <2>2. CASE c \in DOMAIN d.files
    BY <1>2, <2>2 DEF WellFormedDisk, Exists
  <2>3. CASE c \in DOMAIN d.links /\ d.links[c] \in DOMAIN d.files
    BY <1>2, <2>3, LinkItself DEF WellFormedDisk, Exists
  <2>4. QED BY <2>1, <2>2, <2>3
<1>5. QED BY <1>3, <1>4

\* A normal form is its own.
LEMMA NormalizeTwice ==
    ASSUME NEW d, WellFormedDisk(d), NEW names \in Seq(DOMAIN d.normal)
    PROVE  Normalize(d, Normalize(d, names)) = Normalize(d, names)
<1>1. \A n \in DOMAIN names : names[n] \in DOMAIN d.normal
  OBVIOUS
<1>2. \A n \in DOMAIN d.normal : d.normal[d.normal[n]] = d.normal[n]
  BY DEF WellFormedDisk
<1>3. DOMAIN Normalize(d, names) = DOMAIN names
      /\ \A n \in DOMAIN names : Normalize(d, names)[n] = d.normal[names[n]]
  BY DEF Normalize
<1>4. \A n \in DOMAIN names : d.normal[Normalize(d, names)[n]] = Normalize(d, names)[n]
  BY <1>1, <1>2, <1>3
<1>5. QED BY <1>3, <1>4 DEF Normalize

\* A root that holds the file is found.
LEMMA RootFound ==
    ASSUME NEW d, NEW roots \in Seq(Seq(STRING)), NEW path, ContainingRoot(d, roots, path) > 0
    PROVE  ContainingRoot(d, roots, path) \in DOMAIN roots
<1> DEFINE holding == {i \in DOMAIN roots : Within(Real(d, roots[i]), Real(d, path))}
<1>1. holding \subseteq Nat
  OBVIOUS
<1>2. CASE holding = {}
  BY <1>2 DEF ContainingRoot
<1>3. CASE holding # {}
  BY <1>1, <1>3, MinInside DEF ContainingRoot
<1>4. QED BY <1>2, <1>3

\* What is below a directory is the rest of the path.
LEMMA BelowPath ==
    ASSUME NEW S, NEW root \in Seq(STRING), NEW path \in Seq(S), Len(root) < Len(path)
    PROVE  Below(root, path) \in Seq(S) /\ Len(Below(root, path)) = Len(path) - Len(root)
<1>1. Len(root) + 1 \in 1..Len(path)
  OBVIOUS
<1>2. SubSeq(path, Len(root) + 1, Len(path)) \in Seq(S)
  BY <1>1
<1>3. QED BY <1>1, <1>2 DEF Below

\* A path that ends with names is not empty.
LEMMA JoinedPath ==
    ASSUME NEW S, NEW s \in Seq(S), NEW t \in Seq(S), Len(t) > 0
    PROVE  s \o t \in Seq(S) /\ Len(s \o t) > 0
OBVIOUS

\* The key of a candidate inside a root is not empty and in normal form.
LEMMA KeyNormal ==
    ASSUME NEW i, DocumentsInput(i), NEW c \in Candidates(i.disk, i.profile),
           ValidCandidate(i.disk, i.roots, c)
    PROVE  /\ SelectedSourceKey(i.disk, i.roots, c) # NoKey
           /\ Normalize(i.disk, SelectedSourceKey(i.disk, i.roots, c))
              = SelectedSourceKey(i.disk, i.roots, c)
<1> DEFINE d == i.disk
           n == ContainingRoot(d, i.roots, c)
           root == i.roots[n]
           below == Below(root, c)
           names == ExternalPrefix(n) \o below
<1>1. /\ WellFormedDisk(d) /\ i.roots \in Seq(Seq(STRING))
      /\ \A m \in DOMAIN i.roots : /\ ~Exists(d, i.roots[m])
                                   /\ ExternalPrefix(m) \in Seq(DOMAIN d.normal)
  BY DEF DocumentsInput
<1>2. n > 0 /\ IsPrefix(root, c)
  BY DEF ValidCandidate, CaseMatches, Within
<1>3. n \in DOMAIN i.roots
  BY <1>1, <1>2, RootFound
<1>4. root \in Seq(STRING) /\ root # c
  <2>1. ~Exists(d, root) /\ Exists(d, c)
    BY <1>1, <1>3, CandidateExists
  <2>2. QED BY <1>1, <1>3, <2>1
<1>5. c \in Seq(STRING) /\ c \in Seq(DOMAIN d.normal)
  BY CandidateExists DEF Named
<1>6. Len(root) < Len(c)
  <2>1. SUFFICES ASSUME Len(root) = Len(c) PROVE FALSE
    BY <1>2, <1>4, <1>5 DEF IsPrefix
  <2>2. SubSeq(root, 1, Len(root)) = root /\ SubSeq(c, 1, Len(c)) = c
    BY <1>4, <1>5
  <2>3. QED BY <1>2, <1>4, <2>1, <2>2 DEF IsPrefix
<1>7. below \in Seq(DOMAIN d.normal) /\ Len(below) = Len(c) - Len(root)
  BY <1>4, <1>5, <1>6, BelowPath
<1>8. ExternalPrefix(n) \in Seq(DOMAIN d.normal)
  BY <1>1, <1>3
<1>9. names \in Seq(DOMAIN d.normal) /\ Len(names) > 0
  <2>1. Len(below) > 0
    BY <1>4, <1>5, <1>6, <1>7
  <2>2. QED BY <1>7, <1>8, <2>1, JoinedPath
<1>10. SelectedSourceKey(d, i.roots, c) = Normalize(d, names)
  BY DEF SelectedSourceKey
<1>11. Normalize(d, names) # <<>>
  <2>1. 1 \in DOMAIN names
    BY <1>9
  <2>2. 1 \in DOMAIN Normalize(d, names)
    BY <2>1 DEF Normalize
  <2>3. 1 \notin DOMAIN <<>>
    OBVIOUS
  <2>4. QED BY <2>2, <2>3
<1>12. QED BY <1>1, <1>9, <1>10, <1>11, NormalizeTwice DEF NoKey

Selected(i) == SelectSources(i.disk, i.roots, i.profile)

\* A selected source is a candidate under its key, and another one has
\* another file and another key.
LEMMA SourcesApart ==
    ASSUME NEW i, NEW s \in Selected(i).sources
    PROVE  /\ s.path \in Candidates(i.disk, i.profile)
           /\ ValidCandidate(i.disk, i.roots, s.path)
           /\ s.key = SelectedSourceKey(i.disk, i.roots, s.path)
           /\ \A t \in Selected(i).sources :
                 (s.key = t.key \/ Real(i.disk, s.path) = Real(i.disk, t.path)) => s = t
<1> DEFINE d == i.disk
           chosen == Candidates(d, i.profile)
           FileAt(real) == CHOOSE q \in chosen : Real(d, q) = real
           sources == {[path |-> p, key |-> SelectedSourceKey(d, i.roots, p)] :
                         p \in {FileAt(Real(d, p)) : p \in chosen}}
<1>1. /\ Selected(i).sources = sources
      /\ \A p \in chosen : ValidCandidate(d, i.roots, p)
      /\ ~SharedKey(d, i.roots, chosen)
  <2>1. \/ Selected(i) = [ok |-> FALSE, sources |-> {}]
        \/ /\ Selected(i) = [ok |-> TRUE, sources |-> sources]
           /\ \A p \in chosen : ValidCandidate(d, i.roots, p)
           /\ ~SharedKey(d, i.roots, chosen)
    BY DEF Selected, SelectSources
  <2>2. QED BY <2>1
<1>2. ASSUME NEW t \in sources
      PROVE  /\ t.path \in chosen /\ t.path = FileAt(Real(d, t.path))
             /\ t = [path |-> t.path, key |-> SelectedSourceKey(d, i.roots, t.path)]
  <2>1. PICK p \in chosen : t = [path |-> FileAt(Real(d, p)),
                                 key |-> SelectedSourceKey(d, i.roots, FileAt(Real(d, p)))]
    OBVIOUS
  <2>2. FileAt(Real(d, p)) \in chosen /\ Real(d, FileAt(Real(d, p))) = Real(d, p)
    OBVIOUS
  <2> HIDE DEF FileAt
  <2>3. t.path = FileAt(Real(d, p))
    BY <2>1
  <2>4. QED BY <2>1, <2>2, <2>3
<1>3. s \in sources
  BY <1>1
<1> HIDE DEF FileAt, sources
<1>4. /\ s.path \in chosen /\ s.path = FileAt(Real(d, s.path))
      /\ s = [path |-> s.path, key |-> SelectedSourceKey(d, i.roots, s.path)]
  BY <1>2, <1>3
<1>5. ASSUME NEW t \in Selected(i).sources, s.key = t.key \/ Real(d, s.path) = Real(d, t.path)
      PROVE  s = t
  <2>1. /\ t.path \in chosen /\ t.path = FileAt(Real(d, t.path))
        /\ t = [path |-> t.path, key |-> SelectedSourceKey(d, i.roots, t.path)]
    BY <1>1, <1>2
  <2>2. s.key = SelectedSourceKey(d, i.roots, s.path) /\ t.key = SelectedSourceKey(d, i.roots, t.path)
    BY <1>4, <2>1
  <2>3. Real(d, s.path) = Real(d, t.path)
    BY <1>1, <1>4, <1>5, <2>1, <2>2 DEF SharedKey
  <2>4. QED BY <1>4, <2>1, <2>3
<1>6. s.key = SelectedSourceKey(d, i.roots, s.path)
  BY <1>4
<1>7. QED BY <1>1, <1>4, <1>5, <1>6

\* Keys, paths and files of the selected sources lead to each other.
LEMMA KeysLead ==
    ASSUME NEW i, DocumentsInput(i), NEW s \in Selected(i).sources
    PROVE  /\ ContainingRoot(i.disk, i.roots, s.path) > 0
           /\ s.key # NoKey
           /\ ResolveSelectedSourceKey(i.disk, i.roots[1], Selected(i).sources, s.key, FALSE) = s.key
           /\ \A p : Real(i.disk, p) = Real(i.disk, s.path) =>
                 ResolveSelectedSourceKey(i.disk, i.roots[1], Selected(i).sources, p, TRUE) = s.key
<1> DEFINE d == i.disk
           sources == Selected(i).sources
<1>1. /\ s.path \in Candidates(d, i.profile) /\ ValidCandidate(d, i.roots, s.path)
      /\ s.key = SelectedSourceKey(d, i.roots, s.path)
      /\ \A t \in sources : (s.key = t.key \/ Real(d, s.path) = Real(d, t.path)) => s = t
  BY SourcesApart
<1>2. s.key # NoKey /\ Normalize(d, s.key) = s.key
  BY <1>1, KeyNormal
<1>3. ContainingRoot(d, i.roots, s.path) > 0
  BY <1>1 DEF ValidCandidate
<1> HIDE DEF sources
<1>4. ResolveSelectedSourceKey(d, i.roots[1], sources, s.key, FALSE) = s.key
  <2>1. {t \in sources : ~FALSE /\ t.key = Normalize(d, s.key)} = {s}
    BY <1>1, <1>2 DEF sources
  <2>2. QED BY <2>1 DEF ResolveSelectedSourceKey
<1>5. ASSUME NEW p, Real(d, p) = Real(d, s.path)
      PROVE  ResolveSelectedSourceKey(d, i.roots[1], sources, p, TRUE) = s.key
  <2>1. {t \in sources : Real(d, t.path) = Real(d, p)} = {s}
    BY <1>1, <1>5 DEF sources
  <2>2. QED BY <2>1 DEF ResolveSelectedSourceKey
<1>6. QED BY <1>2, <1>3, <1>4, <1>5 DEF sources

-----------------------------------------------------------------------------
(* The graph of the documents *)

GraphAnswer(i) == GraphOf(i.disk, i.roots, i.profile, Selected(i).sources)

\* A path whose names are right leads to a file whose names are right.
LEMMA RealNames ==
    ASSUME NEW d, WellFormedDisk(d), NEW path \in Seq(STRING), path \notin d.miscased
    PROVE  Real(d, path) \notin d.miscased
<1>1. CASE Real(d, path) = path
  BY <1>1
<1>2. ASSUME NEW l \in DOMAIN d.links, IsPrefix(l, path),
             Real(d, path) = d.links[l] \o SubSeq(path, Len(l) + 1, Len(path)),
             Real(d, path) \in d.miscased
      PROVE  FALSE
  <2> DEFINE rest == SubSeq(path, Len(l) + 1, Len(path))
             end == d.links[l]
             real == end \o rest
  <2>1. l \in Seq(STRING) /\ end \in Seq(STRING) /\ rest \in Seq(STRING)
    BY DEF WellFormedDisk, Named
  <2>2. IsPrefix(end, real) /\ SubSeq(real, Len(end) + 1, Len(real)) = rest
    BY <2>1, JoinedAgain
  <2>3. l \o rest = path
    BY <1>2, <2>1, PrefixAndRest
  <2>4. l \o SubSeq(real, Len(end) + 1, Len(real)) \in d.miscased
    BY <1>2, <2>2 DEF WellFormedDisk, MiscasedThroughLinks
  <2>5. QED BY <2>2, <2>3, <2>4
<1>3. QED BY <1>1, <1>2, RealCases

\* A selected source is a file.
LEMMA SourceIsFile ==
    ASSUME NEW i, DocumentsInput(i), NEW s \in Selected(i).sources
    PROVE  s.path \in Seq(STRING) /\ Real(i.disk, s.path) \in DOMAIN i.disk.files
<1>1. s.path \in Candidates(i.disk, i.profile) /\ ValidCandidate(i.disk, i.roots, s.path)
  BY SourcesApart
<1>2. Exists(i.disk, s.path) /\ s.path \in Seq(STRING)
  BY <1>1, CandidateExists DEF Named
<1>3. s.path \notin i.disk.miscased
  BY <1>1 DEF ValidCandidate, CaseMatches
<1>4. WellFormedDisk(i.disk)
  BY DEF DocumentsInput
<1>5. QED BY <1>2, <1>3, <1>4, RealNames DEF Exists

\* The key for a path is that of the source whose file it leads to.
LEMMA KeyForFile ==
    ASSUME NEW i, DocumentsInput(i), NEW path \in Seq(STRING)
    PROVE  /\ \A s \in Selected(i).sources : Real(i.disk, s.path) = Real(i.disk, path) =>
                 KeyForPath(i.disk, GraphAnswer(i), path) = s.key
           /\ KeyForPath(i.disk, GraphAnswer(i), path) # NoKey =>
                 \E s \in Selected(i).sources :
                    /\ Real(i.disk, s.path) = Real(i.disk, path)
                    /\ KeyForPath(i.disk, GraphAnswer(i), path) = s.key
<1> DEFINE d == i.disk
           sources == Selected(i).sources
           graph == GraphAnswer(i)
<1>1. /\ graph.paths = PathKeys(d, sources)
      /\ WellFormedDisk(d)
  BY DEF GraphAnswer, GraphOf, DocumentsInput
<1> HIDE DEF sources, graph
<1>2. /\ DOMAIN graph.paths = {s.path : s \in sources} \cup {Real(d, s.path) : s \in sources}
      /\ \A q \in DOMAIN graph.paths :
            graph.paths[q] = (CHOOSE s \in sources : q \in {s.path, Real(d, s.path)}).key
  BY <1>1 DEF PathKeys
<1>3. ASSUME NEW q \in DOMAIN graph.paths
      PROVE  \E s \in sources : Real(d, q) = Real(d, s.path) /\ graph.paths[q] = s.key
  <2> DEFINE s == CHOOSE x \in sources : q \in {x.path, Real(d, x.path)}
  <2>1. \E x \in sources : q \in {x.path, Real(d, x.path)}
    BY <1>2
  <2>2. s \in sources /\ q \in {s.path, Real(d, s.path)}
    BY <2>1
  <2>3. graph.paths[q] = s.key
    BY <1>2
  <2> HIDE DEF s
  <2>4. Real(d, Real(d, s.path)) = Real(d, s.path)
    BY <1>1, <2>2, SourceIsFile, RealIsReal DEF sources
  <2>5. QED BY <2>2, <2>3, <2>4
<1>4. Real(d, Real(d, path)) = Real(d, path)
  BY <1>1, RealIsReal
<1>5. ASSUME NEW s \in sources, Real(d, s.path) = Real(d, path)
      PROVE  KeyForPath(d, graph, path) = s.key
  <2>1. \A t \in sources : Real(d, s.path) = Real(d, t.path) => s = t
    BY SourcesApart DEF sources
  <2>2. Real(d, path) \in DOMAIN graph.paths
    BY <1>2, <1>5
  <2>3. PICK q \in {path, Real(d, path)} :
           q \in DOMAIN graph.paths /\ KeyForPath(d, graph, path) = graph.paths[q]
    BY <2>2 DEF KeyForPath
  <2>4. Real(d, q) = Real(d, path)
    BY <1>4, <2>3
  <2>5. PICK t \in sources : Real(d, q) = Real(d, t.path) /\ graph.paths[q] = t.key
    BY <1>3, <2>3
  <2>6. s = t
    BY <1>5, <2>1, <2>4, <2>5
  <2>7. QED BY <2>3, <2>5, <2>6
<1>6. ASSUME KeyForPath(d, graph, path) # NoKey
      PROVE  \E s \in sources : Real(d, s.path) = Real(d, path) /\ KeyForPath(d, graph, path) = s.key
  <2>1. PICK q \in {path, Real(d, path)} :
           q \in DOMAIN graph.paths /\ KeyForPath(d, graph, path) = graph.paths[q]
    BY <1>6 DEF KeyForPath
  <2>2. Real(d, q) = Real(d, path)
    BY <1>4, <2>1
  <2>3. QED BY <1>3, <2>1, <2>2
<1>7. QED BY <1>5, <1>6 DEF sources, graph

\* A document is a source that could be parsed, under its key.
LEMMA DocumentIsSource ==
    ASSUME NEW i, NEW k \in DOMAIN GraphAnswer(i).documents
    PROVE  \E s \in Selected(i).sources :
              /\ s.key = k
              /\ GraphAnswer(i).documents[k]
                 = [path |-> s.path, source |-> i.disk.files[Real(i.disk, s.path)]]
<1> DEFINE d == i.disk
           parsed == {s \in Selected(i).sources : d.files[Real(d, s.path)].parses}
           s == CHOOSE x \in parsed : x.key = k
<1>1. /\ DOMAIN GraphAnswer(i).documents = {x.key : x \in parsed}
      /\ GraphAnswer(i).documents[k] = [path |-> s.path, source |-> d.files[Real(d, s.path)]]
  BY DEF GraphAnswer, GraphOf
<1>2. \E x \in parsed : x.key = k
  BY <1>1
<1>3. s \in parsed /\ s.key = k
  BY <1>2
<1>4. QED BY <1>1, <1>3

\* The key of a document is not empty, and its document is the source's.
LEMMA DocumentFile ==
    ASSUME NEW i, DocumentsInput(i), NEW k \in DOMAIN GraphAnswer(i).documents
    PROVE  \E s \in Selected(i).sources :
              /\ s.key = k /\ k # NoKey
              /\ GraphAnswer(i).documents[k].path = s.path
              /\ \A link \in GraphAnswer(i).documents[k].source.links : link.target \in Seq(STRING)
<1>1. PICK s \in Selected(i).sources :
         /\ s.key = k
         /\ GraphAnswer(i).documents[k] = [path |-> s.path, source |-> i.disk.files[Real(i.disk, s.path)]]
  BY DocumentIsSource
<1>2. k # NoKey
  BY <1>1, KeysLead
<1>3. \A link \in i.disk.files[Real(i.disk, s.path)].links : link.target \in Seq(STRING)
  BY SourceIsFile DEF DocumentsInput, WellFormedDisk
<1>4. QED BY <1>1, <1>2, <1>3

\* A link leads to the document of its file, and to no other.
LEMMA TargetIsFile ==
    ASSUME NEW i, DocumentsInput(i), NEW link, link.target \in Seq(STRING),
           link.kind \in {"local", "image"}
    PROVE  LET documents == GraphAnswer(i).documents
           IN {k \in DOMAIN documents :
                  Real(i.disk, documents[k].path) = Real(i.disk, link.target)}
              = {ResolveTarget(i.disk, GraphAnswer(i), link)} \ {NoKey}
<1> DEFINE d == i.disk
           graph == GraphAnswer(i)
           documents == graph.documents
           key == KeyForPath(d, graph, link.target)
           found == ResolveTarget(d, graph, link)
<1>1. found = IF key \in DOMAIN documents THEN key ELSE NoKey
  BY DEF ResolveTarget, JoinedKinds
<1>2. ASSUME NEW k \in DOMAIN documents, Real(d, documents[k].path) = Real(d, link.target)
      PROVE  k = found /\ k # NoKey
  <2>1. PICK s \in Selected(i).sources : s.key = k /\ k # NoKey /\ documents[k].path = s.path
    BY DocumentFile
  <2>2. key = k
    BY <1>2, <2>1, KeyForFile
  <2>3. QED BY <1>1, <2>1, <2>2
<1>3. ASSUME found # NoKey
      PROVE  found \in DOMAIN documents /\ Real(d, documents[found].path) = Real(d, link.target)
  <2>1. found = key /\ key \in DOMAIN documents
    BY <1>1, <1>3
  <2>2. PICK s \in Selected(i).sources : Real(d, s.path) = Real(d, link.target) /\ key = s.key
    BY <1>3, <2>1, KeyForFile
  <2>3. PICK t \in Selected(i).sources : t.key = key /\ documents[key].path = t.path
    BY <2>1, DocumentFile
  <2>4. s = t
    BY <2>2, <2>3, SourcesApart
  <2>5. QED BY <2>1, <2>2, <2>3, <2>4
<1> HIDE DEF found, documents, graph, key
<1>4. QED BY <1>2, <1>3 DEF found, documents, graph

\* A link that has no issue leads to a document.
LEMMA NoIssueFound ==
    ASSUME NEW i, DocumentsInput(i), NEW link, link.kind = "local", NEW document,
           i.disk.files[Real(i.disk, link.target)].markdown,
           ValidateLink(i.disk, GraphAnswer(i), document, link, "error") = {}
    PROVE  ResolveTarget(i.disk, GraphAnswer(i), link) # NoKey
<1> DEFINE d == i.disk
           graph == GraphAnswer(i)
           place == PlaceIssue(d, graph, link)
           issue == MarkdownIssue(d, graph, link, "error")
           key == KeyForPath(d, graph, link.target)
<1>1. ValidateLink(d, graph, document, link, "error")
      = IF place \in {"unsafe_path", "missing_asset", "broken_link"} THEN {place}
        ELSE IF place = "case_mismatch" THEN {place, issue} \ {""} ELSE {issue} \ {""}
  BY DEF ValidateLink
<1> HIDE DEF place, issue
<1>2. issue = ""
  BY <1>1
<1>3. key \in DOMAIN graph.documents
  BY <1>2 DEF issue, MarkdownIssue
<1>4. key # NoKey
  BY <1>3, DocumentFile
<1>5. QED BY <1>3, <1>4 DEF ResolveTarget, JoinedKinds

-----------------------------------------------------------------------------
(* Publications *)

\* What names a document is its path.
LEMMA DocumentAtPath ==
    ASSUME NEW graph, NEW path, DocumentAt(graph, path) # NoKey
    PROVE  /\ DocumentAt(graph, path) \in DOMAIN graph.documents
           /\ graph.documents[DocumentAt(graph, path)].path = path
BY DEF DocumentAt

\* A path without an issue names a document.
LEMMA NoIssueNamed ==
    ASSUME NEW d, NEW graph, NEW path, ResolveIssue(d, graph, path) = {}
    PROVE  DocumentAt(graph, path) # NoKey
BY DEF ResolveIssue

\* The numbers up to n count themselves.
LEMMA NthOfNumbers ==
    ASSUME NEW n \in Nat, NEW k \in 1..n
    PROVE  NthOf(1..n, k) = k
<1>1. \A m \in 1..n : {j \in 1..n : j <= m} = 1..m
  OBVIOUS
<1>2. \A m \in 1..n : Cardinality(1..m) = m
  BY FS_Interval
<1>3. \A m \in 1..n : Cardinality({j \in 1..n : j <= m}) = m
  BY <1>1, <1>2
<1>4. QED BY <1>3 DEF NthOf

\* Members that all name documents, and no document twice, are all kept.
LEMMA MembersKept ==
    ASSUME NEW graph, NEW p, p.members \in Seq(Seq(STRING)), ~MemberRepeated(graph, p),
           \A n \in DOMAIN p.members : DocumentAt(graph, p.members[n]) # NoKey
    PROVE  Members(graph, p) = [n \in DOMAIN p.members |-> DocumentAt(graph, p.members[n])]
<1> DEFINE N == Len(p.members)
<1>1. N \in Nat /\ DOMAIN p.members = 1..N
  OBVIOUS
<1>2. NewMembers(graph, p) = 1..N
  <2>1. ASSUME NEW n \in 1..N, NEW j \in 1..(n - 1)
        PROVE  DocumentAt(graph, p.members[n]) # DocumentAt(graph, p.members[j])
    <3>1. j \in DOMAIN p.members /\ n \in DOMAIN p.members /\ j < n
      BY <1>1, <2>1
    <3>2. QED BY <3>1 DEF MemberRepeated
  <2>2. \A n \in 1..N : DocumentAt(graph, p.members[n])
            \notin {NoKey} \cup {DocumentAt(graph, p.members[j]) : j \in 1..(n - 1)}
    BY <1>1, <2>1
  <2>3. QED BY <1>1, <2>2 DEF NewMembers
<1>3. Cardinality(1..N) = N
  BY <1>1, FS_Interval
<1>4. Members(graph, p) = [n \in 1..N |-> DocumentAt(graph, p.members[NthOf(1..N, n)])]
  BY <1>2, <1>3 DEF Members
<1>5. QED BY <1>1, <1>4, NthOfNumbers

\* A publication without an issue has the documents of its paths, each once,
\* and selects among them.
LEMMA PublicationWhole ==
    ASSUME NEW d, NEW graph, NEW id, NEW p,
           p.kind \in {"source", "bundle"}, p.members \in Seq(Seq(STRING)),
           p.kind = "source" => p.members = <<>>,
           ResolvePublication(d, graph, id, p).issues = {}
    PROVE  PublicationComplete(d, graph, ResolvePublication(d, graph, id, p).item, p)
<1> DEFINE members == IF p.kind = "source"
                      THEN IF DocumentAt(graph, p.source) = NoKey THEN <<>>
                           ELSE <<DocumentAt(graph, p.source)>>
                      ELSE Members(graph, p)
           paths == PathsOfPublication(p)
           asked == IF p.kind = "source" THEN {p.source} ELSE Range(p.members) \cup p.references
           references == {DocumentAt(graph, r) :
                            r \in {x \in p.references : DocumentAt(graph, x) \in Range(members)}}
           contents == [n \in DOMAIN p.contents |-> NormalizeTOCMember(graph, p, p.contents[n])]
           item == ResolvePublication(d, graph, id, p).item
<1>1. item.members = members /\ item.references = references /\ item.contents = contents
  BY DEF ResolvePublication
<1>2. /\ \A path \in asked : ResolveIssue(d, graph, path) = {}
      /\ p.kind = "bundle" => ~MemberRepeated(graph, p)
      /\ NoKey \notin Range(contents)
  <2> DEFINE named == UNION {ResolveIssue(d, graph, path) : path \in asked}
             repeated == IF p.kind = "bundle" /\ MemberRepeated(graph, p)
                         THEN {"publication_member_duplicate"} ELSE {}
             outside == IF \E r \in p.references : /\ DocumentAt(graph, r) # NoKey
                                                   /\ ~(DocumentAt(graph, r) \in Range(members))
                        THEN {"publication_reference_source_not_member"} ELSE {}
             unknown == IF NoKey \in Range(contents) THEN {"publication_toc_member_missing"} ELSE {}
  <2>1. ResolvePublication(d, graph, id, p).issues = named \cup repeated \cup outside \cup unknown
    BY DEF ResolvePublication
  <2> HIDE DEF repeated, outside, unknown
  <2>2. named = {} /\ repeated = {} /\ unknown = {}
    BY <2>1
  <2>3. \A path \in asked : ResolveIssue(d, graph, path) = {}
    BY <2>2
  <2> HIDE DEF named
  <2>4. (p.kind = "bundle" => ~MemberRepeated(graph, p)) /\ NoKey \notin Range(contents)
    BY <2>2 DEF repeated, unknown
  <2>5. QED BY <2>3, <2>4
<1>3. \A n \in DOMAIN paths : DocumentAt(graph, paths[n]) # NoKey
  <2>1. \A n \in DOMAIN paths : paths[n] \in asked
    BY DEF Range, PathsOfPublication
  <2>2. \A n \in DOMAIN paths : ResolveIssue(d, graph, paths[n]) = {}
    BY <1>2, <2>1
  <2> HIDE DEF paths
  <2>3. QED BY <2>2, NoIssueNamed
<1>4. members = [n \in DOMAIN paths |-> DocumentAt(graph, paths[n])] /\ IsInjective(members)
  <2>1. CASE p.kind = "source"
    <3>1. members = <<DocumentAt(graph, p.source)>> /\ DOMAIN paths = {1} /\ paths[1] = p.source
      BY <1>3, <2>1 DEF PathsOfPublication
    <3>2. QED BY <3>1 DEF IsInjective
  <2>2. CASE p.kind = "bundle"
    <3>1. paths = p.members /\ members = Members(graph, p) /\ ~MemberRepeated(graph, p)
      BY <1>2, <2>2 DEF PathsOfPublication
    <3>2. members = [n \in DOMAIN paths |-> DocumentAt(graph, paths[n])]
      BY <1>3, <3>1, MembersKept
    <3>3. \A m, n \in DOMAIN paths : m < n => DocumentAt(graph, paths[m]) # DocumentAt(graph, paths[n])
      BY <1>3, <3>1 DEF MemberRepeated
    <3>4. \A m, n \in DOMAIN paths : m < n \/ n < m \/ m = n
      BY <3>1
    <3>5. QED BY <3>2, <3>3, <3>4 DEF IsInjective
  <2>3. QED BY <2>1, <2>2
<1> HIDE DEF members, paths, asked
<1>5. references \subseteq Range(members)
  OBVIOUS
<1>6. Range(contents) \subseteq Range(members)
  <2>1. ASSUME NEW n \in DOMAIN p.contents
        PROVE  contents[n] \in Range(members)
    <3>1. contents[n] # NoKey
      BY <1>2 DEF Range
    <3>2. contents[n] \in Range(Members(graph, p))
      BY <3>1 DEF NormalizeTOCMember
    <3>3. CASE p.kind = "bundle"
      BY <3>2, <3>3 DEF members
    <3>4. CASE p.kind = "source"
      <4>1. DOMAIN p.members = {}
        BY <3>4
      <4>2. NewMembers(graph, p) = {}
        BY <4>1 DEF NewMembers
      <4>3. 1..Cardinality(NewMembers(graph, p)) = {}
        BY <4>2, FS_EmptySet
      <4>4. Range(Members(graph, p)) = {}
        BY <4>3 DEF Members, Range
      <4>5. QED BY <3>2, <4>4
    <3>5. QED BY <3>3, <3>4
  <2>2. QED BY <2>1 DEF Range
<1> HIDE DEF item
<1>7. \A n \in DOMAIN paths : graph.documents[item.members[n]].path = paths[n]
  BY <1>1, <1>3, <1>4, DocumentAtPath
<1>8. DOMAIN item.members = DOMAIN paths
  BY <1>1, <1>4
<1>9. [n \in DOMAIN item.members |-> Real(d, graph.documents[item.members[n]].path)]
      = [n \in DOMAIN paths |-> Real(d, paths[n])]
  BY <1>7, <1>8
<1>10. QED BY <1>1, <1>4, <1>5, <1>6, <1>9 DEF paths, item, PublicationComplete

-----------------------------------------------------------------------------
(* The answers about documents *)

SetAnswer(i) == ResolvePublications(i.disk, GraphAnswer(i), 3, i.profile)

DocumentsAnswer(i) ==
    [of |-> "documents", ok |-> Selected(i).ok, sources |-> Selected(i).sources,
     graph |-> GraphAnswer(i),
     legacy |-> ResolvePublications(i.disk, GraphAnswer(i), 2, i.profile),
     set |-> SetAnswer(i)]

\* The input is well formed, and what is answered is its answer.
DocumentsInv ==
    /\ DocumentsInput(input)
    /\ answer = Unanswered \/ answer = DocumentsAnswer(input)

\* The answer about documents is the input's.
LEMMA DocumentsInvariant == DocumentsSpec => []DocumentsInv
<1>1. DocumentsInit => DocumentsInv
  BY DEF DocumentsInit, DocumentsInv
<1>2. DocumentsInv /\ [DocumentsNext]_answerVars => DocumentsInv'
  <2> SUFFICES ASSUME DocumentsInv, [DocumentsNext]_answerVars PROVE DocumentsInv'
    OBVIOUS
  <2>1. CASE DocumentsNext
    <3>1. answer' = DocumentsAnswer(input) /\ input' = input
      BY <2>1 DEF DocumentsNext, AnswerDocuments, DocumentsAnswer, SetAnswer, GraphAnswer, Selected
    <3>2. QED BY <3>1 DEF DocumentsInv
  <2>2. CASE UNCHANGED answerVars
    BY <2>2 DEF answerVars, DocumentsInv
  <2>3. QED BY <2>1, <2>2
<1>3. QED BY <1>1, <1>2, PTL DEF DocumentsSpec

\* For any sources, roots and links: a selection that is accepted gives every
\* file one key and every key one file inside the approved roots, keys and
\* paths lead back to it, a local link leads to the document of its file and
\* to no other, and one without an issue leads to a document (select.go,
\* discover.go).
THEOREM SourcesFound == DocumentsSpec => []DocumentsFound
<1>1. DocumentsInv => KeysNameFiles
  <2> SUFFICES ASSUME DocumentsInv, answer.of = "documents" PROVE KeysNameFiles
    BY DEF KeysNameFiles
  <2>1. DocumentsInput(input) /\ answer.sources = Selected(input).sources
    BY DEF DocumentsInv, DocumentsAnswer, Unanswered
  <2>2. ASSUME NEW s \in Selected(input).sources
        PROVE  /\ ContainingRoot(input.disk, input.roots, s.path) > 0
               /\ \A t \in Selected(input).sources :
                     s # t => s.key # t.key /\ Real(input.disk, s.path) # Real(input.disk, t.path)
               /\ ResolveSelectedSourceKey(input.disk, input.roots[1], Selected(input).sources,
                                           s.key, FALSE) = s.key
               /\ \A p : Real(input.disk, p) = Real(input.disk, s.path) =>
                     ResolveSelectedSourceKey(input.disk, input.roots[1], Selected(input).sources,
                                              p, TRUE) = s.key
    BY <2>1, SourcesApart, KeysLead
  <2>3. QED BY <2>1, <2>2 DEF KeysNameFiles
<1>2. DocumentsInv => LinksFindDocuments
  <2> SUFFICES ASSUME DocumentsInv, answer.of = "documents" PROVE LinksFindDocuments
    BY DEF LinksFindDocuments
  <2>1. DocumentsInput(input) /\ answer.graph = GraphAnswer(input)
    BY DEF DocumentsInv, DocumentsAnswer, Unanswered
  <2>2. ASSUME NEW key \in DOMAIN GraphAnswer(input).documents,
               NEW link \in GraphAnswer(input).documents[key].source.links
        PROVE  /\ link.kind \in {"local", "image"} =>
                    {k \in DOMAIN GraphAnswer(input).documents :
                        Real(input.disk, GraphAnswer(input).documents[k].path)
                        = Real(input.disk, link.target)}
                    = {ResolveTarget(input.disk, GraphAnswer(input), link)} \ {NoKey}
               /\ (/\ link.kind = "local"
                   /\ input.disk.files[Real(input.disk, link.target)].markdown
                   /\ ValidateLink(input.disk, GraphAnswer(input),
                                   GraphAnswer(input).documents[key], link, "error") = {})
                  => ResolveTarget(input.disk, GraphAnswer(input), link) # NoKey
    <3>1. link.target \in Seq(STRING)
      BY <2>1, DocumentFile
    <3>2. QED BY <2>1, <3>1, TargetIsFile, NoIssueFound
  <2>3. QED BY <2>1, <2>2 DEF LinksFindDocuments
<1>3. DocumentsInv => DocumentsFound
  BY <1>1, <1>2 DEF DocumentsFound
<1>4. QED BY <1>3, DocumentsInvariant, PTL

\* For any publications: one without an issue has exactly the documents its
\* configuration names, in that order and each once, and its references and
\* its table of contents select among them (publication.go).
THEOREM PublicationsWhole == DocumentsSpec => []PublicationsComplete
<1>1. DocumentsInv => PublicationsComplete
  <2> SUFFICES ASSUME DocumentsInv, answer.of = "documents", answer.set.issues = {}
               PROVE  PublicationsComplete
    BY DEF PublicationsComplete
  <2> DEFINE d == input.disk
             graph == GraphAnswer(input)
             publications == input.profile.publications
             Resolved(id) == ResolvePublication(d, graph, id, publications[id])
             resolved == [id \in DOMAIN publications |-> Resolved(id)]
             entry == input.profile.publication
  <2>1. DocumentsInput(input) /\ answer.graph = graph /\ answer.set = SetAnswer(input)
    BY DEF DocumentsInv, DocumentsAnswer, Unanswered
  <2> HIDE DEF graph
  <2>2. SetAnswer(input) = ResolveExplicit(d, graph, publications, entry)
    BY DEF SetAnswer, ResolvePublications, graph
  <2>3. /\ answer.set.items = [id \in DOMAIN resolved |-> resolved[id].item]
        /\ answer.set.entry = IF entry \in DOMAIN resolved THEN entry ELSE NoKey
        /\ answer.set.issues
           = (UNION {resolved[id].issues : id \in DOMAIN resolved})
             \cup (IF entry \in DOMAIN resolved THEN {} ELSE {"publication_entry_missing"})
    <3>1. ResolveExplicit(d, graph, publications, entry)
          = [items |-> [id \in DOMAIN resolved |-> resolved[id].item],
             entry |-> IF entry \in DOMAIN resolved THEN entry ELSE NoKey,
             issues |-> (UNION {resolved[id].issues : id \in DOMAIN resolved})
                        \cup (IF entry \in DOMAIN resolved THEN {} ELSE {"publication_entry_missing"})]
      BY DEF ResolveExplicit
    <3> HIDE DEF resolved, Resolved
    <3>2. QED BY <2>1, <2>2, <3>1
  <2>4. DOMAIN resolved = DOMAIN publications /\ \A id \in DOMAIN publications : resolved[id] = Resolved(id)
    OBVIOUS
  <2> HIDE DEF resolved, Resolved
  <2>5. entry \in DOMAIN resolved /\ answer.set.entry \in DOMAIN answer.set.items
    BY <2>3
  <2>6. ASSUME NEW id \in DOMAIN publications
        PROVE  PublicationComplete(d, graph, answer.set.items[id], publications[id])
    <3>1. answer.set.items[id] = Resolved(id).item /\ Resolved(id).issues = {}
      BY <2>3, <2>4
    <3>2. LET p == publications[id]
          IN /\ p.kind \in {"source", "bundle"} /\ p.members \in Seq(Seq(STRING))
             /\ p.kind = "source" => p.members = <<>>
      BY <2>1 DEF DocumentsInput
    <3>3. QED BY <3>1, <3>2, PublicationWhole DEF Resolved
  <2>7. DOMAIN answer.set.items = DOMAIN publications
    BY <2>3, <2>4
  <2>8. QED BY <2>1, <2>5, <2>6, <2>7 DEF PublicationsComplete
<1>2. QED BY <1>1, DocumentsInvariant, PTL

-----------------------------------------------------------------------------
(* Layers of settings *)

\* Bounded numbers have a greatest one.
LEMMA MaxInside ==
    ASSUME NEW n \in Nat, NEW S, S \subseteq 1..n, S # {}
    PROVE  Max(S) \in S /\ \A y \in S : y <= Max(S)
<1> DEFINE left == {n - x : x \in S}
<1>1. left \subseteq Nat /\ left # {}
  <2>1. \A x \in S : n - x \in Nat
    OBVIOUS
  <2>2. QED BY <2>1
<1>2. PICK x \in S : Min(left) = n - x
  BY <1>1, MinInside
<1>3. \A y \in S : n - x <= n - y
  BY <1>1, <1>2, MinInside
<1>4. \A y \in S : x >= y
  BY <1>3
<1>5. QED BY <1>4 DEF Max

\* A setting is the one of the last layer that gives it.
LEMMA LastLayer ==
    ASSUME NEW n \in Nat, NEW layers, DOMAIN layers = 1..n, NEW key, NEW k \in 1..n,
           key \in DOMAIN layers[k].layer,
           \A j \in 1..n : j > k => key \notin DOMAIN layers[j].layer
    PROVE  /\ key \in DOMAIN Merge(layers)
           /\ Merge(layers)[key] = layers[k].layer[key]
           /\ OriginBase(layers, key) = layers[k].base
<1> DEFINE giving == {i \in DOMAIN layers : key \in DOMAIN layers[i].layer}
<1>1. giving \subseteq 1..n /\ k \in giving /\ \A j \in giving : j <= k
  OBVIOUS
<1>2. Max(giving) \in giving /\ \A j \in giving : j <= Max(giving)
  BY <1>1, MaxInside
<1>3. Max(giving) = k
  BY <1>1, <1>2
<1>4. LastGiving(layers, key) = layers[k]
  BY <1>3 DEF LastGiving
<1>5. key \in UNION {DOMAIN layers[i].layer : i \in DOMAIN layers}
  OBVIOUS
<1>6. QED BY <1>4, <1>5 DEF Merge, OriginBase

\* A variable gives no version.
LEMMA NoVersionInEnvironment ==
    ASSUME NEW env
    PROVE  "version" \notin DOMAIN EnvironmentRuntimeLayer(env)
BY DEF EnvironmentRuntimeLayer, EnvironmentKey

\* The paths of the settings are made absolute; format, quiet and version
\* are left alone.
LEMMA PathsResolved ==
    ASSUME NEW layers, NEW base,
           {"format", "quiet", "version", "state"} \subseteq DOMAIN Merge(layers)
    PROVE  LET v == ResolveRuntimePaths(layers, base)
           IN /\ v.format = Merge(layers)["format"] /\ v.quiet = Merge(layers)["quiet"]
              /\ v.version = Merge(layers)["version"]
              /\ v.state = ResolveValuePath(Merge(layers)["state"], OriginBase(layers, "state"))
BY DEF ResolveRuntimePaths

\* The last layer that gives a setting decides it.
LastDecides(layers, key, n) ==
    \A k \in 1..n :
        (/\ key \in DOMAIN layers[k].layer
         /\ \A j \in 1..n : j > k => ~(key \in DOMAIN layers[j].layer))
        => /\ key \in DOMAIN Merge(layers) /\ Merge(layers)[key] = layers[k].layer[key]
           /\ OriginBase(layers, key) = layers[k].base

\* LastLayer, for all layers.
LEMMA LayersDecide ==
    ASSUME NEW n \in Nat, NEW layers, DOMAIN layers = 1..n, NEW key
    PROVE  LastDecides(layers, key, n)
BY LastLayer DEF LastDecides

\* A reading of four sources agrees with one of the same four and others that
\* do not give the setting.
LEMMA DirectAgrees ==
    ASSUME NEW full, NEW out, NEW key, DOMAIN full = 1..7, DOMAIN out = 1..5,
           key \in DOMAIN full[1].layer,
           key \notin DOMAIN full[5].layer, key \notin DOMAIN full[6].layer,
           key \notin DOMAIN full[7].layer,
           key \in DOMAIN out[1].layer, key \notin DOMAIN out[3].layer,
           full[1].layer[key] = out[1].layer[key],
           out[2].layer = full[2].layer, out[4].layer = full[3].layer,
           out[5].layer = full[4].layer
    PROVE  key \in DOMAIN Merge(full) /\ Merge(full)[key] = Merge(out)[key]
<1> DEFINE gives(k) == key \in DOMAIN full[k].layer
           says(k) == key \in DOMAIN out[k].layer
           last(k) == key \in DOMAIN Merge(full) /\ Merge(full)[key] = full[k].layer[key]
           lastSaid(k) == key \in DOMAIN Merge(out) /\ Merge(out)[key] = out[k].layer[key]
<1>0. LastDecides(full, key, 7) /\ LastDecides(out, key, 5)
  BY LayersDecide
<1>1. \A k \in 1..7 : gives(k) /\ (\A j \in 1..7 : j > k => ~gives(j)) => last(k)
  BY <1>0 DEF LastDecides
<1>2. \A k \in 1..5 : says(k) /\ (\A j \in 1..5 : j > k => ~says(j)) => lastSaid(k)
  BY <1>0 DEF LastDecides
<1>3. /\ gives(1) /\ says(1)
      /\ ~gives(5) /\ ~gives(6) /\ ~gives(7) /\ ~says(3)
      /\ (gives(2) <=> says(2)) /\ (gives(3) <=> says(4)) /\ (gives(4) <=> says(5))
  OBVIOUS
<1>4. /\ full[1].layer[key] = out[1].layer[key]
      /\ full[2].layer[key] = out[2].layer[key]
      /\ full[3].layer[key] = out[4].layer[key]
      /\ full[4].layer[key] = out[5].layer[key]
  OBVIOUS
<1>5. SUFFICES \E a \in 1..7, b \in 1..5 :
                   last(a) /\ lastSaid(b) /\ full[a].layer[key] = out[b].layer[key]
  OBVIOUS
<1> HIDE DEF gives, says, last, lastSaid
<1>6. CASE gives(4)
  <2>1. last(4) /\ lastSaid(5)
    BY <1>1, <1>2, <1>3, <1>6
  <2>2. QED BY <1>4, <2>1
<1>7. CASE gives(3) /\ ~gives(4)
  <2>1. last(3) /\ lastSaid(4)
    BY <1>1, <1>2, <1>3, <1>7
  <2>2. QED BY <1>4, <2>1
<1>8. CASE gives(2) /\ ~gives(3) /\ ~gives(4)
  <2>1. last(2) /\ lastSaid(2)
    BY <1>1, <1>2, <1>3, <1>8
  <2>2. QED BY <1>4, <2>1
<1>9. CASE ~gives(2) /\ ~gives(3) /\ ~gives(4)
  <2>1. last(1) /\ lastSaid(1)
    BY <1>1, <1>2, <1>3, <1>9
  <2>2. QED BY <1>4, <2>1
<1>10. QED BY <1>6, <1>7, <1>8, <1>9

\* The same of five sources, the project's among them.
LEMMA ProjectAgrees ==
    ASSUME NEW full, NEW out, NEW key, DOMAIN full = 1..7, DOMAIN out = 1..5,
           key \in DOMAIN full[1].layer,
           key \notin DOMAIN full[4].layer, key \notin DOMAIN full[5].layer,
           key \in DOMAIN out[1].layer,
           full[1].layer[key] = out[1].layer[key],
           out[2].layer = full[2].layer, out[3].layer = full[3].layer,
           out[4].layer = full[6].layer, out[5].layer = full[7].layer
    PROVE  key \in DOMAIN Merge(full) /\ Merge(full)[key] = Merge(out)[key]
<1> DEFINE gives(k) == key \in DOMAIN full[k].layer
           says(k) == key \in DOMAIN out[k].layer
           last(k) == key \in DOMAIN Merge(full) /\ Merge(full)[key] = full[k].layer[key]
           lastSaid(k) == key \in DOMAIN Merge(out) /\ Merge(out)[key] = out[k].layer[key]
<1>0. LastDecides(full, key, 7) /\ LastDecides(out, key, 5)
  BY LayersDecide
<1>1. \A k \in 1..7 : gives(k) /\ (\A j \in 1..7 : j > k => ~gives(j)) => last(k)
  BY <1>0 DEF LastDecides
<1>2. \A k \in 1..5 : says(k) /\ (\A j \in 1..5 : j > k => ~says(j)) => lastSaid(k)
  BY <1>0 DEF LastDecides
<1>3. /\ gives(1) /\ says(1)
      /\ ~gives(4) /\ ~gives(5)
      /\ (gives(2) <=> says(2)) /\ (gives(3) <=> says(3)) /\ (gives(6) <=> says(4)) /\ (gives(7) <=> says(5))
  OBVIOUS
<1>4. /\ full[1].layer[key] = out[1].layer[key]
      /\ full[2].layer[key] = out[2].layer[key]
      /\ full[3].layer[key] = out[3].layer[key]
      /\ full[6].layer[key] = out[4].layer[key]
      /\ full[7].layer[key] = out[5].layer[key]
  OBVIOUS
<1>5. SUFFICES \E a \in 1..7, b \in 1..5 :
                   last(a) /\ lastSaid(b) /\ full[a].layer[key] = out[b].layer[key]
  OBVIOUS
<1> HIDE DEF gives, says, last, lastSaid
<1>6. CASE gives(7)
  <2>1. last(7) /\ lastSaid(5)
    BY <1>1, <1>2, <1>3, <1>6
  <2>2. QED BY <1>4, <2>1
<1>7. CASE gives(6) /\ ~gives(7)
  <2>1. last(6) /\ lastSaid(4)
    BY <1>1, <1>2, <1>3, <1>7
  <2>2. QED BY <1>4, <2>1
<1>8. CASE gives(3) /\ ~gives(6) /\ ~gives(7)
  <2>1. last(3) /\ lastSaid(3)
    BY <1>1, <1>2, <1>3, <1>8
  <2>2. QED BY <1>4, <2>1
<1>9. CASE gives(2) /\ ~gives(3) /\ ~gives(6) /\ ~gives(7)
  <2>1. last(2) /\ lastSaid(2)
    BY <1>1, <1>2, <1>3, <1>9
  <2>2. QED BY <1>4, <2>1
<1>10. CASE ~gives(2) /\ ~gives(3) /\ ~gives(6) /\ ~gives(7)
  <2>1. last(1) /\ lastSaid(1)
    BY <1>1, <1>2, <1>3, <1>10
  <2>2. QED BY <1>4, <2>1
<1>11. QED BY <1>6, <1>7, <1>8, <1>9, <1>10

\* The settings that say how results are encoded.
OutputKeys == {"format", "quiet"}

\* Both readings start from the same format and quiet.
LEMMA SameDefaults ==
    ASSUME NEW key \in OutputKeys
    PROVE  LET little == [format |-> "human", quiet |-> FALSE]
           IN /\ key \in DOMAIN DefaultRuntimeLayer /\ key \in DOMAIN little
              /\ DefaultRuntimeLayer[key] = little[key]
<1>1. /\ {"format", "quiet"} \subseteq DOMAIN DefaultRuntimeLayer
      /\ DefaultRuntimeLayer["format"] = "human" /\ DefaultRuntimeLayer["quiet"] = FALSE
  BY DEF DefaultRuntimeLayer
<1>2. CASE key = "format"
  BY <1>1, <1>2
<1>3. CASE key = "quiet"
  BY <1>1, <1>3
<1>4. QED BY <1>2, <1>3 DEF OutputKeys

\* A profile of version 1 gives neither.
LEMMA NoOutputInV1 ==
    ASSUME NEW p
    PROVE  OutputKeys \cap DOMAIN NormalizeV1Profile(p) = {}
BY DEF NormalizeV1Profile, OutputKeys

\* The layers of the reading for the encoding.
LEMMA OutputLayersAre ==
    ASSUME NEW o, NEW d
    PROVE  LET base == ProjectDir(o, d)
               out == OutputLayers(o, d)
           IN /\ DOMAIN out = 1..5
              /\ out[1].layer = [format |-> "human", quiet |-> FALSE]
              /\ out[2] = GlobalRuntimeLayer(d)
              /\ out[3].layer = IF base # Unset /\ d.projects[base].version \in {2, 3}
                                THEN d.projects[base].layer ELSE <<>>
              /\ out[4].layer = EnvironmentRuntimeLayer(o.env)
              /\ out[5].layer = o.overrides
<1> DEFINE base == ProjectDir(o, d)
           out == OutputLayers(o, d)
<1>1. DOMAIN out = 1..5
  BY DEF OutputLayers
<1>2. out[1].layer = [format |-> "human", quiet |-> FALSE]
  BY DEF OutputLayers
<1>3. out[2] = GlobalRuntimeLayer(d)
  BY DEF OutputLayers
<1>4. out[3].layer = IF base # Unset /\ d.projects[base].version \in {2, 3}
                     THEN d.projects[base].layer ELSE <<>>
  BY DEF OutputLayers
<1>5. out[4] = EnvironmentAt(o.working, o.env)
  BY DEF OutputLayers
<1>6. out[5].layer = o.overrides
  BY DEF OutputLayers
<1>7. out[4].layer = EnvironmentRuntimeLayer(o.env)
  BY <1>5 DEF EnvironmentAt
<1>8. QED BY <1>1, <1>2, <1>3, <1>4, <1>6, <1>7

\* The layers of the settings of a project.
ReadsProject(full, o, d, base, project, name) ==
    /\ DOMAIN full = 1..7
    /\ full[1].base = base /\ full[1].layer = DefaultRuntimeLayer
    /\ full[2] = GlobalRuntimeLayer(d)
    /\ full[3].layer = (IF project.version = 1 THEN <<>> ELSE project.layer)
    /\ full[4].base = base
    /\ full[4].layer = (IF project.version = 1
                        THEN NormalizeV1Profile(project.profiles[name])
                        ELSE project.profiles[name])
    /\ full[5].layer = [version |-> project.version]
    /\ full[6].layer = EnvironmentRuntimeLayer(o.env)
    /\ full[7].layer = o.overrides

\* They are what the code puts together.
LEMMA ProjectLayersAre ==
    ASSUME NEW o, NEW d, NEW base, NEW name
    PROVE  ReadsProject(ProjectLayers(o, d, base, name), o, d, base, d.projects[base], name)
<1> DEFINE project == d.projects[base]
           full == ProjectLayers(o, d, base, name)
           three == ProjectRuntimeLayer(project, name, base)
<1>1. DOMAIN full = 1..7
  BY DEF ProjectLayers
<1>2. full[1] = DefaultsAt(base) /\ full[2] = GlobalRuntimeLayer(d)
  BY DEF ProjectLayers
<1>3. full[3] = three[1] /\ full[4] = three[2] /\ full[5] = three[3]
  BY DEF ProjectLayers
<1>4. full[6] = EnvironmentAt(o.working, o.env) /\ full[7].layer = o.overrides
  BY DEF ProjectLayers
<1>5. three[1].layer = (IF project.version = 1 THEN <<>> ELSE project.layer)
  BY DEF ProjectRuntimeLayer
<1>6. /\ three[2].base = base
      /\ three[2].layer = (IF project.version = 1
                           THEN NormalizeV1Profile(project.profiles[name])
                           ELSE project.profiles[name])
  BY DEF ProjectRuntimeLayer
<1>7. three[3].layer = [version |-> project.version]
  BY DEF ProjectRuntimeLayer
<1>8. /\ DefaultsAt(base).base = base /\ DefaultsAt(base).layer = DefaultRuntimeLayer
      /\ EnvironmentAt(o.working, o.env).layer = EnvironmentRuntimeLayer(o.env)
  BY DEF DefaultsAt, EnvironmentAt
<1> HIDE DEF full, three
<1>9. ReadsProject(full, o, d, base, project, name)
  BY <1>1, <1>2, <1>3, <1>4, <1>5, <1>6, <1>7, <1>8 DEF ReadsProject
<1>10. QED BY <1>9 DEF full

\* Without a project both readings see the user's file, the variables and the
\* flags.
LEMMA DirectOutput ==
    ASSUME NEW o, NEW d, ProjectDir(o, d) = Unset, NEW key \in OutputKeys
    PROVE  /\ key \in DOMAIN Merge(DirectLayers(o, d))
           /\ Merge(DirectLayers(o, d))[key] = Merge(OutputLayers(o, d))[key]
<1> DEFINE full == DirectLayers(o, d)
           out == OutputLayers(o, d)
<1>1. /\ DOMAIN full = 1..7
      /\ full[1].layer = DefaultRuntimeLayer
      /\ full[2] = GlobalRuntimeLayer(d)
      /\ full[3].layer = EnvironmentRuntimeLayer(o.env)
      /\ full[4].layer = o.overrides
      /\ key \notin DOMAIN full[5].layer /\ key \notin DOMAIN full[6].layer
      /\ key \notin DOMAIN full[7].layer
  <2>1. DOMAIN full = 1..7
    BY DEF DirectLayers
  <2>2. full[1] = DefaultsAt(o.working)
    BY DEF DirectLayers
  <2>3. full[2] = GlobalRuntimeLayer(d)
    BY DEF DirectLayers
  <2>4. full[3] = EnvironmentAt(o.working, o.env)
    BY DEF DirectLayers
  <2>5. full[4] = Given(o, o.overrides)
    BY DEF DirectLayers
  <2>6. "root" \notin OutputKeys /\ "include" \notin OutputKeys /\ "entry" \notin OutputKeys
    BY DEF OutputKeys
  <2>7. key \notin DOMAIN full[5].layer
    <3>1. full[5] = Given(o, [root |-> DirectRoot(o)])
      BY DEF DirectLayers
    <3>2. DOMAIN [root |-> DirectRoot(o)] = {"root"}
      OBVIOUS
    <3> HIDE DEF full
    <3>3. QED BY <2>6, <3>1, <3>2 DEF Given
  <2>8. key \notin DOMAIN full[6].layer
    <3>1. full[6] = Given(o, SourcesGiven(o))
      BY DEF DirectLayers
    <3>2. DOMAIN SourcesGiven(o) \subseteq {"include"}
      BY DEF SourcesGiven
    <3> HIDE DEF full
    <3>3. QED BY <2>6, <3>1, <3>2 DEF Given
  <2>9. key \notin DOMAIN full[7].layer
    <3>1. full[7] = Given(o, EntryGiven(o))
      BY DEF DirectLayers
    <3>2. DOMAIN EntryGiven(o) \subseteq {"entry"}
      BY DEF EntryGiven
    <3> HIDE DEF full
    <3>3. QED BY <2>6, <3>1, <3>2 DEF Given
  <2> HIDE DEF full
  <2>10. QED
    BY <2>1, <2>2, <2>3, <2>4, <2>5, <2>7, <2>8, <2>9 DEF DefaultsAt, EnvironmentAt, Given
<1>2. /\ DOMAIN out = 1..5
      /\ out[1].layer = [format |-> "human", quiet |-> FALSE] /\ out[3].layer = <<>>
      /\ out[2] = GlobalRuntimeLayer(d)
      /\ out[4].layer = EnvironmentRuntimeLayer(o.env)
      /\ out[5].layer = o.overrides
  BY OutputLayersAre
<1> HIDE DEF full, out
<1>3. /\ key \in DOMAIN full[1].layer /\ key \in DOMAIN out[1].layer
      /\ full[1].layer[key] = out[1].layer[key]
  BY <1>1, <1>2, SameDefaults
<1>4. key \notin DOMAIN out[3].layer
  <2>1. DOMAIN <<>> = {}
    OBVIOUS
  <2>2. QED BY <1>2, <2>1
<1>5. /\ out[2].layer = full[2].layer /\ out[4].layer = full[3].layer
      /\ out[5].layer = full[4].layer
  BY <1>1, <1>2
<1>6. key \in DOMAIN Merge(full) /\ Merge(full)[key] = Merge(out)[key]
  <2>1. DOMAIN full = 1..7 /\ DOMAIN out = 1..5
    BY <1>1, <1>2
  <2>2. QED BY <1>1, <2>1, <1>3, <1>4, <1>5, DirectAgrees
<1>7. QED BY <1>6 DEF full, out

\* With one they see its own part, too, and neither sees a profile's.
LEMMA ProjectOutput ==
    ASSUME NEW o, NEW d, NEW base, base = ProjectDir(o, d), base # Unset,
           base \in DOMAIN d.projects, ReadProject(d, d.projects[base]), WellFormedConfig(d),
           NEW name \in DOMAIN d.projects[base].profiles,
           NEW key \in OutputKeys
    PROVE  /\ key \in DOMAIN Merge(ProjectLayers(o, d, base, name))
           /\ Merge(ProjectLayers(o, d, base, name))[key] = Merge(OutputLayers(o, d))[key]
<1> DEFINE project == d.projects[base]
           full == ProjectLayers(o, d, base, name)
           out == OutputLayers(o, d)
<1>1. ReadsProject(full, o, d, base, project, name)
  BY ProjectLayersAre
<1>2. /\ DOMAIN out = 1..5
      /\ out[1].layer = [format |-> "human", quiet |-> FALSE]
      /\ out[2] = GlobalRuntimeLayer(d)
      /\ out[3].layer = (IF project.version \in {2, 3} THEN project.layer ELSE <<>>)
      /\ out[4].layer = EnvironmentRuntimeLayer(o.env)
      /\ out[5].layer = o.overrides
  BY OutputLayersAre
<1>3. /\ ~project.unknown
      /\ project.version = 1 \/ project.version = 2 \/ project.version = 3
  BY DEF ReadProject
<1>4. project.version # 1 => DOMAIN project.profiles[name] \subseteq ProfileKeys
  BY <1>3 DEF WellFormedConfig
<1> HIDE DEF full, out, project
<1>5. /\ key \in DOMAIN full[1].layer /\ key \in DOMAIN out[1].layer
      /\ full[1].layer[key] = out[1].layer[key]
  BY <1>1, <1>2, SameDefaults DEF ReadsProject
<1>6. key \notin DOMAIN full[4].layer
  <2>1. CASE project.version = 1
    <3>1. full[4].layer = NormalizeV1Profile(project.profiles[name])
      BY <1>1, <2>1 DEF ReadsProject
    <3>2. QED BY <3>1, NoOutputInV1
  <2>2. CASE project.version # 1
    <3>1. key \notin ProfileKeys
      BY DEF ProfileKeys, OutputKeys
    <3>2. QED BY <1>1, <1>4, <2>2, <3>1 DEF ReadsProject
  <2>3. QED BY <2>1, <2>2
<1>7. key \notin DOMAIN full[5].layer
  <2>1. "version" \notin OutputKeys
    BY DEF OutputKeys
  <2>2. DOMAIN [version |-> project.version] = {"version"}
    OBVIOUS
  <2>3. QED BY <1>1, <2>1, <2>2 DEF ReadsProject
<1>8. /\ out[2].layer = full[2].layer /\ out[3].layer = full[3].layer
      /\ out[4].layer = full[6].layer /\ out[5].layer = full[7].layer
  BY <1>1, <1>2, <1>3 DEF ReadsProject
<1>9. key \in DOMAIN Merge(full) /\ Merge(full)[key] = Merge(out)[key]
  <2>1. DOMAIN full = 1..7 /\ DOMAIN out = 1..5
    BY <1>1, <1>2 DEF ReadsProject
  <2>2. QED BY <2>1, <1>5, <1>6, <1>7, <1>8, ProjectAgrees
<1>10. QED BY <1>9 DEF full, out

-------------------------------------------------------------------------------
(* The settings of a command that gets some.                                 *)

\* The profile a command runs under is one of the project's.
LEMMA ProfileExists ==
    ASSUME NEW asked, NEW names, IsFiniteSet(names),
           SelectRuntimeProfile(asked, names) # Unset
    PROVE  SelectRuntimeProfile(asked, names) \in names
<1> DEFINE named == {i \in DOMAIN asked : asked[i] # Unset}
<1>1. CASE named # {}
  BY <1>1 DEF SelectRuntimeProfile
<1>2. CASE named = {}
  <2>1. /\ Cardinality(names) = 1
        /\ SelectRuntimeProfile(asked, names) = CHOOSE n \in names : TRUE
    BY <1>2 DEF SelectRuntimeProfile
  <2>2. names # {}
    BY <2>1, FS_EmptySet
  <2>3. QED BY <2>1, <2>2
<1>3. QED BY <1>1, <1>2

\* Settings the properties are about.
SettingKeys == {"format", "quiet", "version", "state"}

\* The first layer of a reading gives every setting a command needs.
LEMMA DefaultsGiveAll ==
    ASSUME NEW layers, DOMAIN layers = 1..7,
           layers[1].layer = DefaultRuntimeLayer
    PROVE  SettingKeys \subseteq DOMAIN Merge(layers)
<1>1. SettingKeys \subseteq DOMAIN DefaultRuntimeLayer
  BY DEF DefaultRuntimeLayer, SettingKeys
<1>2. DOMAIN layers[1].layer \subseteq DOMAIN Merge(layers)
  BY DEF Merge
<1>3. QED BY <1>1, <1>2

\* The settings of a command in a project.
LEMMA SettledInProject ==
    ASSUME NEW o, NEW d, NEW base, ResolveProject(o, d, base).ok
    PROVE  LET project == d.projects[base]
               name == SelectedProfile(o, d, project)
               v == ResolveRuntimePaths(ProjectLayers(o, d, base, name), base)
           IN /\ ReadProject(d, project) /\ name # Unset /\ EnvironmentParses(o.env)
              /\ project.version \in {2, 3} =>
                    ValidateV2StatePaths(d, project, base, name, v.state)
              /\ Validate(v)
              /\ ResolveProject(o, d, base).settings = v
BY DEF ResolveProject, Failed, Accepted

\* The settings of a command without one.
LEMMA SettledDirect ==
    ASSUME NEW o, NEW d, ResolveDirect(o, d).ok
    PROVE  LET v == ResolveRuntimePaths(DirectLayers(o, d), Unset)
           IN EnvironmentParses(o.env) /\ Validate(v) /\ ResolveDirect(o, d).settings = v
BY DEF ResolveDirect, Failed, Accepted

\* Which of the two a command's are.
LEMMA Settled ==
    ASSUME NEW o, NEW d, Resolve(o, d).ok
    PROVE  \/ ProjectDir(o, d) = Unset /\ Resolve(o, d) = ResolveDirect(o, d)
           \/ /\ ProjectDir(o, d) # Unset /\ ProjectDir(o, d) \in DOMAIN d.projects
              /\ Resolve(o, d) = ResolveProject(o, d, ProjectDir(o, d))
BY DEF Resolve, Failed

\* A command that gets settings is encoded by them.
LEMMA EncodedBySettings ==
    ASSUME NEW o, NEW d, WellFormedConfig(d), Resolve(o, d).ok
    PROVE  ResolveOutput(o, d) = [ok |-> TRUE, format |-> Resolve(o, d).settings.format,
                                  quiet |-> Resolve(o, d).settings.quiet]
<1> DEFINE base == ProjectDir(o, d)
           merged == Merge(OutputLayers(o, d))
           v == Resolve(o, d).settings
<1>0. "format" \in OutputKeys /\ "quiet" \in OutputKeys
  BY DEF OutputKeys
<1>1. /\ v.format = merged["format"] /\ v.quiet = merged["quiet"]
      /\ Validate(v) /\ EnvironmentParses(o.env)
  <2>1. CASE base = Unset /\ Resolve(o, d) = ResolveDirect(o, d)
    <3> DEFINE layers == DirectLayers(o, d)
    <3>1. /\ EnvironmentParses(o.env) /\ Validate(v)
          /\ v = ResolveRuntimePaths(layers, Unset)
      BY <2>1, SettledDirect
    <3>2. Merge(layers)["format"] = merged["format"] /\ Merge(layers)["quiet"] = merged["quiet"]
      BY <1>0, <2>1, DirectOutput
    <3>3. DOMAIN layers = 1..7 /\ layers[1].layer = DefaultRuntimeLayer
      BY DEF DirectLayers, DefaultsAt
    <3> HIDE DEF layers
    <3>4. SettingKeys \subseteq DOMAIN Merge(layers)
      BY <3>3, DefaultsGiveAll
    <3>5. v.format = Merge(layers)["format"] /\ v.quiet = Merge(layers)["quiet"]
      BY <3>1, <3>4, PathsResolved DEF SettingKeys
    <3>6. QED BY <3>1, <3>2, <3>5
  <2>2. CASE /\ base # Unset /\ base \in DOMAIN d.projects
             /\ Resolve(o, d) = ResolveProject(o, d, base)
    <3> DEFINE project == d.projects[base]
               name == SelectedProfile(o, d, project)
               layers == ProjectLayers(o, d, base, name)
    <3>1. /\ ReadProject(d, project) /\ name # Unset /\ EnvironmentParses(o.env) /\ Validate(v)
          /\ v = ResolveRuntimePaths(layers, base)
      BY <2>2, SettledInProject
    <3>2. name \in DOMAIN project.profiles
      BY <2>2, <3>1, ProfileExists DEF SelectedProfile, WellFormedConfig
    <3> HIDE DEF name
    <3>3. Merge(layers)["format"] = merged["format"] /\ Merge(layers)["quiet"] = merged["quiet"]
      BY <1>0, <2>2, <3>1, <3>2, ProjectOutput
    <3>4. DOMAIN layers = 1..7 /\ layers[1].layer = DefaultRuntimeLayer
      <4>1. ReadsProject(layers, o, d, base, project, name)
        BY ProjectLayersAre
      <4>2. QED BY <4>1 DEF ReadsProject
    <3> HIDE DEF layers
    <3>5. SettingKeys \subseteq DOMAIN Merge(layers)
      BY <3>4, DefaultsGiveAll
    <3>6. v.format = Merge(layers)["format"] /\ v.quiet = Merge(layers)["quiet"]
      BY <3>1, <3>5, PathsResolved DEF SettingKeys
    <3>7. QED BY <3>1, <3>3, <3>6
  <2>3. QED BY <2>1, <2>2, Settled
<1>2. base \in {Unset} \cup DOMAIN d.projects
  BY Settled
<1>3. "MDOC_OUTPUT_QUIET" \in DOMAIN o.env => o.env["MDOC_OUTPUT_QUIET"].ok
  <2>1. "MDOC_OUTPUT_QUIET" \in DOMAIN EnvironmentKey
    BY DEF EnvironmentKey
  <2>2. QED BY <1>1, <2>1 DEF EnvironmentParses
<1>4. merged.format \in {"human", "json"}
  BY <1>1 DEF Validate
<1> HIDE DEF base, v
<1>5. ResolveOutput(o, d) = [ok |-> TRUE, format |-> merged.format, quiet |-> merged.quiet]
  BY <1>2, <1>3, <1>4 DEF ResolveOutput, base
<1>6. QED BY <1>1, <1>5 DEF v

-------------------------------------------------------------------------------
(* The state files of the profiles.                                          *)

\* A command that names a profile runs under that one.
LEMMA NamedProfileSelected ==
    ASSUME NEW o, NEW d, NEW project, o.profile # Unset,
           SelectedProfile(o, d, project) # Unset
    PROVE  SelectedProfile(o, d, project) = o.profile /\ o.profile \in DOMAIN project.profiles
<1> DEFINE asked == <<o.profile, o.env.MDOC_PROFILE.value, project.default,
                      IF d.global.found THEN d.global.default ELSE Unset>>
           named == {i \in DOMAIN asked : asked[i] # Unset}
<1>1. asked[1] = o.profile
  OBVIOUS
<1>2. DOMAIN asked = 1..4
  OBVIOUS
<1>3. SelectedProfile(o, d, project) = SelectRuntimeProfile(asked, DOMAIN project.profiles)
  BY DEF SelectedProfile
<1> HIDE DEF asked
<1>4. 1 \in named /\ named \subseteq 1..4
  BY <1>1, <1>2
<1>5. Min(named) = 1
  <2>1. named \subseteq Nat /\ named # {}
    BY <1>4
  <2>2. Min(named) \in named /\ \A y \in named : Min(named) <= y
    BY <2>1, MinInside
  <2>3. \A x \in 1..4 : x <= 1 => x = 1
    OBVIOUS
  <2> HIDE DEF named
  <2>4. Min(named) \in 1..4 /\ Min(named) <= 1
    BY <1>4, <2>2
  <2>5. QED BY <2>3, <2>4
<1>6. QED BY <1>1, <1>3, <1>4, <1>5 DEF SelectRuntimeProfile

\* What the files say of the state file of a profile.
StateInFiles(d, project, base, name) ==
    IF "state" \in DOMAIN project.profiles[name]
    THEN ResolveValuePath(project.profiles[name].state, base)
    ELSE IF d.global.found /\ "state" \in DOMAIN d.global.layer
         THEN ResolveValuePath(d.global.layer.state, d.global.dir)
         ELSE NoPath

\* The settings of a command in a project have its version and, unless a
\* variable or a flag gives another, the state file the files say.
LEMMA StateSettled ==
    ASSUME NEW o, NEW d, NEW base, NEW name, NEW project, project = d.projects[base],
           ~project.unknown,
           project.version = 1 \/ project.version = 2 \/ project.version = 3,
           base \in DOMAIN d.projects, name \in DOMAIN project.profiles,
           WellFormedConfig(d), DOMAIN o.overrides \subseteq FlagKeys, StateLeftToFiles(o)
    PROVE  LET v == ResolveRuntimePaths(ProjectLayers(o, d, base, name), base)
           IN /\ v.version = project.version
              /\ project.version # 1 => v.state = StateInFiles(d, project, base, name)
<1> DEFINE layers == ProjectLayers(o, d, base, name)
           merged == Merge(layers)
           v == ResolveRuntimePaths(layers, base)
<1>1. ReadsProject(layers, o, d, base, project, name)
  BY ProjectLayersAre
<1> HIDE DEF layers
<1>2. DOMAIN layers = 1..7 /\ layers[1].layer = DefaultRuntimeLayer
  BY <1>1 DEF ReadsProject
<1>3. SettingKeys \subseteq DOMAIN merged
  BY <1>2, DefaultsGiveAll
<1>4. /\ v.version = merged["version"]
      /\ v.state = ResolveValuePath(merged["state"], OriginBase(layers, "state"))
  BY <1>3, PathsResolved DEF SettingKeys
<1>5. merged["version"] = project.version
  <2>1. "version" \notin FlagKeys
    BY DEF FlagKeys
  <2>2. "version" \notin DOMAIN layers[6].layer /\ "version" \notin DOMAIN layers[7].layer
    BY <1>1, <2>1, NoVersionInEnvironment DEF ReadsProject
  <2>3. "version" \in DOMAIN layers[5].layer /\ layers[5].layer["version"] = project.version
    BY <1>1 DEF ReadsProject
  <2>4. LastDecides(layers, "version", 7)
    BY <1>2, LayersDecide
  <2>5. \A j \in 1..7 : j > 5 => "version" \notin DOMAIN layers[j].layer
    BY <2>2
  <2>6. merged["version"] = layers[5].layer["version"]
    BY <2>3, <2>4, <2>5 DEF LastDecides
  <2>7. QED BY <2>3, <2>6
<1>6. ASSUME project.version # 1
      PROVE  v.state = StateInFiles(d, project, base, name)
  <2> DEFINE gives(k) == "state" \in DOMAIN layers[k].layer
             last(k) == /\ merged["state"] = layers[k].layer["state"]
                        /\ OriginBase(layers, "state") = layers[k].base
  <2>1. \A k \in 1..7 : gives(k) /\ (\A j \in 1..7 : j > k => ~gives(j)) => last(k)
    <3>1. LastDecides(layers, "state", 7)
      BY <1>2, LayersDecide
    <3>2. QED BY <3>1 DEF LastDecides
  <2>2. layers[4].layer = project.profiles[name] /\ layers[4].base = base
    BY <1>1, <1>6 DEF ReadsProject
  <2>3. ~gives(3)
    <3>1. layers[3].layer = project.layer
      BY <1>1, <1>6 DEF ReadsProject
    <3>2. DOMAIN project.layer \subseteq ProjectKeys
      BY <1>6 DEF WellFormedConfig
    <3>3. "state" \notin ProjectKeys
      BY DEF ProjectKeys
    <3>4. QED BY <3>1, <3>2, <3>3
  <2>4. ~gives(5)
    BY <1>1 DEF ReadsProject
  <2>5. ~gives(6) /\ ~gives(7)
    BY <1>1 DEF ReadsProject, StateLeftToFiles
  <2>6. /\ gives(2) <=> d.global.found /\ "state" \in DOMAIN d.global.layer
        /\ gives(2) => layers[2].layer["state"] = d.global.layer.state
        /\ layers[2].base = d.global.dir
    <3>1. layers[2] = GlobalRuntimeLayer(d)
      BY <1>1 DEF ReadsProject
    <3>2. DOMAIN <<>> = {}
      OBVIOUS
    <3>3. QED BY <3>1, <3>2 DEF GlobalRuntimeLayer
  <2>7. gives(1) /\ layers[1].layer["state"] = NoPath
    <3>1. "state" \in DOMAIN DefaultRuntimeLayer /\ DefaultRuntimeLayer["state"] = NoPath
      BY DEF DefaultRuntimeLayer
    <3>2. QED BY <1>2, <3>1
  <2>8. CASE gives(4)
    <3>1. last(4)
      <4> HIDE DEF gives, last
      <4>1. QED BY <2>1, <2>4, <2>5, <2>8
    <3>2. QED BY <1>4, <2>2, <2>8, <3>1 DEF StateInFiles
  <2>9. CASE ~gives(4) /\ gives(2)
    <3>1. last(2)
      <4> HIDE DEF gives, last
      <4>1. QED BY <2>1, <2>3, <2>4, <2>5, <2>9
    <3>2. QED BY <1>4, <2>2, <2>6, <2>9, <3>1 DEF StateInFiles
  <2>10. CASE ~gives(4) /\ ~gives(2)
    <3>1. last(1)
      <4> HIDE DEF gives, last
      <4>1. QED BY <2>1, <2>3, <2>4, <2>5, <2>7, <2>10
    <3>2. v.state = NoPath
      BY <1>4, <2>7, <3>1 DEF ResolveValuePath
    <3>3. QED BY <2>2, <2>6, <2>10, <3>2 DEF StateInFiles
  <2>11. QED BY <2>8, <2>9, <2>10
<1>7. QED BY <1>4, <1>5, <1>6 DEF layers

\* A command in a project that names its profile gets that profile's state
\* file, and the check of the state files passed.
LEMMA StateOfProfile ==
    ASSUME NEW o, NEW d, NEW base, base = ProjectDir(o, d), base # Unset,
           WellFormedConfig(d), o.profile # Unset,
           DOMAIN o.overrides \subseteq FlagKeys, StateLeftToFiles(o), Resolve(o, d).ok
    PROVE  LET v == Resolve(o, d).settings
               project == d.projects[base]
           IN /\ o.profile \in DOMAIN project.profiles
              /\ v.version = project.version
              /\ v.version # 1 =>
                    /\ v.state = StateInFiles(d, project, base, o.profile)
                    /\ ValidateV2StatePaths(d, project, base, o.profile, v.state)
<1> DEFINE v == Resolve(o, d).settings
           project == d.projects[base]
           name == SelectedProfile(o, d, project)
<1>1. base \in DOMAIN d.projects /\ Resolve(o, d) = ResolveProject(o, d, base)
  BY Settled
<1>2. /\ ReadProject(d, project) /\ name # Unset
      /\ project.version \in {2, 3} => ValidateV2StatePaths(d, project, base, name, v.state)
      /\ v = ResolveRuntimePaths(ProjectLayers(o, d, base, name), base)
  BY <1>1, SettledInProject
<1>3. name = o.profile /\ name \in DOMAIN project.profiles
  BY <1>2, NamedProfileSelected
<1>4. /\ ~project.unknown
      /\ project.version = 1 \/ project.version = 2 \/ project.version = 3
  BY <1>2 DEF ReadProject
<1> HIDE DEF v, project, name
<1>5. v.version = project.version
  BY <1>1, <1>2, <1>3, <1>4, StateSettled DEF project
<1>6. project.version # 1 => v.state = StateInFiles(d, project, base, name)
  BY <1>1, <1>2, <1>3, <1>4, StateSettled DEF project
<1>7. QED BY <1>2, <1>3, <1>4, <1>5, <1>6 DEF v, project

\* The check of one command finds the state file of every other profile.
LEMMA StatesApart ==
    ASSUME NEW d, NEW project, NEW base, NEW m, NEW n, m # n,
           m \in DOMAIN project.profiles, n \in DOMAIN project.profiles,
           NEW a, NEW b, a # NoPath, b # NoPath,
           ValidateV2StatePaths(d, project, base, m, a),
           b = StateInFiles(d, project, base, n)
    PROVE  StateKey(d, a) # StateKey(d, b)
<1> DEFINE state(x) == CheckedState(d, project, base, m, a, x)
           stated == {x \in DOMAIN project.profiles : state(x) # NoPath}
           keys == [x \in stated |-> StateKey(d, state(x))]
<1>1. IsInjective(keys)
  BY DEF ValidateV2StatePaths
<1>2. state(m) = a /\ state(n) = b
  BY DEF CheckedState, StateInFiles
<1> HIDE DEF state
<1>3. m \in DOMAIN keys /\ n \in DOMAIN keys
  BY <1>2
<1>4. keys[m] = StateKey(d, a) /\ keys[n] = StateKey(d, b)
  BY <1>2, <1>3
<1> HIDE DEF keys
<1>5. QED BY <1>1, <1>3, <1>4 DEF IsInjective

\* An option record differs from another in nothing but the profile.
LEMMA OnlyProfileDiffers ==
    ASSUME NEW o, NEW n, {"project", "profile", "working", "env", "overrides"} \subseteq DOMAIN o
    PROVE  LET p == [o EXCEPT !.profile = n]
           IN /\ p.profile = n /\ p.project = o.project /\ p.working = o.working
              /\ p.env = o.env /\ p.overrides = o.overrides
OBVIOUS

-------------------------------------------------------------------------------
(* The answers about the configuration.                                      *)

\* What a command is told of its configuration.
ConfigAnswer(i) ==
    [of |-> "config",
     resolved |-> [n \in {Unset} \cup i.asked |->
                      Resolve([i.options EXCEPT !.profile = n], i.disk)],
     output |-> ResolveOutput(i.options, i.disk)]

\* The encoding of a command is that of its settings.
LEMMA AnswerEncodes ==
    ASSUME ConfigInput(input), answer = ConfigAnswer(input)
    PROVE  OutputAgrees
<1> DEFINE o == input.options  d == input.disk
           p == [o EXCEPT !.profile = Unset]
<1>1. SUFFICES ASSUME answer.resolved[Unset].ok
               PROVE  answer.output = [ok |-> TRUE, format |-> answer.resolved[Unset].settings.format,
                                       quiet |-> answer.resolved[Unset].settings.quiet]
  BY DEF OutputAgrees
<1>2. /\ WellFormedConfig(d)
      /\ {"project", "profile", "working", "env", "overrides"} \subseteq DOMAIN o
  BY DEF ConfigInput
<1>3. answer.resolved[Unset] = Resolve(p, d) /\ answer.output = ResolveOutput(o, d)
  BY DEF ConfigAnswer
<1>4. p.project = o.project /\ p.working = o.working /\ p.env = o.env /\ p.overrides = o.overrides
  BY <1>2, OnlyProfileDiffers
<1> HIDE DEF p, o, d
<1>5. ProjectDir(p, d) = ProjectDir(o, d)
  BY <1>4 DEF ProjectDir
<1>6. ResolveOutput(p, d) = ResolveOutput(o, d)
  BY <1>4, <1>5 DEF ResolveOutput, OutputLayers
<1>7. QED BY <1>1, <1>2, <1>3, <1>6, EncodedBySettings

\* The state files of the profiles it resolves differ.
LEMMA AnswerKeepsStates ==
    ASSUME ConfigInput(input), answer = ConfigAnswer(input)
    PROVE  ProfilesOwnTheirState
<1> DEFINE o == input.options  d == input.disk
           base == ProjectDir(o, d)  project == d.projects[base]
           with(n) == [o EXCEPT !.profile = n]
<1>1. SUFFICES ASSUME StateLeftToFiles(o), base # Unset,
                      NEW m \in input.asked, NEW n \in input.asked, m # n,
                      answer.resolved[m].ok, answer.resolved[n].ok,
                      answer.resolved[m].settings.version # 1,
                      answer.resolved[m].settings.state # NoPath,
                      answer.resolved[n].settings.state # NoPath
               PROVE  StateKey(d, answer.resolved[m].settings.state)
                      # StateKey(d, answer.resolved[n].settings.state)
  BY DEF ProfilesOwnTheirState
<1>2. /\ WellFormedConfig(d) /\ Unset \notin input.asked /\ DOMAIN o.overrides \subseteq FlagKeys
      /\ {"project", "profile", "working", "env", "overrides"} \subseteq DOMAIN o
  BY DEF ConfigInput
<1>3. ASSUME NEW x \in input.asked, answer.resolved[x].ok
      PROVE  LET v == answer.resolved[x].settings
             IN /\ x \in DOMAIN project.profiles
                /\ v.version = project.version
                /\ v.version # 1 => /\ v.state = StateInFiles(d, project, base, x)
                                    /\ ValidateV2StatePaths(d, project, base, x, v.state)
  <2> DEFINE p == with(x)
  <2>1. answer.resolved[x] = Resolve(p, d)
    BY DEF ConfigAnswer
  <2>2. /\ p.profile = x /\ p.project = o.project /\ p.working = o.working
        /\ p.env = o.env /\ p.overrides = o.overrides
    BY <1>2, OnlyProfileDiffers
  <2> HIDE DEF p, o, d
  <2>3. ProjectDir(p, d) = base
    BY <2>2 DEF ProjectDir
  <2>4. StateLeftToFiles(p) /\ DOMAIN p.overrides \subseteq FlagKeys
    BY <1>1, <1>2, <2>2 DEF StateLeftToFiles
  <2>5. p.profile # Unset
    BY <1>2, <2>2
  <2> HIDE DEF base
  <2>6. QED BY <1>1, <1>2, <1>3, <2>1, <2>2, <2>3, <2>4, <2>5, StateOfProfile
<1> DEFINE a == answer.resolved[m].settings.state
           b == answer.resolved[n].settings.state
<1>4. /\ m \in DOMAIN project.profiles /\ ValidateV2StatePaths(d, project, base, m, a)
      /\ answer.resolved[m].settings.version = project.version
  BY <1>1, <1>3
<1>5. n \in DOMAIN project.profiles /\ b = StateInFiles(d, project, base, n)
  BY <1>1, <1>3, <1>4
<1>6. m # n /\ a # NoPath /\ b # NoPath
  BY <1>1
<1> HIDE DEF o, d, base, project, a, b
<1>7. StateKey(d, a) # StateKey(d, b)
  BY <1>4, <1>5, <1>6, StatesApart
<1>8. QED BY <1>7 DEF a, b

\* What is known of the configuration at every moment.
ConfigInv ==
    ConfigInput(input) /\ (answer = Unanswered \/ answer = ConfigAnswer(input))

\* A command's result and errors are encoded by the format its settings name,
\* and no two profiles of a project keep their state in one file, for every
\* configuration, environment and set of flags (resolver.go).
THEOREM SettingsResolved == ConfigSpec => []SettingsAgree
<1>1. ConfigInit => ConfigInv
  BY DEF ConfigInit, ConfigInv
<1>2. ConfigInv /\ [ConfigNext]_answerVars => ConfigInv'
  <2>1. SUFFICES ASSUME ConfigInv, [ConfigNext]_answerVars PROVE ConfigInv'
    OBVIOUS
  <2>2. CASE ConfigNext
    BY <2>1, <2>2 DEF ConfigInv, ConfigNext, AnswerConfig, ConfigAnswer
  <2>3. CASE UNCHANGED answerVars
    BY <2>1, <2>3 DEF ConfigInv, answerVars
  <2>4. QED BY <2>1, <2>2, <2>3
<1>3. ConfigInv => SettingsAgree
  <2>1. CASE answer = Unanswered
    BY <2>1 DEF Unanswered, SettingsAgree, OutputAgrees, ProfilesOwnTheirState
  <2>2. CASE ConfigInput(input) /\ answer = ConfigAnswer(input)
    BY <2>2, AnswerEncodes, AnswerKeepsStates DEF SettingsAgree
  <2>3. QED BY <2>1, <2>2 DEF ConfigInv
<1>4. QED BY <1>1, <1>2, <1>3, PTL DEF ConfigSpec
=============================================================================
