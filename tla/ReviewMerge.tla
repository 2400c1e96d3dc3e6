----------------------------- MODULE ReviewMerge -----------------------------
(***************************************************************************)
(* How the text of a reviewed document comes back to the Markdown sources  *)
(* (internal/reviewsync): BuildSourceMap finds the blocks of the sources   *)
(* in the baseline export (source_map.go), ClassifyReview compares it with *)
(* the reviewed export (align.go, sequence.go), BuildProposals merges the  *)
(* safe changes with those of the author (merge.go) and BuildPatch writes  *)
(* what changes (patch.go).                                                *)
(*                                                                         *)
(* A block has a visible text, a kind and links or none; the levels of     *)
(* headings, the kinds of lists and the inline markup are told apart the   *)
(* way kinds are.  A source is a sequence of lines, with one line for a    *)
(* block and blank lines between; the bytes of a line, its end and the     *)
(* limits on the size of a comparison are left out.                        *)
(***************************************************************************)
EXTENDS Integers, Sequences, SequencesExt, FiniteSetsExt

BlankLine == [text |-> "", kind |-> "blank", link |-> FALSE]
Eligible(kind) == kind \in {"para", "quote"}

\* The elements of a set that Before puts in order.
Ordered(S, Before(_, _)) ==
    [k \in 1..Cardinality(S) |-> CHOOSE x \in S : Cardinality({y \in S : Before(y, x)}) = k - 1]

-----------------------------------------------------------------------------
(* Matching of two sequences.  A half-open range lo..hi holds lo+1..hi.      *)

\* A longest increasing chain; the code's is that of patience sorting.
LongestChain(pairs) ==
    LET chains == {c \in SUBSET pairs : \A p, q \in c : p[1] < q[1] => p[2] < q[2]} IN
    CHOOSE c \in chains : \A d \in chains : Cardinality(d) <= Cardinality(c)

\* What occurs once on both sides.
UniqueAnchors(left, right, lo, hi, rlo, rhi) ==
    LongestChain({<<i, j>> \in ((lo + 1)..hi) \X ((rlo + 1)..rhi) :
        /\ left[i] = right[j]
        /\ \A k \in (lo + 1)..hi : left[k] = left[i] => k = i
        /\ \A k \in (rlo + 1)..rhi : right[k] = right[j] => k = j})

\* The length of a longest common subsequence of what follows i and j.
RECURSIVE Common(_, _, _, _, _, _)
Common(left, right, i, hi, j, rhi) ==
    IF i >= hi \/ j >= rhi THEN 0
    ELSE IF left[i + 1] = right[j + 1] THEN 1 + Common(left, right, i + 1, hi, j + 1, rhi)
    ELSE Max({Common(left, right, i + 1, hi, j, rhi),
                       Common(left, right, i, hi, j + 1, rhi)})

RECURSIVE BoundedMatches(_, _, _, _, _, _)
BoundedMatches(left, right, i, hi, j, rhi) ==
    IF i >= hi \/ j >= rhi THEN {}
    ELSE IF left[i + 1] = right[j + 1]
       THEN {<<i + 1, j + 1>>} \cup BoundedMatches(left, right, i + 1, hi, j + 1, rhi)
    ELSE IF Common(left, right, i + 1, hi, j, rhi) >= Common(left, right, i, hi, j + 1, rhi)
       THEN BoundedMatches(left, right, i + 1, hi, j, rhi)
    ELSE BoundedMatches(left, right, i, hi, j + 1, rhi)

RECURSIVE MatchesIn(_, _, _, _, _, _)

MatchesAround(left, right, bounds) ==
    UNION {MatchesIn(left, right, bounds[k][1], bounds[k + 1][1] - 1,
                     bounds[k][2], bounds[k + 1][2] - 1) : k \in 1..(Len(bounds) - 1)}

\* Between the anchors, or without them.
MatchesBetween(left, right, lo, hi, rlo, rhi) ==
    LET anchors == Ordered(UniqueAnchors(left, right, lo, hi, rlo, rhi),
                           LAMBDA p, q : p[1] < q[1])
    IN  IF lo >= hi \/ rlo >= rhi THEN {}
        ELSE IF anchors = <<>> THEN BoundedMatches(left, right, lo, hi, rlo, rhi)
        ELSE ToSet(anchors) \cup
                      MatchesAround(left, right, <<<<lo, rlo>>>> \o anchors \o <<<<hi + 1, rhi + 1>>>>)

\* The common beginning and end, then what is between them.
MatchesIn(left, right, lo, hi, rlo, rhi) ==
    LET size == Min({hi - lo, rhi - rlo})
        head == Max({k \in 0..size : \A i \in 1..k : left[lo + i] = right[rlo + i]})
        tail == Max({k \in 0..(size - head) :
                        \A i \in 0..(k - 1) : left[hi - i] = right[rhi - i]})
    IN  {<<lo + i, rlo + i>> : i \in 1..head}
        \cup MatchesBetween(left, right, lo + head, hi - tail, rlo + head, rhi - tail)
        \cup {<<hi - i, rhi - i>> : i \in 0..(tail - 1)}

SequenceMatches(left, right) == MatchesIn(left, right, 0, Len(left), 0, Len(right))

\* The ranges between the matches: <<lo, hi, rlo, rhi>>.
Gaps(left, right, matches) ==
    LET points == <<<<0, 0>>>> \o Ordered(matches, LAMBDA p, q : p[1] < q[1])
                  \o <<<<Len(left) + 1, Len(right) + 1>>>>
    IN  {<<points[k][1], points[k + 1][1] - 1, points[k][2], points[k + 1][2] - 1>>
            : k \in 1..(Len(points) - 1)}

-----------------------------------------------------------------------------
(* The source map: the blocks of all members, in their order, in the export  *)

Compatible(source, remote) ==
    /\ source.text = remote.text
    /\ \/ source.kind = remote.kind
       \/ remote.kind = "para" /\ source.kind = "quote"

\* Mutation of Disambiguated: the first of several candidates is taken.
Disambiguated_First(blocks, i, export, candidates, cursor) == Min(candidates)

\* The one that follows the last match and its text, else the only one whose
\* successor is the next block.  0: none.
Disambiguated(blocks, i, export, candidates, cursor) ==
    LET following == {c \in candidates : c = cursor + 1 /\ c > 1 /\ i > 1
                                         /\ Compatible(blocks[i - 1], export[c - 1])}
        leading == {c \in candidates : c < Len(export) /\ i < Len(blocks)
                                       /\ Compatible(blocks[i + 1], export[c + 1])}
    IN  IF following # {} THEN Min(following)
        ELSE IF Cardinality(leading) = 1 THEN Min(leading)
        ELSE 0

\* The place of each block in the export, 0 for a table that is not found;
\* "refused" if a block that can be edited has no place, or more than one.
RECURSIVE Places(_, _, _, _)
Places(blocks, export, i, cursor) ==
    IF i > Len(blocks) THEN [ok |-> TRUE, at |-> <<>>]
    ELSE LET candidates == {c \in (cursor + 1)..Len(export) : Compatible(blocks[i], export[c])}
             chosen == IF Cardinality(candidates) < 2 THEN Max(candidates \cup {0})
                       ELSE Disambiguated(blocks, i, export, candidates, cursor)
             selected == IF chosen = 0 /\ candidates # {} THEN Min(candidates) ELSE chosen
             rest == Places(blocks, export, i + 1, Max({cursor, selected}))
         IN  [ok |-> rest.ok /\ (chosen = 0 => ~Eligible(blocks[i].kind)),
              at |-> <<selected>> \o rest.at]

\* An entry for each block of the export.  Nobody's blocks are generated.
SourceMap(members, export) ==
    LET owned == [m \in 1..Len(members) |->
                    [k \in 1..Len(members[m]) |->
                        [block |-> members[m][k], member |-> m, line |-> 2 * k - 1]]]
        all == FlattenSeq(owned)
        places == Places([i \in 1..Len(all) |-> all[i].block], export, 1, 0)
        Entry(c) ==
            LET i == CHOOSE i \in 1..Len(all) : places.at[i] = c IN
            IF \E j \in 1..Len(all) : places.at[j] = c
            THEN [text |-> export[c].text, baseline |-> export[c].kind, link |-> export[c].link,
                  generated |-> FALSE, kind |-> all[i].block.kind, track |-> all[i].block.link,
                  member |-> all[i].member, line |-> all[i].line]
            ELSE [text |-> export[c].text, baseline |-> export[c].kind, link |-> export[c].link,
                  generated |-> TRUE, kind |-> export[c].kind, track |-> FALSE,
                  member |-> 0, line |-> 0]
    IN  [ok |-> places.ok, entries |-> [c \in 1..Len(export) |-> Entry(c)]]

-----------------------------------------------------------------------------
(* The classification of one gap: the entries lo+1..hi became rlo+1..rhi     *)

Change(class, op, member, range, gap) ==
    [class |-> class, op |-> op, member |-> member, range |-> range, gap |-> gap]
Refusal(class, op, gap) == Change(class, op, 0, <<0, 0>>, gap)

LineOf(entry) == <<entry.line - 1, entry.line>>

\* The kinds that can be told to have been one another.
CompatibleKinds(source, remote) ==
    source = remote \/ (remote = "para" /\ source = "quote")

\* Links that are nobody's own came or went; the text is the same.
LinksOnly(e, x) ==
    ~e.generated /\ ~e.track /\ e.text = x.text /\ e.baseline = x.kind

EditClass(e, x, portable) ==
    IF LinksOnly(e, x) /\ ~portable THEN "unchanged"
    ELSE IF e.generated THEN "generated"
    ELSE IF ~Eligible(e.kind) \/ ~Eligible(x.kind) THEN "unsupported"
    ELSE IF ~CompatibleKinds(e.kind, x.kind) THEN "conflict"
    ELSE IF ~portable /\ (e.baseline # x.kind \/ e.track) THEN "unsupported"
    ELSE "safe"

ClassifyEdit(e, x, portable, gap) ==
    Change(EditClass(e, x, portable), "edit", e.member, LineOf(e), gap)

\* All of one member and between two more blocks of it.
DeletionAnchored(entries, lo, hi) ==
    /\ lo >= 1 /\ hi < Len(entries)
    /\ \A i \in lo..(hi + 1) : ~entries[i].generated /\ entries[i].member = entries[lo].member
    /\ \A i \in (lo + 1)..hi : Eligible(entries[i].kind)

ClassifyDeletion(entries, gap) ==
    LET lo == gap[1]  hi == gap[2]
        gone == {entries[i] : i \in (lo + 1)..hi}
    IN  IF \A e \in gone : e.generated THEN Refusal("generated", "delete", gap)
        ELSE IF DeletionAnchored(entries, lo, hi)
           THEN Change("safe", "delete", entries[hi].member,
                       <<entries[lo + 1].line - 1, entries[hi].line>>, gap)
        ELSE IF \E e \in gone : ~e.generated /\ ~Eligible(e.kind)
           THEN Refusal("unsupported", "delete", gap)
        ELSE Refusal("conflict", "delete", gap)

PlainReview(review, gap) ==
    \A j \in (gap[3] + 1)..gap[4] : Eligible(review[j].kind) /\ ~review[j].link

\* Pandoc gives a table no position.
InsertionAnchor(entries, i) == ~entries[i].generated /\ entries[i].kind # "table"

ClassifyInsertion(entries, review, gap) ==
    LET i == gap[1] IN
    IF ~PlainReview(review, gap) THEN Refusal("unsupported", "insert", gap)
    ELSE IF i < 1 \/ i = Len(entries) THEN Refusal("conflict", "insert", gap)
    ELSE IF entries[i].generated /\ entries[i + 1].generated
       THEN Refusal("generated", "insert", gap)
    ELSE IF InsertionAnchor(entries, i) /\ InsertionAnchor(entries, i + 1)
         /\ entries[i].member = entries[i + 1].member
       THEN Change("safe", "insert", entries[i].member,
                   <<entries[i + 1].line - 1, entries[i + 1].line - 1>>, gap)
    ELSE Refusal("conflict", "insert", gap)

ClassifyRewrite(entries, review, gap) ==
    LET gone == {entries[i] : i \in (gap[1] + 1)..gap[2]} IN
    IF \A e \in gone : e.generated THEN Refusal("generated", "edit", gap)
    ELSE IF \/ \E e \in gone : ~e.generated /\ ~Eligible(e.kind)
            \/ ~PlainReview(review, gap)
       THEN Refusal("unsupported", "edit", gap)
    ELSE Refusal("conflict", "edit", gap)

\* As many blocks as before are taken one by one when the copy is portable.
ClassifyGap(entries, review, gap, portable) ==
    LET old == gap[2] - gap[1]  new == gap[4] - gap[3]  IN
    IF old = 0 /\ new = 0 THEN {}
    ELSE IF old = new /\ (old = 1 \/ portable)
       THEN {ClassifyEdit(entries[gap[1] + k], review[gap[3] + k], portable,
                <<gap[1] + k - 1, gap[1] + k, gap[3] + k - 1, gap[3] + k>>) : k \in 1..old}
    ELSE IF new = 0 THEN {ClassifyDeletion(entries, gap)}
    ELSE IF old = 0 THEN {ClassifyInsertion(entries, review, gap)}
    ELSE {ClassifyRewrite(entries, review, gap)}

\* markAmbiguousDuplicates: the text of one of several equal blocks was edited,
\* or something was inserted next to one of them.
Occurs(entries, i) ==
    Cardinality({k \in DOMAIN entries :
        entries[k].text = entries[i].text /\ entries[k].baseline = entries[i].baseline})
OnceAt(entries, i) == i \in DOMAIN entries /\ Occurs(entries, i) = 1

AmbiguousDuplicate(entries, change) ==
    LET lo == change.gap[1]  hi == change.gap[2] IN
    CASE change.op = "edit" -> /\ Occurs(entries, hi) > 1
                               /\ ~OnceAt(entries, lo) /\ ~OnceAt(entries, hi + 1)
      [] change.op = "insert" -> ~OnceAt(entries, lo) \/ ~OnceAt(entries, lo + 1)
      [] OTHER -> FALSE

\* markMoves: what was deleted in one place was inserted in another.
Moved(entries, review, changes, change) ==
    LET Texts(c) == IF c.op = "delete"
                    THEN {<<entries[i].text, entries[i].baseline>> : i \in (c.gap[1] + 1)..c.gap[2]}
                    ELSE {<<review[j].text, review[j].kind>> : j \in (c.gap[3] + 1)..c.gap[4]}
    IN  /\ change.class # "generated"
        /\ \E other \in changes :
              /\ other.class # "generated" /\ {other.op, change.op} = {"insert", "delete"}
              /\ Texts(other) \cap Texts(change) # {}

Key(block, portable, kind) ==
    IF portable THEN <<block.text>> ELSE <<block.text, kind, block.link>>

MarkAmbiguous(entries, changes) ==
    {IF c.class = "safe" /\ AmbiguousDuplicate(entries, c) THEN [c EXCEPT !.class = "conflict"] ELSE c
        : c \in changes}

MarkMoves(entries, review, changes) ==
    {IF Moved(entries, review, changes, c) THEN [c EXCEPT !.class = "conflict"] ELSE c : c \in changes}

ClassifyGaps(entries, review, gaps, portable) ==
    MarkMoves(entries, review, MarkAmbiguous(entries,
        UNION {ClassifyGap(entries, review, gap, portable) : gap \in gaps}))

ClassifyReview(entries, review, portable) ==
    LET left == [i \in DOMAIN entries |-> Key(entries[i], portable, entries[i].baseline)]
        right == [j \in DOMAIN review |-> Key(review[j], portable, review[j].kind)]
        matches == SequenceMatches(left, right)
    IN  [matches |-> matches,
         changes |-> ClassifyGaps(entries, review, Gaps(left, right, matches), portable)]

-----------------------------------------------------------------------------
(* The merge.  An edit replaces the lines lo+1..hi.                          *)

\* The lines of a source: its blocks, with blank lines between.
Source(blocks) ==
    FlattenSeq([k \in DOMAIN blocks |->
                    IF k = Len(blocks) THEN <<blocks[k]>> ELSE <<blocks[k], BlankLine>>])

Edit(lo, hi, lines) == [lo |-> lo, hi |-> hi, lines |-> lines]

\* A deletion takes the blank lines that follow.
ThroughBlankLines(base, hi) ==
    Max({k \in hi..Len(base) : \A i \in (hi + 1)..k : base[i].kind = "blank"})

\* remoteSourceEdit: a replaced block keeps its kind, and loses links of its
\* own if the copy was portable; an inserted one gets a blank line.
RemoteEdit(base, entries, review, change) ==
    LET lo == change.range[1]  hi == change.range[2]
        New(j) == [review[j] EXCEPT !.link = FALSE]
    IN  CASE change.op = "delete" -> Edit(lo, ThroughBlankLines(base, hi), <<>>)
          [] change.op = "edit" ->
                Edit(lo, hi, <<[New(change.gap[4]) EXCEPT !.kind = entries[change.gap[2]].kind]>>)
          [] change.op = "insert" ->
                Edit(lo, hi, FlattenSeq([k \in 1..(change.gap[4] - change.gap[3]) |->
                                            <<New(change.gap[3] + k), BlankLine>>]))

\* The diff tells each deleted and each inserted line apart, but those that
\* are inserted before the first line.  coalesceTextEdits joins what is
\* inserted to the deletion before it, but no two insertions.
GapEdits(local, gap) ==
    LET lines == SubSeq(local, gap[3] + 1, gap[4]) IN
    IF gap[2] = 0 THEN <<Edit(0, 0, lines)>>
    ELSE IF gap[1] = gap[2] THEN [k \in DOMAIN lines |-> Edit(gap[1], gap[1], <<lines[k]>>)]
    ELSE [k \in 1..(gap[2] - gap[1]) |->
            Edit(gap[1] + k - 1, gap[1] + k, IF gap[1] + k = gap[2] THEN lines ELSE <<>>)]

\* textEdits: what the author did, as the line diff of a library shows it.
LocalEdits(base, local) ==
    LET gaps == Ordered(Gaps(base, local, BoundedMatches(base, local, 0, Len(base), 0, Len(local))),
                        LAMBDA g, h : g[2] + g[4] < h[2] + h[4])
    IN  FlattenSeq([k \in DOMAIN gaps |-> GapEdits(local, gaps[k])])

\* Mutation of RangesOverlap: two insertions at one place are taken for apart.
RangesOverlap_Empty(a, b) == a.lo < b.hi /\ b.lo < a.hi

\* An insertion meets the range it touches, two ranges must share a line.
RangesOverlap(a, b) ==
    IF a.lo = a.hi THEN a.lo >= b.lo /\ a.lo <= b.hi
    ELSE IF b.lo = b.hi THEN b.lo >= a.lo /\ b.lo <= a.hi
    ELSE a.lo < b.hi /\ b.lo < a.hi

Replace(lines, e) == SubSeq(lines, 1, e.lo) \o e.lines \o SubSeq(lines, e.hi + 1, Len(lines))

\* The last edit first, so that the ranges of the others stay what they are.
ApplyEdits(base, edits) ==
    FoldLeft(Replace, base, SetToSortSeq(edits, LAMBDA a, b : a.lo > b.lo))

\* validateNonOverlapping
Overlapping(edits) == \E i, j \in DOMAIN edits : i < j /\ RangesOverlap(edits[i], edits[j])

\* The new lines of one member, or a conflict.  The edits of the review are
\* compared with one another, with the author's, and all of them again before
\* they are applied: no two touch, not even two of the author's own.
Proposal(base, local, entries, review, changes, member) ==
    LET remote == {RemoteEdit(base, entries, review, c) :
                        c \in {d \in changes : d.class = "safe" /\ d.member = member}}
        author == LocalEdits(base, local)
        overlap == Overlapping(SetToSeq(remote) \o author)
    IN  [ok |-> ~overlap, remote |-> remote, author |-> ToSet(author),
         lines |-> IF overlap THEN local ELSE ApplyEdits(base, remote \cup ToSet(author))]

Conflicts(changes) == {c \in changes : c.class \in {"conflict", "unsupported"}}

-----------------------------------------------------------------------------
(* The patch: one hunk from the first line to the last                       *)

Signed(sign, lines, lo, hi) == [k \in 1..(hi - lo) |-> <<sign, lines[lo + k]>>]

FilePatch(before, after) ==
    LET matches == SequenceMatches(before, after)
        order == Ordered(Gaps(before, after, matches), LAMBDA g, h : g[2] + g[4] < h[2] + h[4])
    IN  FlattenSeq([k \in DOMAIN order |->
            LET g == order[k] IN
            (IF k = 1 THEN <<>> ELSE <<<<" ", before[g[1]]>>>>)
            \o Signed("-", before, g[1], g[2]) \o Signed("+", after, g[3], g[4])])
=============================================================================
