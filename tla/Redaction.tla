------------------------------ MODULE Redaction ------------------------------
(* The pure part of the data-class guardrails: how detector hits are fused,  *)
(* gated by the resolved policy and cut out of a text.                       *)
(*                                                                           *)
(* A text of n characters is <<1, .., n>>: a character is named by its       *)
(* place, and Mark stands for any character a mask puts in. Of a character   *)
(* only its kind matters: an ASCII letter, a digit, or another one. A hit    *)
(* covers the characters after lo, up to and including hi (text[lo:hi]).     *)
(* Confidence is counted in tenths.                                          *)
EXTENDS Integers, Sequences, FiniteSets

CONSTANTS
  Kinds,     \* place -> "letter", "digit" or "other"
  Kept       \* how many characters LAST_4 and FIRST_4 keep: 4 in the code

Mark == 0
LevelOrder == <<"allow", "warn", "redact", "shadow_block", "block">>
PlaceholderLength == 3       \* stands for any mask of a fixed length

Least(S) == CHOOSE i \in S : \A j \in S : i <= j

Overlap(a, b) == a.lo < b.hi /\ b.lo < a.hi

-----------------------------------------------------------------------------
\* sort(key=...) is stable: keys are triples, and equal ones stay in place

Before(key, i, j) ==
  LET a == key[i]
      b == key[j]
  IN  \/ a[1] < b[1]
      \/ a[1] = b[1] /\ a[2] < b[2]
      \/ a[1] = b[1] /\ a[2] = b[2] /\ (a[3] < b[3] \/ (a[3] = b[3] /\ i < j))

\* the places in I from first to last: k - 1 of them come before the k-th
Places(I, key) ==
  [k \in 1 .. Cardinality(I) |->
     CHOOSE i \in I : Cardinality({j \in I : Before(key, j, i)}) = k - 1]

Sorted(s, key) == [k \in DOMAIN s |-> s[Places(DOMAIN s, key)[k]]]

\* the places in I as they stand, and the elements of s at them
InPlace(I) == Places(I, [i \in I |-> <<0, 0, 0>>])
Taken(s, I) == [k \in 1 .. Cardinality(I) |-> s[InPlace(I)[k]]]

-----------------------------------------------------------------------------
\* fuse_hits: overlapping hits of one class become one hit

\* the buckets, one after the other in the order in which their classes are
\* first seen, each sorted by start and end
ByClass(raw) ==
  LET seen(i) == Least({j \in DOMAIN raw : raw[j].class = raw[i].class})
  IN  Sorted(raw, [i \in DOMAIN raw |-> <<seen(i), raw[i].lo, raw[i].hi>>])

\* a hit joins the cluster before it when it overlaps that cluster's last hit
Starts(hits) ==
  {i \in DOMAIN hits :
     i = 1 \/ hits[i - 1].class # hits[i].class \/ ~Overlap(hits[i - 1], hits[i])}

ClusterAt(hits, i) ==
  {j \in DOMAIN hits : i <= j /\ \A m \in i + 1 .. j : m \notin Starts(hits)}

\* Python's max(): the first of the most confident hits
MostConfident(hits, I) == hits[Places(I, [i \in I |-> <<-hits[i].conf, 0, 0>>])[1]]

FusedHit(hits, cluster) ==
  LET checksummed == {i \in cluster : hits[i].tier = "tier1"}
      primary     == MostConfident(hits, IF checksummed # {} THEN checksummed ELSE cluster)
      others      == {i \in cluster : hits[i].tier # primary.tier}
  IN  IF others = {} THEN primary
      ELSE [primary EXCEPT !.tier  = "consensus",
                           !.conf  = IF @ = 10 THEN 10 ELSE @ + 1,
                           !.rules = @ \cup hits[Least(others)].rules]

FuseHits(raw) ==
  LET hits   == ByClass(raw)
      starts == Starts(hits)
  IN  [k \in 1 .. Cardinality(starts) |-> FusedHit(hits, ClusterAt(hits, InPlace(starts)[k]))]

-----------------------------------------------------------------------------
\* apply_guardrails: the gates of the resolved policy

\* policy: a function from classes to [level, style, floor, consensus, off]
DetectorEnabled(rules, off) == rules \cap off = {}

Accepted(hits, policy) ==
  Taken(hits, {i \in DOMAIN hits :
    LET h == hits[i]
    IN  /\ h.conf >= policy[h.class].floor
        /\ policy[h.class].consensus => h.tier = "consensus"
        /\ DetectorEnabled(h.rules, policy[h.class].off)})

HitsAt(level, hits, policy) ==
  Taken(hits, {i \in DOMAIN hits : policy[hits[i].class].level = level})

-----------------------------------------------------------------------------
\* mask styles and _apply_redactions

Matched(h) == h.lo + 1 .. h.hi
Digits(h) == {i \in Matched(h) : Kinds[i] = "digit"}

\* the last of the places in I, or the first of them
Outermost(style, I) ==
  {i \in I : Cardinality({j \in I : IF style = "last" THEN i < j ELSE j < i}) < Kept}

\* where a run of letters begins
InitialsOf(h) ==
  {i \in Matched(h) : Kinds[i] = "letter" /\ (i - 1 \in Matched(h) => Kinds[i - 1] # "letter")}

\* What a mask of that style still shows of the characters it replaces: LAST_4
\* and FIRST_4 mask digits alone when there are enough of them.
Shown(style, h) ==
  CASE style \in {"last", "first"} ->
         IF Cardinality(Digits(h)) < Kept THEN Outermost(style, Matched(h))
         ELSE (Matched(h) \ Digits(h)) \cup Outermost(style, Digits(h))
    [] style = "initial" -> InitialsOf(h)
    [] OTHER             -> {}

\* the initials in their order, each with a point after it and, but for the
\* last, a blank
Initials(h) ==
  [i \in 1 .. 3 * Cardinality(InitialsOf(h)) - 1 |->
     IF i % 3 = 1 THEN InPlace(InitialsOf(h))[(i + 2) \div 3] ELSE Mark]

RenderMask(style, h) ==
  CASE style \in {"last", "first"} ->
         [i \in 1 .. h.hi - h.lo |-> IF h.lo + i \in Shown(style, h) THEN h.lo + i ELSE Mark]
    [] style = "initial" /\ InitialsOf(h) # {} -> Initials(h)
    [] style = "strip" -> <<>>
    [] OTHER           -> [i \in 1 .. PlaceholderLength |-> Mark]

\* out[:lo] + replacement + out[hi:], slices that end where the text ends
Splice(out, h, replacement) ==
  SubSeq(out, 1, IF h.lo < Len(out) THEN h.lo ELSE Len(out))
    \o replacement \o SubSeq(out, h.hi + 1, Len(out))

\* mutant: the first hit is replaced first
ByStart_Ascending(hits) == Sorted(hits, [i \in DOMAIN hits |-> <<hits[i].lo, 0, 0>>])

\* the hits are replaced from the one that starts last to the first
ByStart(hits) == Sorted(hits, [i \in DOMAIN hits |-> <<-hits[i].lo, 0, 0>>])

\* out[k] is the text after the first k replacements
ApplyRedactions(text, hits, policy) ==
  LET ordered == ByStart(hits)
      out[k \in 0 .. Len(ordered)] ==
        IF k = 0 THEN text
        ELSE LET h == ordered[k]
             IN  Splice(out[k - 1], h, RenderMask(policy[h.class].style, h))
  IN  out[Len(ordered)]
=============================================================================
