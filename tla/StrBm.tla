------------------------------- MODULE StrBm -------------------------------
(***************************************************************************)
(* The Boyer-Moore search of src/str/bm.c, with or without a context that  *)
(* keeps the tables of the pattern.  Arrays begin at 0, as in C.           *)
(***************************************************************************)
EXTENDS Integers, FiniteSetsExt

CONSTANTS
  Alphabet,
  MaxPattern, MaxText   \* bounds: the lengths

ASSUME BmConstants == MaxPattern \in Nat /\ MaxText \in Nat

VARIABLES
  pattern, text,
  shift,     \* j, where the pattern is tried
  found      \* the position returned, -1 for NULL; -2 while searching

bmVars == <<pattern, text, shift, found>>

Strings(least, most) == UNION {[0 .. n - 1 -> Alphabet] : n \in least .. most}
Length(x) == Cardinality(DOMAIN x)

\* preBmBc: from the last place of c in x but the last place, to the end.
BadCharacter(x, c) ==
  LET at == {i \in 0 .. Length(x) - 2 : x[i] = c}
  IN  IF at = {} THEN Length(x) ELSE Length(x) - 1 - Max(at)

\* suffixes: the inner loop, downwards from g while x repeats dist further on.
Mismatch(x, g, dist) == Max({-1} \cup {h \in 0 .. g : x[h] # x[h + dist]})

\* suffixes: the loop, from m - 2 down.  s.suff[i] is how many characters up to i are
\* a suffix of x; those of the last stretch compared, g + 1 .. f, are looked up.
SuffixStep(x, s, i) ==
  LET m == Length(x)
      known == s.suff[i + m - 1 - s.f]
      g == Mismatch(x, IF i < s.g THEN i ELSE s.g, m - 1 - i)
  IN  IF i > s.g /\ known < i - s.g THEN [s EXCEPT !.suff[i] = known]
      ELSE [suff |-> [s.suff EXCEPT ![i] = i - g], f |-> i, g |-> g]

\* suffixes: the state of the loop after k rounds.
SuffixLoop(x) ==
  LET m == Length(x)
      loop[k \in 0 .. m - 1] ==
        IF k = 0 THEN [suff |-> [i \in 0 .. m - 1 |-> m], f |-> 0, g |-> m - 1]
        ELSE SuffixStep(x, loop[k - 1], m - 1 - k)
  IN  loop
SuffixTable(x) == SuffixLoop(x)[Length(x) - 1].suff

\* Mutant: a prefix of the pattern that is a suffix of what matched is not considered.
BugGoodSuffix(x, j) ==
  LET m == Length(x)
      again == {i \in 0 .. m - 2 : m - 1 - SuffixTable(x)[i] = j}
  IN  IF again = {} THEN m ELSE m - 1 - Max(again)

\* preBmGs: the shift when the characters behind j match and the one at j does not.
GoodSuffix(x, j) ==
  LET m == Length(x)
      suff == SuffixTable(x)
      again == {i \in 0 .. m - 2 : m - 1 - suff[i] = j}
      prefix == {i \in 0 .. m - 1 : suff[i] = i + 1 /\ j < m - 1 - i}
  IN  IF again # {} THEN m - 1 - Max(again)
      ELSE IF prefix # {} THEN m - 1 - Max(prefix) ELSE m

\* Where the comparison from the end stops; -1 when all of the pattern is there.
Compared(j) ==
  Max({-1} \cup {i \in 0 .. Length(pattern) - 1 : pattern[i] # text[i + j]})

\* Mutant: the bad character alone decides.
BugAdvance(i, j) == BadCharacter(pattern, text[i + j]) - Length(pattern) + 1 + i

\* The greater of the two shifts.
Advance(i, j) ==
  Max({GoodSuffix(pattern, i), BadCharacter(pattern, text[i + j]) - Length(pattern) + 1 + i})

\* The pattern is not empty: for one that is, the tables would be written before their start.
BmInit ==
  /\ pattern \in Strings(1, MaxPattern) /\ text \in Strings(0, MaxText)
  /\ shift = 0
  /\ found = IF Length(pattern) > Length(text) THEN -1 ELSE -2

\* An iteration of neb_str_bm_search or neb_str_bm_ctx_search.
BmStep ==
  /\ found = -2
  /\ IF shift > Length(text) - Length(pattern) THEN found' = -1 /\ UNCHANGED shift
     ELSE LET i == Compared(shift)
          IN  IF i < 0 THEN found' = shift /\ UNCHANGED shift
              ELSE shift' = shift + Advance(i, shift) /\ UNCHANGED found
  /\ UNCHANGED <<pattern, text>>

BmSpec == BmInit /\ [][BmStep]_bmVars

-----------------------------------------------------------------------------
OccursAt(k) ==
  k + Length(pattern) =< Length(text) /\ \A i \in DOMAIN pattern : text[k + i] = pattern[i]

(***************************************************************************)
(* However far the two tables let the search jump, it never jumps over an  *)
(* occurrence: what it returns is the first one, or there is none.         *)
(***************************************************************************)
FirstFound ==
  /\ \A k \in 0 .. shift - 1 : ~OccursAt(k)
  /\ found >= 0 => OccursAt(found)
  /\ found = -1 => \A k \in 0 .. Length(text) : ~OccursAt(k)

\* The search always moves on: a shift of 0 or less would repeat for ever.
BmAdvances ==
  found = -2 /\ shift =< Length(text) - Length(pattern) /\ Compared(shift) >= 0 =>
    Advance(Compared(shift), shift) > 0

(***************************************************************************)
(* The search of str/bm.c skips no occurrence and comes to an end.         *)
(***************************************************************************)
SearchRight == FirstFound /\ BmAdvances
=============================================================================
