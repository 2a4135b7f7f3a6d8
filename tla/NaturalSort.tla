----------------------------- MODULE NaturalSort -----------------------------
(***************************************************************************)
(* The order of file names (natural_sort::compare).  A name is a sequence  *)
(* of character codes.  An iterator is a position; the character at a      *)
(* std::string's end is 0, and beyond it lies memory of no name: from      *)
(* there on the comparison may come out either way.                        *)
(***************************************************************************)
EXTENDS Integers, Sequences

Space == 32
Dot == 46
Zero == 48
Digits == 48 .. 57

At(name, i) == IF i =< Len(name) THEN name[i] ELSE 0
ToLower(c) == IF c \in 65 .. 90 THEN c + 32 ELSE c
NaturalLess(c, d) == ToLower(c) < ToLower(d)

\* The position of the first character from i on that is not in a set.
FirstOutside(set, name, i) ==
    CHOOSE k \in i .. Len(name) + 1 :
        /\ k = Len(name) + 1 \/ name[k] \notin set
        /\ \A l \in i .. k - 1 : name[l] \in set

WithoutLeadingZeros(digits) == SubSeq(digits, FirstOutside({Zero}, digits, 1), Len(digits))

\* -1, 0 or 1 by the first position up to `length' in which they differ.
CompareDigits(lhs, rhs, length) ==
    IF \A k \in 1 .. length : lhs[k] = rhs[k] THEN 0
    ELSE LET k == CHOOSE k \in 1 .. length : lhs[k] # rhs[k] /\ \A l \in 1 .. k - 1 : lhs[l] = rhs[l]
         IN IF lhs[k] < rhs[k] THEN -1 ELSE 1

AllZeros(digits, from) == \A k \in from .. Len(digits) : digits[k] = Zero

\* Mutant: the lengths of numbers are not compared.
NonFractionalByDigits(lhs, rhs) ==
    LET common == IF Len(lhs) < Len(rhs) THEN Len(lhs) ELSE Len(rhs) IN
    CompareDigits(lhs, rhs, common)

\* compare_number of two runs of digits behind a dot, and of two others.
Fractional(lhs, rhs) ==
    LET common == IF Len(lhs) < Len(rhs) THEN Len(lhs) ELSE Len(rhs) IN
    CASE CompareDigits(lhs, rhs, common) # 0 -> CompareDigits(lhs, rhs, common)
      [] CompareDigits(lhs, rhs, common) = 0 ->
            IF AllZeros(lhs, common + 1) /\ AllZeros(rhs, common + 1) THEN 0
            ELSE IF Len(lhs) = common THEN -1 ELSE 1

NonFractional(lhs, rhs) ==
    LET l == WithoutLeadingZeros(lhs)
        r == WithoutLeadingZeros(rhs)
    IN IF Len(l) < Len(r) THEN -1 ELSE IF Len(l) > Len(r) THEN 1
       ELSE CompareDigits(l, r, Len(l))

\* Returns TRUE, which is 1, and FALSE, which is 0, for a run behind a dot and
\* one that is not.
CompareNumber(lhs, fractional1, rhs, fractional2) ==
    CASE fractional1 /\ ~fractional2 -> 1
      [] ~fractional1 /\ fractional2 -> 0
      [] fractional1 /\ fractional2 -> Fractional(lhs, rhs)
      [] ~fractional1 /\ ~fractional2 -> NonFractional(lhs, rhs)

\* _compare, called with the two whole names: what the turn of its loop at the
\* positions i and j may return, with a flag for a space just passed in each.
Compare(s, t) ==
    LET outcomes[i \in 1 .. Len(s) + 2, j \in 1 .. Len(t) + 2,
                 space1 \in BOOLEAN, space2 \in BOOLEAN] ==
        IF i > Len(s) \/ j > Len(t) THEN {i > Len(s) /\ j =< Len(t)}
        ELSE LET i1 == IF space1 THEN FirstOutside({Space}, s, i) ELSE i
                 j1 == IF space2 THEN FirstOutside({Space}, t, j) ELSE j
                 c == At(s, i1)
                 d == At(t, j1)
             IN IF ~(c \in Digits /\ d \in Digits)
                THEN IF NaturalLess(c, d) \/ NaturalLess(d, c) THEN {NaturalLess(c, d)}
                     ELSE IF i1 > Len(s) THEN BOOLEAN
                     ELSE outcomes[i1 + 1, j1 + 1, c = Space, d = Space]
                ELSE LET i2 == FirstOutside(Digits, s, i1)
                         j2 == FirstOutside(Digits, t, j1)
                         result == CompareNumber(
                            SubSeq(s, i1, i2 - 1), i1 > 1 /\ At(s, i1 - 1) = Dot,
                            SubSeq(t, j1, j2 - 1), j1 > 1 /\ At(t, j1 - 1) = Dot)
                     IN IF result # 0 THEN {result < 0} ELSE outcomes[i2, j2, FALSE, FALSE]
    IN outcomes[1, 1, FALSE, FALSE]
=============================================================================
