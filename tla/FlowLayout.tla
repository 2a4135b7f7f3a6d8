----------------------------- MODULE FlowLayout -----------------------------
(***************************************************************************)
(* ImageFlowLayout::doLayout: pictures laid out in rows, each scaled down  *)
(* so that a row of its kind fills the width.  A rectangle is a record of  *)
(* x, y, width and height; an item is its size hint.  Rounding of doubles  *)
(* is left out: quotients are rounded down.                                *)
(***************************************************************************)
EXTENDS Integers, Sequences

CONSTANTS
    Margin,     \* all four contents margins
    SpaceX, SpaceY

ASSUME SpacingAssumption == Margin \in Nat /\ SpaceX \in Nat \ {0} /\ SpaceY \in Nat

Effective(rect) ==
    [x |-> rect.x + Margin, y |-> rect.y + Margin,
     width |-> rect.width - 2 * Margin, height |-> rect.height - 2 * Margin]

\* QRect::right() is the last column inside.
Right(rect) == rect.x + rect.width - 1

CeilDiv(a, b) == (a + b - 1) \div b

\* Mutant: the number of pictures in a row is rounded down.
FloorTargetWidth(width, item) ==
    LET n == width \div (item.width + SpaceX) IN
    width \div (IF n = 0 THEN 1 ELSE n) - SpaceX

\* The width at which a row of such items fills the layout.
TargetWidth(width, item) == width \div CeilDiv(width, item.width + SpaceX) - SpaceX

TargetHeight(width, item) == (item.height * TargetWidth(width, item)) \div item.width

\* One item: it begins a new row when it would end beyond the right border,
\* unless nothing of any height is in the row.
Place(rect, at, item) ==
    LET area == Effective(rect)
        target_width == TargetWidth(area.width, item)
        target_height == TargetHeight(area.width, item)
        wraps == at.x + target_width > Right(area) /\ at.lineHeight > 0
        x == IF wraps THEN area.x ELSE at.x
        y == IF wraps THEN at.y + at.lineHeight + SpaceY ELSE at.y
        lineHeight == IF wraps THEN 0 ELSE at.lineHeight
    IN [x |-> x + target_width + SpaceX, y |-> y,
        lineHeight |-> IF lineHeight < target_height THEN target_height ELSE lineHeight,
        placed |-> Append(at.placed,
                          [x |-> x, y |-> y, width |-> target_width, height |-> target_height])]

\* The loop over the items begins in the corner; what it returns at its end.
Corner(rect) == [x |-> Effective(rect).x, y |-> Effective(rect).y, lineHeight |-> 0, placed |-> <<>>]
LayoutHeight(rect, end) == end.y + end.lineHeight - rect.y + Margin

\* heightForWidth, which QLayout asks for before it calls setGeometry, lays the
\* items out in a rectangle of its own.
Measured(width) == [x |-> 0, y |-> 0, width |-> width, height |-> 0]
=============================================================================
