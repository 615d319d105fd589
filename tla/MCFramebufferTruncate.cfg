SPECIFICATION Spec
CONSTANTS
    Width = 4
    Rows = 3
    Xs <- MCXs
    Ys <- MCYs
    Widths = {0, 1, 3}
    Heights = {0, 1, 4, 7, 8, 9, 12, 15, 16, 17, 20}
INVARIANT TruncatesAtBorder
\* The function returns.
CHECK_DEADLOCK FALSE
