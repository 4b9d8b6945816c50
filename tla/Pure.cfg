\* Texts of five characters from five, four links, trees of six nodes, three
\* candidates, four lines of Markdown, argument objects of three fields.
SPECIFICATION Spec
CONSTANTS
    Alphabet <- MCAlphabet
    Newline = "nl"
    Blank = " "
    Digits <- MCDigits
    MaxLineLength = 2
    MaxText = 5
    MaxRaw = 4
    MaxTree = 6
    MaxCandidates = 3
    MaxLines = 4
    MaxFields = 3
CHECK_DEADLOCK FALSE
INVARIANTS
    TruncationIsTold
    LinesAreKept
    ArgumentsAreAsDeclared
    PageIsReduced
