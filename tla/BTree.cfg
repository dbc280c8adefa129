\* Nodes of at most three keys, trees of at most ten, which make three levels.
CONSTANTS
    N = 3
    MaxKeys = 10
    MaxNodes = 12
SPECIFICATION Spec
INVARIANTS
    TypeOK
    ContentsRight
    LinksExact
    BalancedAndFilled
    LookupsRight
    AnswersRight
