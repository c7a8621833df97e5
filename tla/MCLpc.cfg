\* All short texts and the near misses; every property that holds.
SPECIFICATION FairSpec
CONSTANTS
    Inherit <- H
    Return <- R
    Types <- TypeWords
    Texts <- AllTexts
    None = None
INVARIANTS TypeOK LexerRight ParserRight AstComplete
PROPERTY Stops
CHECK_DEADLOCK FALSE
