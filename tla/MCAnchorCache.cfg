SPECIFICATION AnchorSpec
CONSTANTS
    Thread = {t1, t2}
    None = none
    LastOld = 3
    Top = 6
    Block <- MCBlock
    Height <- MCHeight
    Parent <- MCParent
    Anc <- MCAnc
    Skip <- MCSkip
    V14 <- MCV14
INVARIANTS
    AnchorOfActivation
