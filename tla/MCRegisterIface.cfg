SPECIFICATION FairSpec
CONSTANTS
    r1 = r1
    s1 = s1
    x1 = x1
    Reg <- MCReg
    Stat <- MCStat
    Beyond <- MCBeyond
    Data <- MCData
    Masters <- MCMasters
INVARIANTS
    TypeOK
    TakenOnce
    AnsweredOnce
    AnsweredIsReadable
    ReadReturnsHeld
PROPERTIES
    WriteAnswered
    ReadAnswered
