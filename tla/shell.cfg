SPECIFICATION FairSpec
CONSTANTS
    r1 = r1
    r2 = r2
    l1 = l1
    c1 = c1
    c2 = c2
    c3 = c3
    Handler = {r1, r2}
    Reader = {l1}
    Call = {c1, c2}
    Nobody = Nobody
    NoCall = NoCall
INVARIANT TypeOK
PROPERTIES
    RequestsReturn
    TimersEnd
