CONSTANTS
    b1 = b1
    b2 = b2
    e1 = e1
    e2 = e2
    Burns = {b1, b2}
    Amount <- OneEach
    Exits = {e1, e2}
    Wei <- WithDust
    Scale = 2
    Confirms = 1
    ReorgBuffer = 1
    Reserve = 1
    Circulating = 2
    NoBurn = NoBurn
    NoCursor = NoCursor
    MaxHead = 3
    MaxNonce = 1
SPECIFICATION FairSpec
INVARIANTS ExportBacked CreditedFinal
 
