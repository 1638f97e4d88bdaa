CONSTANTS
    b1 = b1
    b2 = b2
    e1 = e1
    e2 = e2
    Burns = {b1, b2}
    Amount <- OneAndTwo
    Exits = {e1, e2}
    Wei <- TwoWhole
    Scale = 2
    Confirms = 1
    ReorgBuffer = 1
    Reserve = 1
    Circulating = 3
    NoBurn = NoBurn
    NoCursor = NoCursor
    MaxHead = 3
    MaxNonce = 1
SPECIFICATION SmoothSpec
PROPERTIES ExitsCredited
