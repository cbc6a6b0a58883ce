SPECIFICATION Spec
CONSTANTS
    a = a  b = b  c = c  t = t
    Tx = {t}
    Conn = {a, c, b}
    Incoming = {b}
    Steady = {a}
    Rpc = {r1}
    Ticker = ticker
    Self = self
    NoConn = none
    Offers <- MCOffers
    HiddenOffers = {t}
    Submits = {t}
    Stems = 2
    MaxEvents = 2
INVARIANTS StemsOK HiddenStaysHidden
PROPERTIES  GoesOut
CHECK_DEADLOCK FALSE
