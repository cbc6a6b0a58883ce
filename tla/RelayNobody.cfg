SPECIFICATION Spec
CONSTANTS
    a = a  b = b  c = c  t = t
    Tx = {t}
    Conn = {a, b}
    Incoming = {b}
    Steady = {a}
    Rpc = {r1}
    Ticker = ticker
    Self = self
    NoConn = none
    Offers <- MCOffers
    HiddenOffers = {}
    Submits = {}
    Stems = 2
    MaxEvents = 1
PROPERTY AllGoOut
CHECK_DEADLOCK FALSE
