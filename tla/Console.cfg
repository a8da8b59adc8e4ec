\* Two accounts, the first without a password, or one bot whose login is interactive.
SPECIFICATION Spec
CONSTANTS
    Accounts = {a, b}
    NoOne = noone
    Rows = 2
    ShopRows = 1
    MaxNews = 2
    MaxDigits = 1
    Lines = {x, y, bad}
    Refused = {bad}
    Empty = empty
    MaxHistory = 2
INVARIANTS KeysSound DraftIsKept
\* The user may leave.
CHECK_DEADLOCK FALSE
