SPECIFICATION AggrLiveSpec
CONSTANTS
    Adders = {a1, a2}
    max_msg_cnt = 2
    IndexMod = 3
    MaxAdds = 4

    
PROPERTIES
    AddsReturn
    FiniReturns
CHECK_DEADLOCK FALSE
