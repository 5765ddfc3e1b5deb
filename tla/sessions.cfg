SPECIFICATION Spec
CONSTANTS
    here = here
    beside = beside
    away = away
    desk = desk
    phone = phone
    r1 = r1
    r2 = r2
    Tabs = {here, beside, away}
    Browsers = {desk, phone}
    BrowserOf <- MCBrowserOf
    Requests = {r1, r2}
    TabOf <- MCTabOf
    Kinds <- MCFewKinds
    LastVisit = 3
    LastSession = 3
INVARIANTS
    TypeOK
    EndedStaysEnded
    
    NoFalseAlarm
CHECK_DEADLOCK FALSE
