SPECIFICATION FairSpec
CONSTANTS
    here = here
    beside = beside
    away = away
    desk = desk
    phone = phone
    r1 = r1
    r2 = r2
    Tabs = {here}
    Browsers = {desk}
    BrowserOf <- MCBrowserOf
    Requests = {r1, r2}
    TabOf <- MCTabOf
    Kinds <- MCKinds
    LastVisit = 2
    LastSession = 3
INVARIANTS
    NoFalseAlarm
    ExecutedOnce
PROPERTY RequestsEnd
CHECK_DEADLOCK FALSE
