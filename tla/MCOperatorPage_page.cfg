\* Two tabs, a changed token, a page opened with the old token or the new one, a
\* request without an answer.
SPECIFICATION PageFairSpec
CONSTANTS
    Tabs = {t1, t2}
    Locations = {l1}
    MaxDeploys = 1
    MaxOpens = 1
    MaxFailures = 1
INVARIANTS PageTypeOK ShownNotAhead
PROPERTIES PageCatchesUp
