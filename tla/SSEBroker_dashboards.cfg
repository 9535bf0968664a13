\* Two dashboards.  The broker stops for good, so behaviours may end.
SPECIFICATION FairSpec
CONSTANTS
    Dashboards = {d1, d2}
    Details = {}
    ChannelSize = 1
    MaxClients = 2
    NotifySize = 2
    MaxChanges = 2
INVARIANTS TypeOK
PROPERTIES NoSendAfterClose DashboardsShowChanges
CHECK_DEADLOCK FALSE
