\* A detail page that awaits its diagnosis.
SPECIFICATION FairSpec
CONSTANTS
    Dashboards = {}
    Details = {p1}
    ChannelSize = 1
    MaxClients = 1
    NotifySize = 2
    MaxChanges = 1
PROPERTIES DetailsShowChanges
CHECK_DEADLOCK FALSE
