\* Two operators and one incident.
SPECIFICATION Spec
CONSTANTS
    Operators = {o1, o2}
    NoOne = NoOne
    Webhook = Webhook
    MaxLost = 1
INVARIANTS OneTakesIt ToldResolvedIsResolved NotesOnce
PROPERTIES ResolvedRowFrozen
