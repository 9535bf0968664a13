\* Every text of up to five tokens; an attempt really ends.
SPECIFICATION Spec
CONSTANT MaxText = 5
INVARIANTS ReportFound TransportsAgree
CHECK_DEADLOCK FALSE
