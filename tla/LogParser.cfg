SPECIFICATION Spec
CONSTANTS
    m1 = m1
    m2 = m2
    Lines <- MCLines
    Branches = {1, 2}
    Texts = {m1, m2}
    Results = {"disabled-by-config", "onboarding"}
    None = None
    MaxLogIssues = 1
    MaxPRDetails = 1
    MaxLines = 4
CHECK_DEADLOCK FALSE
INVARIANTS  ActionsExact SummaryExact
