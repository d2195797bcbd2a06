SPECIFICATION Spec
CONSTANTS
    a = a
    b = b
    wrong = wrong
    p1 = p1
    None = None
    Projects = {p1}
    Tokens <- MCTokens
    Secrets <- MCSecrets
    Parts <- MCParts
    Generated = {"second"}
    Short = {"short"}
    Envs <- MCEnvs
    OldDatabases <- MCOld
    Handlers = {h1}
    Hooks <- MCHooks
    Tabs = {t1, t2}
    Options <- MCOptions
    MaxFaults = 1
    MaxEdits = 1
    MaxRequests = 3
    MaxChanges = 2
INVARIANTS SecretShown DecisionsStand TogglesHold
PROPERTIES SecretStable 
CHECK_DEADLOCK FALSE
