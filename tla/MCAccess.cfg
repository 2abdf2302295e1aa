SPECIFICATION Spec
CONSTANTS
    root = root  adm = adm  system = system  custom = custom
    default = default  squad = squad  retro = retro  sess = sess
    Admins = {root, adm, new}  Roots = {root}
    Roles = {system, custom}  SystemRoles = {system}
    Teams = {default, squad}  Default = default
    Records = {retro, sess}  Retros = {retro}
    Tokens = {k1, k2}  k1 = k1  k2 = k2  Signed <- MCSigned  Handlers = {h1, h2}
    Forms <- MCForms
    MaxFailures = 1  MaxRequests = 3  MaxCrashes = 1  None = None
INVARIANTS OldTokensEnd SomebodyRemains LimitLifts
PROPERTIES OnlyMissedDetached
CHECK_DEADLOCK FALSE
