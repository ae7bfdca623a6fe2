CONSTANTS Auths = {a1,a2}
Submits = {s1,s2}
Logouts = {l1}
Approvers = {}
Restricted = {FALSE}
MaxIssue = 2
MaxFaults = 0
Rival = Rival
None = None
SPECIFICATION Spec
INVARIANT SettledTogether
CHECK_DEADLOCK FALSE
