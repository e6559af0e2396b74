SPECIFICATION Spec
CONSTANTS
    Emails = {e1}
    Ips = {i1}
    Requests = {r1, r2, r3}
    Verifiers = {v1, v2}
    CodeTtl = 2
    Cooldown = 1
    IpWindow = 2
    IpMax = 2
    MaxAttempts = 1
    SessionTtl = 1
    Retention = 0
    Registration = TRUE
    MaxNow = 2
    e1 = e1
    r3 = r3
    i1 = i1
    r1 = r1
    r2 = r2
    v1 = v1
    v2 = v2
SYMMETRY Symmetry
CHECK_DEADLOCK FALSE
INVARIANT TypeOK
INVARIANT AcceptedCodeIsLive
INVARIANT CooldownBetweenAnswers
PROPERTY RedeemsNewestOnce
