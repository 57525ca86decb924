CONSTANTS
    Session = {s1, s2, s3}
    Pid = {p1, p2, p3}
    MaxStarts = 3
SPECIFICATION Spec
INVARIANT OneElected
CHECK_DEADLOCK FALSE
