CONSTANTS
    q1 = q1
    q2 = q2
    q3 = q3
    n1 = n1
    n2 = n2
    Request = {q1, q2, q3}
    Nonce = {n1, n2}
    NonceOf <- MCNonceOf
    Mergeable = {q1, q2}
    Owner = petrus
    Deciders = {petrus, lead}
    NoOne = NoOne
    NoRequest = NoRequest
    MaxCrashes = 1
SPECIFICATION Spec
PROPERTIES
    NeverBackwards
CHECK_DEADLOCK FALSE
