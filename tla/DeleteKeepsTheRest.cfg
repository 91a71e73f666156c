SPECIFICATION Spec
CONSTANTS
    m1 = m1
    s1 = s1
    sha1 = sha1
    sha2 = sha2
    alice = alice
    bob = bob
    Messages = {m1}
    Senders = {s1}
    Shas = {sha1, sha2}
    Inherit = Inherit
    Operator = {alice, bob}
    Boot = Boot
    None = None
    Threads = 1
    Keep = 1
    LastSecond = 1
    MaxRules = 2
    MaxSaves = 3
    MaxStarts = 1
SYMMETRY Symmetry
PROPERTY
    DeleteKeepsTheRest
CHECK_DEADLOCK FALSE
