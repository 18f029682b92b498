SPECIFICATION Spec
CONSTANTS
    root = root
    alice = alice
    bob = bob
    Identity = {root, alice, bob}
    MAX_ATTEMPTS = 3
    SpawnMayFail = TRUE
    MaxAnswers = 2
INVARIANT ReturnsOnce
CHECK_DEADLOCK FALSE
