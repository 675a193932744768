SPECIFICATION Spec
CONSTANTS
    Widths = {11, 14, 15}
    Follow <- MCFollow
INVARIANTS
    RoundTrip
    Shortest
