\* Two tabs, two calls that go through the interceptor, two sessions, two faults.
SPECIFICATION Spec
CONSTANTS
    t1 = t1 t2 = t2 c1 = c1 c2 = c2 s1 = s1 s2 = s2
    Tabs = {t1, t2}
    Calls = {c1, c2}
    TabOf <- TwoCalls
    Sessions = {s1, s2}
    None = None Cleared = Cleared
    MaxFaults = 2
    MaxInFlight = 1
INVARIANTS SessionKept
PROPERTIES LogoutRevokes CallsSettle
