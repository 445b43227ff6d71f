SPECIFICATION FairSpec
CONSTANTS
    p1 = p1
    p2 = p2
    p3 = p3
    start = start
    Project = {p1, p2, p3}
    Limit = 2
    Hostings = {"self", "cloudflare"}
    NoScan = {p3}
    Fatal = {p2}
    Pass = start
PROPERTY NoOvertaking CurrentWhileRoom
