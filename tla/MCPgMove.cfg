SPECIFICATION PgSpec
CONSTANTS
    o1 = o1  o2 = o2  o3 = o3  h1 = h1  h2 = h2
    Osds = {o1, o2, o3}
    Hosts = {h1, h2}
    Pgs = {p1, p2}
    Host <- TwoHosts
INVARIANT PgSurvives
INVARIANT NoFileLeft
INVARIANT ImportIsPossible
