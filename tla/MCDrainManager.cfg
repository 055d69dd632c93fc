CONSTANTS
    Objects = {a, b, c}
    Late = {m, n}
    Items = {i, j, k}
    MaxHops = 2
    a = a
    b = b
    c = c
    m = m
    n = n
    i = i
    j = j
    k = k
SPECIFICATION FairSpec
INVARIANTS DrainedMeansIdle
PROPERTIES DrainEnds
