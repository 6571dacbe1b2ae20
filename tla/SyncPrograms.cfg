CONSTANTS
    Masters = {m1, m2}
    Workers = {k1, k2, k3}
    total_items = 4
    max_buf_size = 2
    Readers = {r1, r2, r3}
    Writers = {w1, w2, w3}
    Customers = {c1, c2, c3, c4}
    chair_count = 2
SPECIFICATION FairPrograms
INVARIANTS ExactlyOnce SomeoneRuns MutualExclusion NoLostWakeup HaircutsServed NobodyLeftBehind
PROPERTIES ProgramsEnd PrefersWriters
