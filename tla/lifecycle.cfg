\* Two servers that start, dump and end against each other, three lives in all.
\* A second in which two dumps fall, and a second after it.
CONSTANTS
    a = a
    b = b
    Names = {a, b}
    Groups = {1, 2, 3}
    HashOf <- Collide
    HashSize = 2
    s1 = s1
    s2 = s2
    Servers = {s1, s2}
    Nobody = Nobody
    MaxTime = 2
    MaxDumps = 1
    Options <- SomeOptions
SPECIFICATION FairSpec
INVARIANTS TypeOK HashIsList DumpsAreClosed
PROPERTIES HashIsTable Restores NotStolen Starts
\* every life ends
CHECK_DEADLOCK FALSE
