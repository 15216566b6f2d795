\* The same processes and threads under fairness; symmetry is not sound here.
CONSTANTS
    Instances = {i1, i2}
    Workers = {w1}
    Main = main
    Sessions = {s1}
    Suspicious = {x1}
    None = None
SPECIFICATION FairSpec
PROPERTIES
    CommandsAnswer
    ProcessSettles
