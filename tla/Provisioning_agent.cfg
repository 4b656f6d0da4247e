CONSTANTS
    Containers = {c1, c2}
    Spawners = {s1}
    Handlers = {h1}
    NoSpawner = NoSpawner
    NoContainer = NoContainer
    PortStart = 1
    PortEnd = 2
    MaxAttempts = 2
    RegisterAttempts = 2
SYMMETRY ContainerSymmetry
SPECIFICATION Spec
INVARIANTS TypeOK 
