SPECIFICATION Spec
CONSTANTS
    counter = counter
    ping = ping
    vault = vault
    deep = deep
    pong = pong
    mid = mid
    end = end
    None = None
    Entry = {counter, ping, vault, deep}
    Targets = {counter, ping, vault, deep, pong, mid, end}
    Alone = {deep}
    Reply <- MCReply
    Void = {ping}
    MaxSteps = 3
    MAX_DISCOVERY_ITERATIONS = 4
    MAX_RECURSIVE_DEPTH = 3
    MaxFaults = 2
INVARIANTS
    TypeOK
    QueuedIsExecuted
    NothingInvented
    HeldOnce
