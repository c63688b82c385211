CONSTANTS
    Threads = {th_recv, th_recv2, app}
    NoThread = NoThread
    Type = Type
    Field = Field
    Option = Option
    Sccs = {Type, Field, Option}
    NoScc = NoScc
    Deps <- MCDeps
    Rank <- MCRank
SPECIFICATION FairSpec
CHECK_DEADLOCK FALSE
INVARIANTS ReadyOnReturn MadeOnce ReentersSafely
PROPERTY CallsReturn
