\* Two uobjs, five configurations. A layout ends, so deadlock is not checked.
CONSTANTS
    main = main
    other = other
    call = call
    jump = jump
    Name = {main, other}
    Type = {call, jump}
    Collections <- MCCollections
    Configs <- MCConfigs
    CodeSize <- MCCodeSize
SPECIFICATION Spec
CHECK_DEADLOCK FALSE
INVARIANTS TypeOK CollectionDisjoint UobjsFillTheirSections SentinelsEnterMethods
