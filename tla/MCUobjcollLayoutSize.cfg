\* Sections that fill the alignment exactly.
CONSTANTS
    main = main
    other = other
    call = call
    jump = jump
    Name = {main, other}
    Type = {call, jump}
    Collections <- MCCollections
    Configs <- MCConfigs
    CodeSize <- MCCodeSize
SPECIFICATION Spec
CHECK_DEADLOCK FALSE
INVARIANT SizeIsActualSize
