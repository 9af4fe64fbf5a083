SPECIFICATION ShellFairSpec
CONSTANTS
    MaxCommands = 3
    HasTimeout = TRUE
PROPERTY
    TimeoutEndsRun
