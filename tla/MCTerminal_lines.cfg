\* Lines of up to four characters, with wrapping, spaces and quotes, on a screen of four columns.
SPECIFICATION FairSpec
CONSTANTS
    Letters <- OneLetter
    EchoName <- E
    ClearName <- EE
    max_x = 3
    ROWS = 5
    MaxLine = 4
    UINT = 16
INVARIANTS
    OneAtTheTerminal
    ScreenShowsBuffer
    ShellRunsWhatIsShown
PROPERTIES
    PromptComesBack
