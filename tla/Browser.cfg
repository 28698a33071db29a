SPECIFICATION Spec
CONSTANTS
    Fields <- TwoDrivers
    Content <- TwoDirs
    NoFile = NoFile
    MaxCommands = 5
INVARIANTS
    TypeOK
    CursorOnEntry
    PreviewAndListingAgree
    TerminalShowsPreview
CHECK_DEADLOCK FALSE
