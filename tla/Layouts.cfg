\* A file that lacks up to three parts, read, then two calls.
CONSTANTS
    Sound <- MCSound
    Elsewhere = 13
    Titles = {"ACAD_LAYOUT", "Model", "Sheet1", "Sheet2", "Sheet3"}
    Names = {"Sheet2", "Sheet3"}
    MaxFaults = 3
    MaxCalls = 2
SPECIFICATION Spec
CHECK_DEADLOCK FALSE
INVARIANTS LinksAgree
PROPERTIES ModelChain SpacesComplete NewLayoutUsable
