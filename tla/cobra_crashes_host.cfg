CONSTANTS
    root = root
    deploy = deploy
    push = push
    remote = remote
    add = add
    late = late
    Commands <- AllCommands
    Root = root
    Parent <- Tree
    Listing <- Order
    Name <- Names
    SuggestFor <- Declared
    Available = {deploy, push, remote, add, late}
    Distances <- SuggestionsMinimumDistance
    Silent = {}
    MaxTypedLength = 4
    NoCommand = NoCommand
    Kind <- Grouped
    Calls <- CallGraph
    Shows <- ShownHelp
    Late = {late}
    Shadowed = {add}
    Validating = {root, push}
    OptionLists <- Lists
    ExitOptions <- AtExit
    Typed <- Words
    ExitCodes = {0, 3}
    MaxExecutes = 2
    MaxRuns = 3
    None = None
SPECIFICATION Spec
INVARIANT
    HostUndisturbed
