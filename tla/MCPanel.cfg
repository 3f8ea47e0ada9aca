SPECIFICATION PanelSpec
CONSTANTS
    DebounceTicks = 3
    HoldTicks = 4
    BounceTicks = 2
    RestTicks = 5
    MaxGlitches = 1
    Main = main
    ReceiveTask = receiveTask
    LedTasks = {main, receiveTask}
    NoTask = noTask
INVARIANTS
    LedsShowFlags
    PressInv
PROPERTIES
    EventTellsPress
