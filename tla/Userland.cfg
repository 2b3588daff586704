SPECIFICATION UserlandSpec
INVARIANT ToolsRight
CHECK_DEADLOCK FALSE
