SPECIFICATION DevicesSpec
CONSTANT DevicePrograms <- MCMostSlots
INVARIANT PagesAsDocumented
CHECK_DEADLOCK FALSE
