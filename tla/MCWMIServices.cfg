CONSTANTS
  Devices <- MCDevices
  Machines <- MCMachines
  NoEvent = NoEvent
SPECIFICATION ServicesSpec
INVARIANTS CallsAreAnswered HingeIsRead ChildrenAreStopped
