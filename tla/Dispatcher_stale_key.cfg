CONSTANTS
  MaxDevices = 3
  AppDevices = 2
  Writers = {"accepted"}
SPECIFICATION Spec
PROPERTIES EofIsItsOwn
CHECK_DEADLOCK FALSE
