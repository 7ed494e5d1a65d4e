SPECIFICATION Spec
CONSTANTS
  Fan = 2
  NrPages = 24
  HighPages = {1, 2, 3, 4, 5, 6, 7, 8}
  ImageSizes = {0, 1, 2, 3, 4, 5, 6, 7, 8}
  IoPage = 13
INVARIANTS
  FramesPrivate
  GuestSees
  HostUntouched
  VideoTrapped
CHECK_DEADLOCK FALSE
