\* Two cameras and a wrapper to spare for an open that fails.
CONSTANTS
  Handle = {1, 2, 3}
  NumCameras = 2
  MaxStrings = 2
SPECIFICATION Spec
INVARIANTS
  TypeOK
  NothingStranded
PROPERTY
  VendorIsSpared
