\* Conforming drivers, applications of two versions, and surfaces with and without support.
SPECIFICATION Spec
CONSTANTS
  None = None
  Driver <- MCConforming
  InstanceRequest <- MCInstanceRequest
  DeviceRequest <- MCDeviceRequest
  Surface <- MCSurface
  Domains <- MCDomains
INVARIANTS
  TypeOK
  CreationIsTransparent
  FeedbackIsUsable
