\* A surface that does not support what the physical device does.
SPECIFICATION Spec
CONSTANTS
  None = None
  Driver <- MCConforming
  InstanceRequest <- MCInstanceRequest
  DeviceRequest <- MCDeviceRequest
  Surface <- MCSurface
  Domains <- MCDomains
INVARIANT UsesOnlyWhatSurfaceAdvertises
