\* UMEMs of GPU memory through the SDK, where an error of the SDK's is answered by
\* falling back.
SPECIFICATION ObjSpec
CONSTANT GpuUmem = TRUE
CHECK_DEADLOCK FALSE
INVARIANTS
  NoNullDevice
