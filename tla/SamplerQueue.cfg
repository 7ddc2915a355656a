CONSTANTS
  usb = usb
  ble = ble
  wifi = wifi
  Unknown = Unknown
  Lanes = 3
  MaxLane = 8
  Transport = {usb, wifi}
  Parallel = FALSE
  Hasty = FALSE
  Failures = {"isr", "task"}
SPECIFICATION FairSpec
INVARIANT RingConsistent
INVARIANT SamplingIsServed
PROPERTY UnsentLanesAreKept
PROPERTY QueueSpec
PROPERTY EveryLaneIsSent
