CONSTANTS
  usb = usb
  ble = ble
  wifi = wifi
  NoSource = NoSource
  Source = {usb, wifi}
  Streams = {usb, wifi}
  Unstamped = {}
  Timeout = 1
  TickMod = 4
  MaxIdle = 3
SPECIFICATION Spec
SYMMETRY Transports
INVARIANT HandlerExclusive
 
PROPERTY NoTakeover
PROPERTY StaleClaimKeepsNobodyOut
