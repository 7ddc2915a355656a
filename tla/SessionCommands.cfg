CONSTANTS
  usb = usb
  ble = ble
  wifi = wifi
  NoSource = NoSource
  Source = {usb, ble, wifi}
  Streams = {}
  Unstamped = {ble}
  Timeout = 2
  TickMod = 6
  MaxIdle = 5
SPECIFICATION Spec
PROPERTY LeaseSpec
