SPECIFICATION Spec
CONSTANTS
  usb = usb  serial = serial  u1 = u1  s1 = s1
  NoHandle = NoHandle
  NoPort = NoPort
  Port <- Ports
  Usb <- OneUsb
  Handle <- Handles
  UsbHandle <- UsbHandles
  MaxPosted = 2
  MaxFrames = 1
  MaxCompletions = 1
  MaxListening = 1
  MaxNotices = 1
PROPERTIES BoardIsReset
