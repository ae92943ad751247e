SPECIFICATION SettingSpec
CONSTANTS
  u1 = u1
  u2 = u2
  t1 = t1
  t2 = t2
  d1 = d1
  d2 = d2
  a = a
  b = b
  Local = Local
  NoConn = NoConn
  Conns <- AllConns
  Usb <- BothUsb
  DeviceIds <- BothDevices
  DeviceOf <- WhichDevice
  Clients <- BothClients
  MayFail <- AllConns
  MayReboot = {FALSE}
  Commands = {"list", "open", "close"}
  MaxRequests = 2
  MaxObjects = 2
  Settings = {"tcp fails"}
INVARIANTS
  UsbNeverClobbered
CHECK_DEADLOCK FALSE
