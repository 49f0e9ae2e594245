CONSTANTS
  uartb = uartb
  spi1 = spi1
  tmr = tmr
  sdmmc4 = sdmmc4
  kfuse = kfuse
  Uarts = {uartb}
  Spi1 = spi1
  GuestDevices = {sdmmc4}
  SourceDevices = {sdmmc4}
  OtherDevices = {tmr, kfuse}
  GuestRegisters = {"set", "clear"}
  Bank <- MCBank
  BootSource <- MCBootSource
  NoDevice = NoDevice
  MaxBytes = 2
  Failures = {"cdev_init", "cdev_xfer", "early_irq"}
  NoCall = NoCall
SPECIFICATION Spec
CHECK_DEADLOCK FALSE
INVARIANTS
  TypeOK
  WakeupAwaited
  OwnCount
  DevicesReady
  StateMutexHeld
PROPERTIES
  SwitchedInReset
  OtherBitsKept
  WritesReturn
