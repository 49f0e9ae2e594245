CONSTANTS
  uartb = uartb
  spi1 = spi1
  tmr = tmr
  sdmmc4 = sdmmc4
  kfuse = kfuse
  Uarts = {uartb}
  Spi1 = spi1
  GuestDevices = {sdmmc4}
  SourceDevices = {sdmmc4}
  OtherDevices = {tmr, kfuse}
  GuestRegisters = {"plain", "set", "clear"}
  Bank <- MCBank
  BootSource <- MCBootSource
  NoDevice = NoDevice
  MaxBytes = 2
  Failures = {}
  NoCall = NoCall
SPECIFICATION Spec
CHECK_DEADLOCK FALSE
PROPERTIES
  GuestBlocked
