CONSTANTS
  Threads = {can, Int}
  Values = {0, 1}
  Opcodes = {"read_reg", "read_status", "write_reg"}
  MaxChunks = 2
  Failures = {"rejected", "error"}
  Junk = Junk
  NoByte = NoByte
  NoInstruction = NoInstruction
  None = None
SPECIFICATION Spec
INVARIANTS
  TypeOK
  CompletionAwaited
PROPERTIES
  ImplementsSpiInstruction
  InstructionsReturn
