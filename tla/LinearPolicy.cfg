SPECIFICATION Spec
CONSTANTS
  N = 2
  Key = {"a", "b"}
  In <- NoKeys
  Out <- ClashOut
  FallbackOut <- NoKeys
  Mapped <- ClashMapped
  OnError <- ClashOnError
  Policy = "error"
  Dynamic = {}
  InputReq = {}
  OutputReq = {}
  CtxReq = {}
  DeleteOnSuccess = TRUE
  Hash = {"h1"}
  Missing = "missing"
  Version = {"v1"}
  MaxResumes = 1
  MaxEdits = 1
PROPERTIES
  PolicyIsUniform
CHECK_DEADLOCK FALSE
