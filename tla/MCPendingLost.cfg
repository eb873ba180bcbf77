CONSTANTS
  None = None
  a1 = a1
  a2 = a2
  reply = reply
  pay = pay
  p1 = p1
  Address = {a1, a2}
  Form = {reply, pay}
  FormData <- MCFormData
  Base = 8
  Width32 = 1
  Width64 = 1
  Utf8 <- MCUtf8
  AddressBytes <- MCAddressBytes
  PublicKeyBytes <- MCPublicKeyBytes
  PostBytes <- MCPostBytes
  AddressLen = 1
  PostIdLen = 1
  MinPost = 1
  MinBoost = 1
  Funds = 2
  MaxNonce = 2
  MaxCalls = 1
  MaxAdded = 2
  MaxPolls = 1
  MaxMoves = 1
SPECIFICATION Spec
INVARIANTS
  AcceptedIsTracked
CHECK_DEADLOCK FALSE
