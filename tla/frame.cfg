SPECIFICATION Spec
CONSTANTS
  MaxDlen = 1
  MaxFdDlen = 2
  Mtu = 16
  FdMtu = 72
  CanIds = {0, 1}
  Payload <- MCPayload
  FdFlags = {0, 1}
  MaxStreamed = 1
INVARIANT TypeOK
INVARIANT Aligned
INVARIANT FlagsOnlyOnFd
PROPERTY RoundTrip
PROPERTY TypeKept
PROPERTY ConversionTakes
