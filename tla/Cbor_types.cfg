SPECIFICATION Spec
CONSTANTS
  Marshaler <- WireWriters
  MapReader <- WireMapReaders
  TupleReader <- WireTupleReaders
  FieldsOf <- MCFieldsOf
  Half = 8
  MaxLength = 2
  TooLong = "TooLong"
  Values <- MCValues
  Evolving <- MCEvolving
  Unknown <- MCUnknown
INVARIANTS RoundTrip ReadsOtherVersions OfferArrives
CHECK_DEADLOCK FALSE
