\* Two slots and two clients, which come and go; one command of each kind;
\* three messages: two that overlap, and one before that fills a buffer or
\* makes a third.  Six times four is more than the attenuator's register holds.
CONSTANTS
  Slots = {1, 2}
  Clients = {1, 6}
  Sent = {"KX_MSG", "RF_ATTEN_MSG", "ADC_IDLY_MSG", "ADC_SPI_MSG"}
  DsaWords = 16
  MaxMsgs = 3
  Any = Any
SPECIFICATION Spec
CHECK_DEADLOCK FALSE
INVARIANTS TypeOK OwnWords AttenFollows DelaysFollow ReadsBack
PROPERTIES SpiReturns
