SPECIFICATION Spec
CONSTANTS
 Unset = Unset
 Pending = Pending
 ProtocolId <- MCId
 Version <- MCVersion
 DigitSymbols <- MCDigits
 LengthDigits = 2
 MaxVersion = 3
 SEP = " "
 Dot = "."
 NL = "nl"
 OutName <- Out
 ErrName <- Err
 CtlName <- Ctl
 EndMarker <- MCEndMarker
 ErrorMarker <- MCErrorMarker
 StripMarker <- MCStrip
 CtlError <- MCCtlError
 Scenarios <- MCScenarios
 Numerals <- MCNumerals
 CtlModes <- MCCtlModes
 Invocations <- MCInvocations
 Foreign = {"q"}
CHECK_DEADLOCK FALSE
INVARIANT ReceivedIsWritten
