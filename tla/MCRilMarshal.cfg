SPECIFICATION Spec
CONSTANTS
    NULL = NULL
    Unread = Unread
    RIL_CDMA_SMS_ADDRESS_MAX = 2
    RIL_CDMA_SMS_SUBADDRESS_MAX = 1
    RIL_CDMA_SMS_BEARER_DATA_MAX = 2
    Uuid = {"modem"}
    RIL_CDMA_MAX_NUMBER_OF_INFO_RECS = 2
    InfoText = {"a"}
    Dispatch = Dispatch
    VThread = {v1, v2}
    Version = {6, 7, 11}
    RadioState = {"OFF", "SIM_READY", "RUIM_NOT_READY", "NV_READY", "ON"}
    Block <- MCBlock
    Data <- MCData
    Calls <- MCCalls
    MaxCall = 4
CHECK_DEADLOCK FALSE
INVARIANTS VendorGetsWhatWasSent SetTakesWhatGetGave  
           AutomaticSelected DnsCountBounded
