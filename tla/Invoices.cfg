SPECIFICATION FairSpec
CONSTANTS
    i1 = i1
    i2 = i2
    Nil = Nil
    Keep = Keep
    DocId <- TwoKeys
    KeyOrder <- TwoOrder
    Value <- AllValues
    Field = {"projectID", "invoiceType", "invoicePaidDate"}
    Requester = {"list"}
    Waiter = {}
    Existing = {i1}
    Resend = TRUE
    Rejects = FALSE
    MaxWrites = 2
    MaxLoads = 1
INVARIANTS
    PaidBoxTellsFinalState
    TapMarksTheInvoiceShown
PROPERTIES
    WithdrawnBillsStayAway
    PaymentIsStored
