SPECIFICATION FairSpec
CONSTANTS
    ann = ann
    bob = bob
    Nobody = Nobody
    Customer <- Two
    MaxLogins = 3
INVARIANTS
    TabsNeedCustomer
    WelcomeIsForCustomer
PROPERTIES
    LoginOpensTabs
