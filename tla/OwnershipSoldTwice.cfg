SPECIFICATION Spec
CONSTANTS
    ann = ann  bob = bob  cat = cat
    Users = {ann, bob, cat}
    Tickets = {t1}
    FirstOwner <- MCFirstOwner
    Listings = {l1}
    Transfers = {x1}
    Workers = {w1, w2}
    NoUser = NoUser
PROPERTIES
    SoldToOneBuyer
CHECK_DEADLOCK FALSE
