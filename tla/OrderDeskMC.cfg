\* One checkout against a catalogue that is revised, and two administrators working its items off.
SPECIFICATION Spec
CONSTANTS
    o1 = o1
    o2 = o2
    null = null
    home = home
    ana = ana
    eva = eva
    gala = gala
    pic1 = pic1
    pic2 = pic2
    Null <- null
    Requests <- OneRequest
    Lines <- SomeLines
    Carts <- SomeCarts
    Catalogues <- TwoCatalogues
    Addresses <- Home
    Credits <- SomeCredits
    Admins <- TwoAdmins
SYMMETRY Alike
INVARIANTS
    AnsweredOrderComplete
    ChargedWhatCreditLeaves
    StepsInOrder
    AdvancedOnlyIfPaid
PROPERTIES
    SoldAtCurrentPrice
    BackOnlyWhenRaced
CHECK_DEADLOCK FALSE
