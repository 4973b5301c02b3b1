----------------------------- MODULE CartPricing -----------------------------
(***************************************************************************)
(* What a cart line may select and what it costs, as CreateOrderUseCase    *)
(* recomputes it from an institution's product.  Prices are in cents; a    *)
(* product's configuration is a record [flag, details], where              *)
(* details.events maps event ids to their two optional prices.  A          *)
(* selection is [isFullPackage, photos, events, albumPhotos], each part a  *)
(* set: the storefront lets a photo or an event be chosen once.            *)
(***************************************************************************)
EXTENDS Integers, FiniteSets, FiniteSetsExt

CONSTANT Null   \* a price or a column that is not set; the price of a refused line

Flags == {"ALBUM", "GENERIC", "DIGITAL_FILES"}

(* validateSelectionDetails: a full package stands alone, anything else    *)
(* selects something.                                                      *)
ValidSelection(sel) ==
    sel.isFullPackage <=> sel.photos = {} /\ sel.events = {} /\ sel.albumPhotos = {}

RequiresShipping(cart) == \E i \in DOMAIN cart : cart[i].productType # "DIGITAL_FILES"

-----------------------------------------------------------------------------
AlbumPrice(details, sel) ==
    LET photoCount == Cardinality(sel.albumPhotos)
    IN  IF photoCount \in details.minPhoto .. details.maxPhoto
        THEN details.valorEncadernacao + photoCount * details.valorFoto
        ELSE Null

(* Every photo has the unit price of its event, every event taken as a     *)
(* package its package price; an event taken otherwise costs nothing.      *)
GenericPrice(details, sel) ==
    LET packs == {e \in sel.events : e.isPackage}
        priced == /\ \A p \in sel.photos : p.eventId \in DOMAIN details.events
                  /\ \A e \in sel.events : e.id \in DOMAIN details.events
                  /\ \A p \in sel.photos : details.events[p.eventId].valorPhoto # Null
                  /\ \A e \in packs : details.events[e.id].valorPack # Null
    IN  IF priced
        THEN MapThenSumSet(LAMBDA p : details.events[p.eventId].valorPhoto, sel.photos)
             + MapThenSumSet(LAMBDA e : details.events[e.id].valorPack, packs)
        ELSE Null

(* A full price of zero counts as not configured.                          *)
DigitalFilesPrice(details, sel) ==
    IF sel.isFullPackage
    THEN IF details.valorPackTotal \in {0, Null} THEN Null ELSE details.valorPackTotal
    ELSE IF sel.photos # {} /\ ~details.isAvailableUnit THEN Null
    ELSE GenericPrice(details, sel)

ExpectedPrice(product, sel) ==
    CASE product.flag = "ALBUM" -> AlbumPrice(product.details, sel)
      [] product.flag = "GENERIC" -> GenericPrice(product.details, sel)
      [] product.flag = "DIGITAL_FILES" -> DigitalFilesPrice(product.details, sel)

(* A plausible bug: the tolerance is applied to the unit price.            *)
PriceAcceptedPerUnit(product, line) ==
    LET expected == ExpectedPrice(product, line.selection)
    IN  expected # Null /\ expected - line.totalPrice \in -2 .. 2

(* validateCartItemPrices for one line: the price of the whole line, sent  *)
(* by the storefront, may differ by two cents.                             *)
PriceAccepted(product, line) ==
    LET expected == ExpectedPrice(product, line.selection)
    IN  expected # Null /\ expected * line.quantity - line.totalPrice * line.quantity \in -2 .. 2

TotalAmount(cart) == SumFunction([i \in DOMAIN cart |-> cart[i].totalPrice * cart[i].quantity])

-----------------------------------------------------------------------------
(* createOrderItemDetails: the rows a selection becomes.                   *)
DetailRows(sel) ==
    IF sel.isFullPackage
    THEN {[photoId |-> Null, eventId |-> Null, isPackage |-> TRUE]}
    ELSE   {[photoId |-> p.id, eventId |-> p.eventId, isPackage |-> FALSE] : p \in sel.photos}
      \cup {[photoId |-> Null, eventId |-> e.id, isPackage |-> e.isPackage] : e \in sel.events}
      \cup {[photoId |-> p, eventId |-> Null, isPackage |-> FALSE] : p \in sel.albumPhotos}

(* A plausible bug: every line is charged once, whatever its quantity.     *)
PreferenceItemsOnce(rows, amountToPay) ==
    [i \in DOMAIN rows |-> [quantity |-> 1, unitPrice |-> rows[i].itemPrice * amountToPay]]

(* createMercadoPagoPreference: every unit price is scaled by amountToPay  *)
(* over totalAmount; kept as the numerator, so that it stays an integer.   *)
PreferenceItems(rows, amountToPay) ==
    [i \in DOMAIN rows |-> [quantity |-> rows[i].quantity, unitPrice |-> rows[i].itemPrice * amountToPay]]
=============================================================================
