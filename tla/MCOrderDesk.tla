----------------------------- MODULE MCOrderDesk -----------------------------
(***************************************************************************)
(* OrderDesk for TLC: three products of one institution, one event, and    *)
(* carts whose lines need an album, prints, files, or nothing to pay.      *)
(***************************************************************************)
EXTENDS OrderDesk, TLC

CONSTANTS null, o1, o2, home, ana, eva, gala, pic1, pic2

OneRequest == {o1}
TwoRequests == {o1, o2}
Home == {home}
TwoAdmins == {ana, eva}
Alike == Permutations(TwoAdmins)

Prices(photo, pack) == gala :> [valorPhoto |-> photo, valorPack |-> pack]

Offered ==
    ("album" :> [flag |-> "ALBUM", details |-> [minPhoto |-> 1, maxPhoto |-> 2,
                                                valorEncadernacao |-> 10, valorFoto |-> 3]])
    @@ ("prints" :> [flag |-> "GENERIC", details |-> [events |-> Prices(4, null)]])
    @@ ("files" :> [flag |-> "DIGITAL_FILES", details |-> [isAvailableUnit |-> TRUE,
                       valorPackTotal |-> 20, events |-> Prices(5, 12)]])

(* The album got dearer, the prints were withdrawn, files come as packs.   *)
Revised ==
    ("album" :> [flag |-> "ALBUM", details |-> [minPhoto |-> 1, maxPhoto |-> 2,
                                                valorEncadernacao |-> 15, valorFoto |-> 3]])
    @@ ("files" :> [flag |-> "DIGITAL_FILES", details |-> [isAvailableUnit |-> FALSE,
                       valorPackTotal |-> 20, events |-> Prices(5, 12)]])

TwoCatalogues == {Offered, Revised}

Nothing == [isFullPackage |-> FALSE, photos |-> {}, events |-> {}, albumPhotos |-> {}]
Photo(p) == [id |-> p, eventId |-> gala]
Event(pack) == [id |-> gala, isPackage |-> pack]
Item(product, type, price, quantity, selection) ==
    [productId |-> product, productType |-> type, totalPrice |-> price,
     quantity |-> quantity, selection |-> selection]

Album == Item("album", "ALBUM", 16, 1, [Nothing EXCEPT !.albumPhotos = {pic1, pic2}])
TwoPrints == Item("prints", "GENERIC", 5, 2, [Nothing EXCEPT !.photos = {Photo(pic1)}])
OldPrints == Item("prints", "GENERIC", 6, 2, [Nothing EXCEPT !.photos = {Photo(pic1)}])
File == Item("files", "DIGITAL_FILES", 5, 1, [Nothing EXCEPT !.photos = {Photo(pic2)}])
GalaPack == Item("files", "DIGITAL_FILES", 12, 1, [Nothing EXCEPT !.events = {Event(TRUE)}])
AllFiles == Item("files", "DIGITAL_FILES", 20, 1, [Nothing EXCEPT !.isFullPackage = TRUE])
Free == Item("files", "DIGITAL_FILES", 0, 1, [Nothing EXCEPT !.events = {Event(FALSE)}])

SomeLines == {Album, TwoPrints, OldPrints, File, GalaPack, AllFiles, Free}
SomeCarts == {<<Album, GalaPack>>, <<TwoPrints, File>>, <<OldPrints>>, <<AllFiles>>, <<Free>>}
SomeCredits == {0, 10, 100}
=============================================================================
