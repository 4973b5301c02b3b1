----------------------------- MODULE ProductDesk -----------------------------
(***************************************************************************)
(* What administrators do to products and to what an institution offers of *)
(* them, its links.                                                        *)
(***************************************************************************)
EXTENDS InstitutionDesk

CONSTANTS
    ProductNames,  \* the names typed, some with blanks around them
    Trim,          \* [typed name -> name], String.prototype.trim
    ShopFlags      \* the product types in use, some of CartPricing's Flags

ASSUME TrimAssumption ==
    \A n \in ProductNames : Trim[n] \in ProductNames /\ Trim[Trim[n]] = Trim[n]

(* Who has looked a product name up and not saved yet; the seed script     *)
(* (Seed) counts as one from the start.                                    *)
ProductCheckers == {"seed"} \cup {c \in Clerks : job[c].op \in {"createProduct", "updateProduct"}}

(* The check of a name is worth something only if it found no other        *)
(* product, of the name that is saved, and nobody saved one after it.      *)
NameSaved(p, c) ==
    /\ overtaken' = overtaken \cup ProductCheckers
    /\ history' = [history EXCEPT !.products = Judged(@, p, db.products,
          job[c].alone /\ c \notin overtaken /\ Trim[job[c].name] = job[c].name)]

-----------------------------------------------------------------------------
(* A plausible bug: the name is checked only when a product is renamed.    *)
BeginCreateProductUnchecked(c) ==
    \E name \in ProductNames, flag \in ShopFlags :
       Begin(c, [op |-> "createProduct", name |-> name, flag |-> flag, alone |-> TRUE])

(* CreateProductUseCase: nobody has the name as it was typed, ...          *)
BeginCreateProduct(c) ==
    \E name \in ProductNames, flag \in ShopFlags :
       /\ Named(db, name) = {}
       /\ Begin(c, [op |-> "createProduct", name |-> name, flag |-> flag, alone |-> TRUE])

(* ... and it is saved trimmed.                                            *)
CreateProduct(c) ==
    /\ At(c, "createProduct")
    /\ db' = [db EXCEPT !.products = Append(@, [name |-> Trim[job[c].name], flag |-> job[c].flag])]
    /\ Finish(c)
    /\ NameSaved(NextId(db.products), c)

(* UpdateProductUseCase: the product found under the name, if any, is the  *)
(* one renamed (of two with one name, either is found).                    *)
BeginUpdateProduct(c) ==
    \E p \in Rows(db.products), name \in ProductNames :
       /\ Named(db, name) = {} \/ p \in Named(db, name)
       /\ Begin(c, [op |-> "updateProduct", id |-> p, name |-> name,
                    alone |-> Named(db, name) \subseteq {p}])

(* ProductSQLRepository.updateProduct: the type stays what it is.          *)
UpdateProduct(c) ==
    /\ At(c, "updateProduct")
    /\ LET p == job[c].id IN
       IF p \in Rows(db.products)
       THEN /\ db' = [db EXCEPT !.products[p].name = Trim[job[c].name]]
            /\ NameSaved(p, c)
       ELSE UNCHANGED <<db, overtaken, history>>
    /\ Finish(c)

(* hardDelete: links go along, order lines keep the product.               *)
DeleteProduct ==
    \E p \in Rows(db.products) :
       /\ AtOnce
       /\ Deletable(db, {}, {}, {p})
       /\ db' = Without(db, {}, {}, {p})
       /\ UNCHANGED <<overtaken, history>>

-----------------------------------------------------------------------------
(* CreateInstitutionProductUseCase: both exist and are not linked yet, ... *)
BeginCreateLink(c) ==
    \E p \in Rows(db.products), i \in Rows(db.institutions) :
       /\ LinksOf(db, p, i) = {}
       /\ Begin(c, [op |-> "createLink", product |-> p, institution |-> i,
                    flag |-> db.products[p].flag])

(* ... and the keys of the table decide.                                   *)
CreateLink(c) ==
    /\ At(c, "createLink")
    /\ LET p == job[c].product  i == job[c].institution IN
       db' = IF /\ p \in Rows(db.products) /\ i \in Rows(db.institutions)
                /\ LinksOf(db, p, i) = {}
             THEN [db EXCEPT !.links = Append(@,
                     [product |-> p, institution |-> i, flag |-> job[c].flag, details |-> Null])]
             ELSE db
    /\ Finish(c)
    /\ UNCHANGED <<overtaken, history>>

(* The details of a link are whatever the request carries: nobody looks at *)
(* the ids and names in them, nor at the type of the product.              *)
OpenLink(c) ==
    \E l \in Rows(db.links), details \in SUBSET [id : DOMAIN db.events, name : EventNames] :
       /\ Cardinality(details) <= MaxEdits
       /\ Begin(c, [op |-> "updateLink", id |-> l, details |-> details])

(* UpdateInstitutionProductUseCase: the details are written as they were   *)
(* sent; a request without any empties them.                               *)
UpdateLink(c) ==
    /\ At(c, "updateLink")
    /\ LET l == job[c].id IN
       IF l \in Rows(db.links)
       THEN \E sent \in {job[c].details, Null} :
               /\ db' = [db EXCEPT !.links[l].details = sent]
               /\ history' = [history EXCEPT !.stale =
                     {x \in @ : x[1] # l} \cup
                     IF sent = Null THEN {}
                     ELSE {<<l, x.id>> : x \in {y \in sent : ~Lasting(y.id, db.links[l].institution)}}]
       ELSE UNCHANGED <<db, history>>
    /\ Finish(c)
    /\ UNCHANGED overtaken

DeleteLink ==
    \E l \in Rows(db.links) :
       /\ AtOnce
       /\ db' = [db EXCEPT !.links = Erase(@, {l})]
       /\ UNCHANGED <<overtaken, history>>

ProductNext ==
    \/ DeleteProduct
    \/ DeleteLink
    \/ \E c \in Clerks :
          \/ BeginCreateProduct(c) \/ CreateProduct(c)
          \/ BeginUpdateProduct(c) \/ UpdateProduct(c)
          \/ BeginCreateLink(c) \/ CreateLink(c)
          \/ OpenLink(c) \/ UpdateLink(c)
=============================================================================
