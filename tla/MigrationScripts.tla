-------------------------- MODULE MigrationScripts ---------------------------
(***************************************************************************)
(* The migrations registered in database.config.ts: for each the           *)
(* timestamp its class name carries (in seconds) and the statements of its *)
(* up and down methods.  NOT NULL and DEFAULT are kept for the columns     *)
(* some migration changes them of, types for the enumerations.             *)
(***************************************************************************)
EXTENDS Ddl

Generated1747237005972 ==
    [stamp |-> 1747237005,
     up |-> <<
        CreateTable("institution_events", {"id", "name", "created_at", "updated_at", "institution_id"}),
        CreateTable("users",
            {"id", "name", "identifier", "email", "phone", "observations", "passwordHash",
             "role", "fatherName", "fatherPhone", "motherName", "motherPhone", "driveLink",
             "creditValue", "profileImage", "status", "created_at", "updated_at", "institution_id"}),
        Add({UniqueKey("users", "identifier"), UniqueKey("users", "email")}, {}),
        CreateTable("institutions",
            {"id", "contractNumber", "name", "observations", "created_at", "updated_at"}),
        Add({UniqueKey("institutions", "contractNumber")}, {}),
        AddForeignKey("institution_events", "institution_id", "institutions", "NO ACTION"),
        AddForeignKey("users", "institution_id", "institutions", "NO ACTION")>>,
     down |-> <<
        Drop(ForeignKey("users", "institution_id", "institutions", "NO ACTION")),
        Drop(ForeignKey("institution_events", "institution_id", "institutions", "NO ACTION")),
        DropTable("institutions"), DropTable("users"), DropTable("institution_events")>>]

ProductFlags == {"ALBUM", "GENERIC", "DIGITAL_FILES"}

Generated1750351515326 ==
    LET OwnedBy(t, rule) == ForeignKey(t, "institution_id", "institutions", rule)
    IN [stamp |-> 1750351515,
        up |-> <<
           Drop(OwnedBy("institution_events", "NO ACTION")),
           Drop(OwnedBy("users", "NO ACTION")),
           Add({EnumType("products_flag", ProductFlags)}, {}),
           CreateTable("products",
               {"id", "name", "flag", "description", "photos", "video", "created_at", "updated_at"}),
           Add({EnumColumn("products", "flag", "products_flag")}, {}),
           Add({EnumType("institution_products_flag", ProductFlags)}, {}),
           CreateTable("institution_products",
               {"id", "flag", "details", "created_at", "updated_at", "product_id", "institution_id"}),
           Add({EnumColumn("institution_products", "flag", "institution_products_flag"),
                UniqueKey("institution_products", "product_id")}, {}),
           AddIndex("institution_products", "product_id"),
           AddIndex("institution_products", "institution_id"),
           AddIndex("institution_products", "created_at"),
           AddIndex("institution_products", "flag"),
           AddColumn("users", "currentHashedRefreshToken"),
           Drop(UniqueKey("users", "identifier")),
           AddForeignKey("institution_events", "institution_id", "institutions", "CASCADE"),
           AddForeignKey("users", "institution_id", "institutions", "CASCADE"),
           AddForeignKey("institution_products", "product_id", "products", "CASCADE"),
           AddForeignKey("institution_products", "institution_id", "institutions", "CASCADE")>>,
        down |-> <<
           Drop(OwnedBy("institution_products", "CASCADE")),
           Drop(ForeignKey("institution_products", "product_id", "products", "CASCADE")),
           Drop(OwnedBy("users", "CASCADE")),
           Drop(OwnedBy("institution_events", "CASCADE")),
           Add({UniqueKey("users", "identifier")}, {Column("users", "identifier")}),
           Drop(Column("users", "currentHashedRefreshToken")),
           Drop(Index("institution_products", "flag")),
           Drop(Index("institution_products", "created_at")),
           Drop(Index("institution_products", "institution_id")),
           Drop(Index("institution_products", "product_id")),
           DropTable("institution_products"),
           Drop(EnumType("institution_products_flag", ProductFlags)),
           DropTable("products"),
           Drop(EnumType("products_flag", ProductFlags)),
           AddForeignKey("users", "institution_id", "institutions", "NO ACTION"),
           AddForeignKey("institution_events", "institution_id", "institutions", "NO ACTION")>>]

Generated1751148139056 ==
    [stamp |-> 1751148139,
     up |-> <<
        CreateTable("user_event_photos",
            {"id", "fileName", "created_at", "updated_at", "user_id", "event_id"}),
        AddIndex("user_event_photos", "user_id"),
        AddForeignKey("user_event_photos", "user_id", "users", "CASCADE"),
        AddForeignKey("user_event_photos", "event_id", "institution_events", "CASCADE")>>,
     down |-> <<
        Drop(ForeignKey("user_event_photos", "event_id", "institution_events", "CASCADE")),
        Drop(ForeignKey("user_event_photos", "user_id", "users", "CASCADE")),
        Drop(Index("user_event_photos", "user_id")),
        DropTable("user_event_photos")>>]

NotificationIndexes == <<"type", "paymentId", "merchantOrderId", "status", "created_at">>
HistoryIndexes == <<"paymentId", "externalReference", "status">>

CreateMercadoPagoWebhookTables1751228400000 ==
    LET N == "mercado_pago_notifications"
        H == "payment_status_history"
        Each(Op(_, _), t, cs) == [i \in 1..Len(cs) |-> Op(t, cs[i])]
        DropIndex(t, c) == Drop(Index(t, c))
    IN [stamp |-> 1751228400,
        up |-> <<CreateTableIfNotExists(N,
                    {"id", "type", "paymentId", "merchantOrderId", "status", "rawData",
                     "created_at", "processed_at"})>>
               \o Each(AddIndexIfNotExists, N, NotificationIndexes)
               \o <<CreateTableIfNotExists(H,
                    {"id", "paymentId", "externalReference", "status", "statusDetail",
                     "transactionAmount", "dateApproved", "dateCreated", "lastModified",
                     "created_at"})>>
               \o Each(AddIndexIfNotExists, H, HistoryIndexes),
        down |-> Each(DropIndex, H, Reverse(HistoryIndexes)) \o <<DropTable(H)>>
               \o Each(DropIndex, N, Reverse(NotificationIndexes)) \o <<DropTable(N)>>]

-----------------------------------------------------------------------------
(* The order tables.                                                       *)
FirstStatus == {"PENDING", "APPROVED", "REJECTED", "CANCELLED"}

OrderUser(rule) == ForeignKey("orders", "userId", "users", rule)
ItemOrder == ForeignKey("order_items", "orderId", "orders", "CASCADE")
ItemProduct == ForeignKey("order_items", "productId", "products", "NO ACTION")
DetailItem == ForeignKey("order_item_details", "orderItemId", "order_items", "CASCADE")
DetailPhoto == ForeignKey("order_item_details", "photoId", "user_event_photos", "NO ACTION")

AddKey(fk) == AddForeignKey(fk[2], fk[3], fk[4], fk[5])

CreateOrderTables1754264500000 ==
    [stamp |-> 1754264500,
     up |-> <<
        CreateTable("orders",
            {"id", "userId", "totalAmount", "paymentStatus", "paymentGatewayId",
             "shippingAddress", "created_at", "updated_at"}),
        Add({NotNull("orders", "shippingAddress"), DefaultOf("orders", "paymentStatus"),
             CheckOn("orders", "paymentStatus")}, {}),
        AddIndex("orders", "userId"), AddIndex("orders", "paymentStatus"),
        AddIndex("orders", "paymentGatewayId"),
        CreateTable("order_items",
            {"id", "orderId", "productId", "productName", "productType", "itemPrice", "created_at"}),
        Add({CheckOn("order_items", "productType")}, {}),
        AddIndex("order_items", "orderId"), AddIndex("order_items", "productId"),
        CreateTable("order_item_details",
            {"id", "orderItemId", "photoId", "eventId", "isPackage", "created_at"}),
        AddIndex("order_item_details", "orderItemId"),
        AddIndex("order_item_details", "photoId"), AddIndex("order_item_details", "eventId"),
        AddKey(OrderUser("CASCADE")), AddKey(ItemOrder), AddKey(ItemProduct),
        AddKey(DetailItem), AddKey(DetailPhoto)>>,
     down |-> <<
        Drop(DetailPhoto), Drop(DetailItem), Drop(ItemProduct), Drop(ItemOrder),
        Drop(OrderUser("CASCADE")),
        Drop(Index("order_item_details", "eventId")), Drop(Index("order_item_details", "photoId")),
        Drop(Index("order_item_details", "orderItemId")),
        Drop(Index("order_items", "productId")), Drop(Index("order_items", "orderId")),
        Drop(Index("orders", "paymentGatewayId")), Drop(Index("orders", "paymentStatus")),
        Drop(Index("orders", "userId")),
        DropTable("order_item_details"), DropTable("order_items"), DropTable("orders")>>]

StatusEnum(values) == EnumType("orders_paymentstatus", values)
TypeEnum == EnumType("order_items_producttype", ProductFlags)
StatusDefault == DefaultOf("orders", "paymentStatus")

(* paymentStatus becomes an enumeration: the column is dropped and added   *)
(* again with the default, so no row keeps the value it had.               *)
DropStatusColumn == Drop(Column("orders", "paymentStatus"))

AddStatusColumn(facts, needed) ==
    [Add({Column("orders", "paymentStatus"), StatusDefault} \cup facts,
         {Table("orders")} \cup needed) EXCEPT !.status = Reset("PENDING")]

AddUserAndContractFields1757211242262 ==
    LET Known == FirstStatus \cup {NoOrder}
        Normalise == [s \in StoredStatus |-> IF s \in Known THEN s ELSE "PENDING"]
        NewColumns == <<<<"users", "cpf">>, <<"users", "becaMeasures">>, <<"users", "address">>,
                        <<"users", "zipCode">>, <<"orders", "contractNumber">>,
                        <<"orders", "contractUniqueId">>>>
        Forget(fks) == [i \in 1..Len(fks) |-> Drop(fks[i])]
        OldKeys == <<DetailItem, DetailPhoto, ItemOrder, ItemProduct, OrderUser("CASCADE")>>
        Restore(fks) == [i \in 1..Len(fks) |-> AddKey(fks[i])]
    IN [stamp |-> 1757211242,
        up |-> Forget(OldKeys) \o <<
               Drop(CheckOn("order_items", "productType")),
               Drop(CheckOn("orders", "paymentStatus"))>>
           \o [i \in 1..6 |-> AddColumn(NewColumns[i][1], NewColumns[i][2])] \o <<
               SetOn(DefaultOf("mercado_pago_notifications", "processed_at")),
               Drop(Column("order_items", "productType")),
               Add({TypeEnum}, {}),
               Add({Column("order_items", "productType"),
                    EnumColumn("order_items", "productType", "order_items_producttype")},
                   {Table("order_items"), TypeEnum}),
               [Statement EXCEPT !.status = Normalise],
               Drop(Index("orders", "paymentStatus")),
               DropStatusColumn,
               Add({StatusEnum(FirstStatus)}, {}),
               AddStatusColumn({EnumColumn("orders", "paymentStatus", "orders_paymentstatus")},
                               {StatusEnum(FirstStatus)}),
               Unset(StatusDefault),
               Unset(NotNull("orders", "shippingAddress")),
               AddIndex("orders", "paymentStatus")>>
           \o Restore(OldKeys),
        down |-> Forget(Reverse(OldKeys)) \o <<
               Drop(Index("orders", "paymentStatus")),
               SetOn(NotNull("orders", "shippingAddress")),
               DropStatusColumn,
               Drop(StatusEnum(FirstStatus)),
               AddStatusColumn({}, {}),
               AddIndex("orders", "paymentStatus"),
               Drop(Column("order_items", "productType")),
               Drop(TypeEnum),
               AddColumn("order_items", "productType"),
               Unset(DefaultOf("mercado_pago_notifications", "processed_at"))>>
           \o [i \in 1..6 |-> Drop(Column(NewColumns[7 - i][1], NewColumns[7 - i][2]))] \o <<
               [Add({CheckOn("orders", "paymentStatus")}, {Column("orders", "paymentStatus")})
                   EXCEPT !.fits = Known],
               Add({CheckOn("order_items", "productType")}, {Column("order_items", "productType")})>>
           \o Restore(Reverse(OldKeys))]

(* A plausible bug: reverting leaves the default that the up method set.   *)
Generated1757455211999KeepingDefault ==
    [stamp |-> 1757455211,
     up |-> <<Add({Column("orders", "display_id"), NotNull("orders", "display_id")}, {Table("orders")}),
              Add({UniqueKey("orders", "display_id")}, {Column("orders", "display_id")}),
              SetOn(StatusDefault)>>,
     down |-> <<Drop(UniqueKey("orders", "display_id")), Drop(Column("orders", "display_id"))>>]

Generated1757455211999 ==
    [stamp |-> 1757455211,
     up |-> <<Add({Column("orders", "display_id"), NotNull("orders", "display_id")}, {Table("orders")}),
              Add({UniqueKey("orders", "display_id")}, {Column("orders", "display_id")}),
              SetOn(StatusDefault)>>,
     down |-> <<Unset(StatusDefault), Drop(UniqueKey("orders", "display_id")),
                Drop(Column("orders", "display_id"))>>]

(* The enumeration is renamed, created again with another set of values,   *)
(* and the column is converted by a cast, which fails on a value that is   *)
(* not in the new set.                                                     *)
OldEnum(values) == EnumType("orders_paymentstatus_old", values)
StatusOf(type) == EnumColumn("orders", "paymentStatus", type)

CastStatus(from, to, values) ==
    [Statement EXCEPT !.needs = {StatusOf(from)}, !.removes = {StatusOf(from)},
                      !.adds = {StatusOf(to)}, !.fits = values \cup {NoOrder}]

(* A plausible bug, TypeORM's own default: the column is dropped and added *)
(* with the new type instead of being converted.                           *)
Generated1757564486153Dropping ==
    LET Retype(old, new) == <<
            Drop(Index("orders", "paymentStatus")), DropStatusColumn,
            Drop(StatusEnum(old)), Add({StatusEnum(new)}, {}),
            AddStatusColumn({StatusOf("orders_paymentstatus")}, {StatusEnum(new)}),
            AddIndex("orders", "paymentStatus")>>
    IN [stamp |-> 1757564486,
        up |-> <<Unset(NotNull("orders", "display_id"))>> \o Retype(FirstStatus, OrderStatus),
        down |-> Retype(OrderStatus, FirstStatus) \o <<SetOn(NotNull("orders", "display_id"))>>]

Generated1757564486153 ==
    LET New == "orders_paymentstatus"
        Old == "orders_paymentstatus_old"
    IN [stamp |-> 1757564486,
        up |-> <<
           Unset(NotNull("orders", "display_id")),
           [Statement EXCEPT !.needs = {StatusEnum(FirstStatus), StatusOf(New)},
                             !.removes = {StatusEnum(FirstStatus), StatusOf(New)},
                             !.adds = {OldEnum(FirstStatus), StatusOf(Old)}],
           Add({StatusEnum(OrderStatus)}, {}),
           Unset(StatusDefault), CastStatus(Old, New, OrderStatus), SetOn(StatusDefault),
           Drop(OldEnum(FirstStatus))>>,
        down |-> <<
           Add({OldEnum(FirstStatus)}, {}),
           Unset(StatusDefault), CastStatus(New, Old, FirstStatus), SetOn(StatusDefault),
           Drop(StatusEnum(OrderStatus)),
           [Statement EXCEPT !.needs = {OldEnum(FirstStatus), StatusOf(Old)},
                             !.removes = {OldEnum(FirstStatus), StatusOf(Old)},
                             !.adds = {StatusEnum(FirstStatus), StatusOf(New)}],
           SetOn(NotNull("orders", "display_id"))>>]

-----------------------------------------------------------------------------
(* Later columns and tables.                                               *)
UserAddress == <<"street", "number", "complement", "neighborhood", "city", "state">>

AddUserAddressFields1757600000000 ==
    LET Retype == [Statement EXCEPT !.needs = {Column("users", "zipCode")}]
    IN [stamp |-> 1757600000,
        up |-> [i \in 1..6 |-> AddColumn("users", UserAddress[i])] \o <<Retype>>,
        down |-> <<Retype>> \o [i \in 1..6 |-> Drop(Column("users", UserAddress[7 - i]))]]

AddCreditUsedToOrder1759747200000 ==
    [stamp |-> 1759747200,
     up |-> <<AddColumn("orders", "creditUsed")>>,
     down |-> <<Drop(Column("orders", "creditUsed"))>>]

Generated1759959807948 ==
    [stamp |-> 1759959807,
     up |-> <<AddColumn("institution_events", "deleted_at"),
              AddColumn("user_event_photos", "deleted_at")>>,
     down |-> <<Drop(Column("user_event_photos", "deleted_at")),
                Drop(Column("institution_events", "deleted_at"))>>]

Generated1760917623803 ==
    [stamp |-> 1760917623,
     up |-> <<CreateTable("password_reset_codes",
                 {"id", "code", "expires_at", "used", "created_at", "user_id"}),
              AddForeignKey("password_reset_codes", "user_id", "users", "CASCADE")>>,
     down |-> <<Drop(ForeignKey("password_reset_codes", "user_id", "users", "CASCADE")),
                DropTable("password_reset_codes")>>]

Generated1763735367287 ==
    [stamp |-> 1763735367,
     up |-> <<AddColumn("order_items", "quantity")>>,
     down |-> <<Drop(Column("order_items", "quantity"))>>]

AddLastLoginAt1767712724467 ==
    [stamp |-> 1767712724,
     up |-> <<AddColumn("users", "last_login_at")>>,
     down |-> <<Drop(Column("users", "last_login_at"))>>]

(* These two carry a timestamp older than the tables they change.          *)
AddCreditRestoredToOrder1736848800000 ==
    [stamp |-> 1736848800,
     up |-> <<AddColumn("orders", "credit_restored")>>,
     down |-> <<Drop(Column("orders", "credit_restored"))>>]

AddCreditReservedToUser1737050000000 ==
    [stamp |-> 1737050000,
     up |-> <<AddColumn("users", "creditReserved")>>,
     down |-> <<Drop(Column("users", "creditReserved"))>>]

(* A plausible bug: the cart table lacks the unique key of its owner.      *)
CreateCartTableWithoutKey ==
    [stamp |-> 1770872400,
     up |-> <<CreateTable("cart", {"id", "userId", "items", "created_at", "updated_at"}),
              AddIndex("cart", "userId"), AddIndex("cart", "updated_at"),
              AddForeignKey("cart", "userId", "users", "CASCADE")>>,
     down |-> <<Drop(ForeignKey("cart", "userId", "users", "CASCADE")),
                Drop(Index("cart", "updated_at")), Drop(Index("cart", "userId")),
                DropTable("cart")>>]

CreateCartTable1770872400000 ==
    [stamp |-> 1770872400,
     up |-> <<CreateTable("cart", {"id", "userId", "items", "created_at", "updated_at"}),
              Add({UniqueKey("cart", "userId")}, {}),
              AddIndex("cart", "userId"), AddIndex("cart", "updated_at"),
              AddForeignKey("cart", "userId", "users", "CASCADE")>>,
     down |-> <<Drop(ForeignKey("cart", "userId", "users", "CASCADE")),
                Drop(Index("cart", "updated_at")), Drop(Index("cart", "userId")),
                DropTable("cart")>>]

(* A plausible bug: the down method forgets the column.                    *)
AddFulfillmentStatusKeptOnRevert ==
    LET Check == CheckOn("order_items", "fulfillment_status")
        Key == Index("order_items", "fulfillment_status")
    IN [stamp |-> 1774072800,
        up |-> <<AddColumn("order_items", "fulfillment_status"),
                 Add({Check}, {Column("order_items", "fulfillment_status")}),
                 AddIndex("order_items", "fulfillment_status")>>,
        down |-> <<Drop(Key), Drop(Check)>>]

AddFulfillmentStatusToOrderItems1774072800000 ==
    LET Check == CheckOn("order_items", "fulfillment_status")
        Key == Index("order_items", "fulfillment_status")
    IN [stamp |-> 1774072800,
        up |-> <<AddColumn("order_items", "fulfillment_status"),
                 Add({Check}, {Column("order_items", "fulfillment_status")}),
                 AddIndex("order_items", "fulfillment_status")>>,
        down |-> <<Drop(Key), Drop(Check), Drop(Column("order_items", "fulfillment_status"))>>]

-----------------------------------------------------------------------------
(* The migrations array: the order in which the code base grew.            *)
Migrations == <<
    Generated1747237005972, Generated1750351515326, Generated1751148139056,
    CreateMercadoPagoWebhookTables1751228400000, CreateOrderTables1754264500000,
    AddUserAndContractFields1757211242262, Generated1757455211999, Generated1757564486153,
    AddUserAddressFields1757600000000, AddCreditUsedToOrder1759747200000,
    Generated1759959807948, Generated1760917623803, Generated1763735367287,
    AddLastLoginAt1767712724467, AddCreditRestoredToOrder1736848800000,
    AddCreditReservedToUser1737050000000, CreateCartTable1770872400000,
    AddFulfillmentStatusToOrderItems1774072800000>>
=============================================================================
