------------------------------ MODULE Entities ------------------------------
(***************************************************************************)
(* What the entity classes tell the object mapper about the tables: their  *)
(* columns, unique keys, relations with the rule for a deleted target, and *)
(* enumerations.  Nothing keeps them in step with the migrations.          *)
(***************************************************************************)
EXTENDS Ddl

Entity(t, cs, facts) == {Table(t)} \cup Columns(t, cs) \cup facts

Relation(t, c, target, rule) == ForeignKey(t, c, target, rule)

Institution ==
    Entity("institutions",
           {"id", "contractNumber", "name", "observations", "created_at", "updated_at"},
           {UniqueKey("institutions", "contractNumber")})

InstitutionEvent ==
    Entity("institution_events",
           {"id", "institution_id", "name", "created_at", "updated_at", "deleted_at"},
           {Relation("institution_events", "institution_id", "institutions", "CASCADE")})

User ==
    Entity("users",
           {"id", "name", "identifier", "email", "phone", "observations", "passwordHash", "role",
            "institution_id", "fatherName", "fatherPhone", "motherName", "motherPhone",
            "driveLink", "creditValue", "creditReserved", "profileImage", "status",
            "currentHashedRefreshToken", "cpf", "becaMeasures", "zipCode", "street", "number",
            "complement", "neighborhood", "city", "state", "address", "created_at",
            "updated_at", "last_login_at"},
           {UniqueKey("users", "email"),
            Relation("users", "institution_id", "institutions", "CASCADE")})

ProductFlag == {"ALBUM", "GENERIC", "DIGITAL_FILES"}

EnumOf(t, c, name, values) == {EnumType(name, values), EnumColumn(t, c, name)}

Product ==
    Entity("products",
           {"id", "name", "flag", "description", "photos", "video", "created_at", "updated_at"},
           EnumOf("products", "flag", "products_flag", ProductFlag))

(* The unique key of a link is the pair of product and institution.        *)
InstitutionProduct ==
    Entity("institution_products",
           {"id", "product_id", "institution_id", "flag", "details", "created_at", "updated_at"},
           EnumOf("institution_products", "flag", "institution_products_flag", ProductFlag)
           \cup {UniqueKey("institution_products", "product_id"),
                 Relation("institution_products", "product_id", "products", "CASCADE"),
                 Relation("institution_products", "institution_id", "institutions", "CASCADE")})

UserEventPhoto ==
    Entity("user_event_photos",
           {"id", "user_id", "event_id", "fileName", "created_at", "updated_at", "deleted_at"},
           {Relation("user_event_photos", "user_id", "users", "CASCADE"),
            Relation("user_event_photos", "event_id", "institution_events", "CASCADE")})

MercadoPagoNotification ==
    Entity("mercado_pago_notifications",
           {"id", "type", "paymentId", "merchantOrderId", "status", "rawData", "created_at",
            "processed_at"}, {})

PaymentStatusHistory ==
    Entity("payment_status_history",
           {"id", "paymentId", "externalReference", "status", "statusDetail",
            "transactionAmount", "dateApproved", "dateCreated", "lastModified", "created_at"}, {})

Order ==
    Entity("orders",
           {"id", "display_id", "userId", "totalAmount", "paymentStatus", "paymentGatewayId",
            "contractNumber", "contractUniqueId", "shippingAddress", "creditUsed",
            "credit_restored", "created_at", "updated_at"},
           EnumOf("orders", "paymentStatus", "orders_paymentstatus", OrderStatus)
           \cup {UniqueKey("orders", "display_id"),
                 Relation("orders", "userId", "users", "CASCADE")})

OrderItem ==
    Entity("order_items",
           {"id", "orderId", "productId", "productName", "productType", "itemPrice", "quantity",
            "fulfillment_status", "created_at"},
           EnumOf("order_items", "productType", "order_items_producttype", ProductFlag)
           \cup {Relation("order_items", "orderId", "orders", "CASCADE"),
                 Relation("order_items", "productId", "products", "NO ACTION")})

OrderItemDetail ==
    Entity("order_item_details",
           {"id", "orderItemId", "photoId", "eventId", "isPackage", "created_at"},
           {Relation("order_item_details", "orderItemId", "order_items", "CASCADE"),
            Relation("order_item_details", "photoId", "user_event_photos", "NO ACTION")})

PasswordResetCode ==
    Entity("password_reset_codes", {"id", "user_id", "code", "expires_at", "used", "created_at"},
           {Relation("password_reset_codes", "user_id", "users", "CASCADE")})

Cart ==
    Entity("cart", {"id", "userId", "items", "created_at", "updated_at"},
           {UniqueKey("cart", "userId"), Relation("cart", "userId", "users", "CASCADE")})

(* The entities array.                                                     *)
Declared ==
    Institution \cup User \cup InstitutionEvent \cup Product \cup InstitutionProduct
    \cup UserEventPhoto \cup MercadoPagoNotification \cup PaymentStatusHistory
    \cup Order \cup OrderItem \cup OrderItemDetail \cup PasswordResetCode \cup Cart

DeclaredKinds == {"table", "column", "unique", "foreign key", "type", "of type"}

AsDeclared(schema) == {f \in schema : f[1] \in DeclaredKinds} = Declared
=============================================================================
