------------------------------- MODULE Catalog -------------------------------
(***************************************************************************)
(* Categories, products and settings: src/catalog/catalog.service.ts and   *)
(* src/settings/settings.controller.ts.  No request here runs in a         *)
(* transaction, so each statement is a step: what one request checked      *)
(* another may change before the first one writes.                         *)
(*                                                                         *)
(* TypeORM's save() of an entity writes every column in which the entity,  *)
(* as it was read, differs from the row, deleted_at included; a property   *)
(* that is undefined is not written.  Stock and prices are in SalesTx.     *)
(***************************************************************************)
EXTENDS FiniteSets, Naturals

CONSTANTS Category, Product,   \* the ids there may be
          Business, BusinessOf,  \* the tenant of each category and product
          Name,        \* of categories
          Sku,         \* skus; barcodes are checked after them and the same way
          Uuid,        \* what tells the image files of a product apart
          Request,     \* requests in progress at a time
          NoValue

VARIABLES categories,  \* the row of each category, NoValue before it exists
          products,    \* the row of each product
          settings,    \* how many rows of settings each tenant has
          request,     \* what each request has read and does next
          overlapped,  \* history: what two requests have been about at once
          given        \* history: the products whose image was replaced by imagenUrl in
                       \* a body, and the images given so

catalogVars == <<categories, products, settings, request, overlapped, given>>

Image == [producto : Product, uuid : Uuid]
CategoryRow == [nombre : Name, borrada : BOOLEAN]
ProductRow == [categoria : Category, sku : Sku \cup {NoValue}, imagen : Image \cup {NoValue}]

RequestRecord ==
  [kind : {"altaCategoria", "edicionCategoria", "bajaCategoria", "altaProducto",
           "edicionProducto", "configuracion", "imagen", "sinImagen"},
   negocio : Business, phase : {"nombre", "categoria", "sku", "archivo", "guardar", "quitar"},
   categoria : Category \cup {NoValue}, nombre : Name \cup {NoValue},
   sku : Sku \cup {NoValue}, producto : Product \cup {NoValue},
   row : ProductRow \cup {NoValue}, archivo : Image \cup {NoValue}]

ASSUME CatalogAssumption ==
  /\ BusinessOf \in [Category \cup Product -> Business]
  /\ Category \cap Product = {} /\ Product \cap Image = {}
  /\ NoValue \notin Category \cup Product \cup Name \cup Image \cup CategoryRow \cup ProductRow
                     \cup RequestRecord

\* A tenant is created with its settings; one that was migrated from an
\* installation without any has none.
CatalogInit ==
  /\ categories = [c \in Category |-> NoValue]
  /\ products = [p \in Product |-> NoValue]
  /\ settings \in [Business -> {0, 1}]
  /\ request = [r \in Request |-> NoValue]
  /\ overlapped = {} /\ given = {}

-----------------------------------------------------------------------------
\* A request of tenant negocio; the category and the sku or name it asks for,
\* the product it is about and the row of it or of the category it has read.
Asked(kind, b, phase) ==
  [kind |-> kind, negocio |-> b, phase |-> phase, categoria |-> NoValue, nombre |-> NoValue,
   sku |-> NoValue, producto |-> NoValue, row |-> NoValue, archivo |-> NoValue]

\* The product and the categories a request reads or writes.
About(q) ==
  ({q.categoria, q.producto}
     \cup IF q.producto = NoValue THEN {} ELSE {q.row.categoria}) \ {NoValue}

\* What its body names an image for, if not the one that is there, and that image.
Gives(q) ==
  ({q.archivo} \cup IF q.producto = NoValue \/ q.row.imagen = products[q.producto].imagen THEN {}
                    ELSE {q.producto, q.row.imagen}) \ {NoValue}

Begin(r, q) ==
  /\ request[r] = NoValue
  /\ request' = [request EXCEPT ![r] = q]
  /\ given' = given \cup Gives(q)
  /\ overlapped' = overlapped \cup
       UNION {About(q) \cap About(request[t]) : t \in {t \in Request : request[t] # NoValue}}

At(r, kind, phase) ==
  request[r] # NoValue /\ request[r].kind = kind /\ request[r].phase = phase
GoTo(r, phase) ==
  request' = [request EXCEPT ![r].phase = phase] /\ UNCHANGED <<overlapped, given>>
Forget(r) == request' = [request EXCEPT ![r] = NoValue] /\ UNCHANGED <<overlapped, given>>

\* A check that lets the request go on to phase, or refuses it.
Check(r, ok, phase) ==
  /\ IF ok THEN GoTo(r, phase) ELSE Forget(r)
  /\ UNCHANGED <<categories, products, settings>>

\* Mutant: the category is looked for in every tenant.
CategoryFoundAnywhere(c, b) == categories[c] # NoValue /\ ~ categories[c].borrada

\* required(): the row is the tenant's and is not deleted.
CategoryFound(c, b) ==
  categories[c] # NoValue /\ ~ categories[c].borrada /\ BusinessOf[c] = b
ProductFound(p, b) == products[p] # NoValue /\ BusinessOf[p] = b

NameUsed(nombre, b) == \E c \in Category : CategoryFound(c, b) /\ categories[c].nombre = nombre

\* Mutant: the table has no unique key.
NameNeverTaken(c, nombre) == FALSE

\* The unique key of names, which knows nothing of deleted_at.
NameTaken(c, nombre) ==
  \E d \in Category \ {c} :
     BusinessOf[d] = BusinessOf[c] /\ categories[d] # NoValue /\ categories[d].nombre = nombre

\* identifiers(): deleted rows count.  The id of the product found is a string
\* and the one to exclude a number, so a product finds itself too.
SkuUsed(sku, b) == \E p \in Product : ProductFound(p, b) /\ products[p].sku = sku

SkuTaken(p, sku) ==
  sku # NoValue /\
  \E x \in Product \ {p} :
     BusinessOf[x] = BusinessOf[p] /\ products[x] # NoValue /\ products[x].sku = sku

-----------------------------------------------------------------------------
\* createCategory() finds no category of that name, and inserts.
CreateCategory(r, b, nombre) ==
  /\ ~ NameUsed(nombre, b)
  /\ Begin(r, [Asked("altaCategoria", b, "guardar") EXCEPT !.nombre = nombre])
  /\ UNCHANGED <<categories, products, settings>>

InsertCategory(r, c) ==
  LET q == request[r] IN
  /\ At(r, "altaCategoria", "guardar")
  /\ categories[c] = NoValue /\ BusinessOf[c] = q.negocio
  /\ IF NameTaken(c, q.nombre) THEN UNCHANGED categories
     ELSE categories' = [categories EXCEPT ![c] = [nombre |-> q.nombre, borrada |-> FALSE]]
  /\ Forget(r)
  /\ UNCHANGED <<products, settings>>

\* updateCategory(): the row, the name unless it stays, the save.
UpdateCategory(r, b, c, nombre) ==
  /\ CategoryFound(c, b)
  /\ Begin(r, [Asked("edicionCategoria", b,
                     IF nombre = categories[c].nombre THEN "guardar" ELSE "nombre")
                 EXCEPT !.categoria = c, !.nombre = nombre])
  /\ UNCHANGED <<categories, products, settings>>

CheckName(r) ==
  /\ At(r, "edicionCategoria", "nombre")
  /\ Check(r, ~ NameUsed(request[r].nombre, request[r].negocio), "guardar")

\* The entity was not deleted when it was read, so the save undoes a deletion.
SaveCategory(r) ==
  LET q == request[r] IN
  /\ At(r, "edicionCategoria", "guardar")
  /\ IF NameTaken(q.categoria, q.nombre) THEN UNCHANGED categories
     ELSE categories' =
            [categories EXCEPT ![q.categoria] = [nombre |-> q.nombre, borrada |-> FALSE]]
  /\ Forget(r)
  /\ UNCHANGED <<products, settings>>

\* Mutant: only products of the catalogue with an image count.
InUseWithImage(c, b) ==
  \E p \in Product : ProductFound(p, b) /\ products[p].categoria = c /\ products[p].imagen # NoValue

InUse(c, b) == \E p \in Product : ProductFound(p, b) /\ products[p].categoria = c

\* deleteCategory(): no product is in it, it is found, it is deleted.
DeleteCategory(r, b, c) ==
  /\ ~ InUse(c, b)
  /\ Begin(r, [Asked("bajaCategoria", b, "categoria") EXCEPT !.categoria = c])
  /\ UNCHANGED <<categories, products, settings>>

FindDeleted(r) ==
  /\ At(r, "bajaCategoria", "categoria")
  /\ Check(r, CategoryFound(request[r].categoria, request[r].negocio), "guardar")

SoftDelete(r) ==
  /\ At(r, "bajaCategoria", "guardar")
  /\ categories' = [categories EXCEPT ![request[r].categoria].borrada = TRUE]
  /\ Forget(r)
  /\ UNCHANGED <<products, settings>>

-----------------------------------------------------------------------------
\* A body may name any image, but for a file just written: its name, a random
\* one, is told to nobody before a row has it.  One that is no file stands for
\* any other text, NoValue for null and the empty one.
Known(imagen) == \A r \in Request : At(r, "imagen", "guardar") => request[r].archivo # imagen

\* createProduct(): the category, the identifiers, the insert of what is given.
CreateProduct(r, b, c, sku, imagen) ==
  /\ CategoryFound(c, b)
  /\ Known(imagen)
  /\ Begin(r, [Asked("altaProducto", b, "sku")
                 EXCEPT !.categoria = c, !.sku = sku, !.archivo = imagen])
  /\ UNCHANGED <<categories, products, settings>>

\* updateProduct() and statusProduct(): the product, and what the request gives
\* of the category, the identifiers and the image, which is assigned to the row
\* as it was read; no status gives any.
UpdateProduct(r, b, p, c, sku, imagen) ==
  /\ ProductFound(p, b)
  /\ c = NoValue => sku = NoValue /\ imagen = products[p].imagen
  /\ imagen = products[p].imagen \/ Known(imagen)
  /\ Begin(r, [Asked("edicionProducto", b, IF c = NoValue THEN "guardar" ELSE "categoria")
                 EXCEPT !.producto = p, !.row = [products[p] EXCEPT !.imagen = imagen],
                        !.categoria = c, !.sku = sku])
  /\ UNCHANGED <<categories, products, settings>>

FindCategory(r) ==
  /\ At(r, "edicionProducto", "categoria")
  /\ Check(r, CategoryFound(request[r].categoria, request[r].negocio), "sku")

CheckSku(r) ==
  LET q == request[r] IN
  /\ At(r, "altaProducto", "sku") \/ At(r, "edicionProducto", "sku")
  /\ Check(r, q.sku = NoValue \/ ~ SkuUsed(q.sku, q.negocio), "guardar")

InsertProduct(r, p) ==
  LET q == request[r] IN
  /\ At(r, "altaProducto", "guardar")
  /\ products[p] = NoValue /\ BusinessOf[p] = q.negocio
  /\ IF SkuTaken(p, q.sku) THEN UNCHANGED products
     ELSE products' = [products EXCEPT ![p] =
                         [categoria |-> q.categoria, sku |-> q.sku, imagen |-> q.archivo]]
  /\ Forget(r)
  /\ UNCHANGED <<categories, settings>>

\* Mutant: a category the request does not give is written as it gives it.
SaveProductAsGiven(r) ==
  LET q == request[r] IN
  /\ At(r, "edicionProducto", "guardar")
  /\ products' = [products EXCEPT ![q.producto] =
                    [categoria |-> q.categoria, sku |-> q.row.sku, imagen |-> q.row.imagen]]
  /\ Forget(r)
  /\ UNCHANGED <<categories, settings>>

\* The whole entity is saved: what the request does not give is written back as
\* it was read, what it gives of the image is in the row already.
SaveProduct(r) ==
  LET q == request[r]
      sku == IF q.sku = NoValue THEN q.row.sku ELSE q.sku
      categoria == IF q.categoria = NoValue THEN q.row.categoria ELSE q.categoria
  IN /\ At(r, "edicionProducto", "guardar")
     /\ IF SkuTaken(q.producto, sku) THEN UNCHANGED products
        ELSE products' = [products EXCEPT ![q.producto] =
                            [categoria |-> categoria, sku |-> sku, imagen |-> q.row.imagen]]
     /\ Forget(r)
     /\ UNCHANGED <<categories, settings>>

-----------------------------------------------------------------------------
\* The first read or edit of a tenant's settings finds none and inserts them;
\* their unique key refuses a second insert.
GetSettings(r, b) ==
  /\ settings[b] = 0
  /\ Begin(r, Asked("configuracion", b, "guardar"))
  /\ UNCHANGED <<categories, products, settings>>

InsertSettings(r) ==
  LET b == request[r].negocio IN
  /\ At(r, "configuracion", "guardar")
  /\ settings' = [settings EXCEPT ![b] = IF @ = 0 THEN 1 ELSE @]
  /\ Forget(r)
  /\ UNCHANGED <<categories, products>>

\* A statement fails or the process stops: nothing is undone.
Fail(r) ==
  /\ request[r] # NoValue
  /\ Forget(r)
  /\ UNCHANGED <<categories, products, settings>>

CatalogStep(r) ==
  \/ /\ request[r] = NoValue
     /\ \E b \in Business :
        \/ GetSettings(r, b)
        \/ \E nombre \in Name :
              CreateCategory(r, b, nombre) \/ \E c \in Category : UpdateCategory(r, b, c, nombre)
        \/ \E c \in Category : DeleteCategory(r, b, c)
        \/ \E sku \in Sku \cup {NoValue}, imagen \in Image \cup {NoValue} :
              \/ \E c \in Category : CreateProduct(r, b, c, sku, imagen)
              \/ \E p \in Product, c \in Category \cup {NoValue} :
                    UpdateProduct(r, b, p, c, sku, imagen)
  \/ \E c \in Category : InsertCategory(r, c)
  \/ \E p \in Product : InsertProduct(r, p)
  \/ CheckName(r) \/ SaveCategory(r) \/ FindDeleted(r) \/ SoftDelete(r)
  \/ FindCategory(r) \/ CheckSku(r) \/ SaveProduct(r) \/ InsertSettings(r)

-----------------------------------------------------------------------------
CatalogTypeOK ==
  /\ categories \in [Category -> CategoryRow \cup {NoValue}]
  /\ products \in [Product -> ProductRow \cup {NoValue}]
  /\ settings \in [Business -> Nat]
  /\ overlapped \subseteq Category \cup Product /\ given \subseteq Product \cup Image
  /\ request \in [Request -> RequestRecord \cup {NoValue}]

NamesUnique ==
  \A c, d \in Category :
     /\ c # d /\ BusinessOf[c] = BusinessOf[d] /\ categories[c] # NoValue /\ categories[d] # NoValue
     => categories[c].nombre # categories[d].nombre

SkusUnique ==
  \A p, x \in Product :
     /\ p # x /\ BusinessOf[p] = BusinessOf[x] /\ products[p] # NoValue /\ products[x] # NoValue
     => products[p].sku = NoValue \/ products[p].sku # products[x].sku

\* However creations and edits overlap, no two categories of a tenant have one
\* name, deleted ones included, no two products one sku, and no tenant two rows
\* of settings: catalog.service.ts:11-18 only look before they insert.
KeysUnique ==
  /\ NamesUnique
  /\ SkusUnique
  /\ \A b \in Business : settings[b] <= 1

\* A product is in a category of its own tenant, and in one that is deleted
\* ('Categoría en uso', catalog.service.ts:13) only if a request about that
\* category overlapped another.
CategoryInUse ==
  \A p \in Product : products[p] # NoValue =>
     LET c == products[p].categoria IN
     /\ categories[c] # NoValue /\ BusinessOf[c] = BusinessOf[p]
     /\ categories[c].borrada => c \in overlapped
=============================================================================
