---------------------------- MODULE CatalogProofs ----------------------------
(***************************************************************************)
(* For every set of categories, products, tenants and requests at once:    *)
(* types, unique keys, and which requests may leave a product in a deleted *)
(* category, a file that nothing names or a product without its image.     *)
(***************************************************************************)
EXTENDS ProductImages, TLAPS

\* The kinds of request that read a product, and those that give a category.
OfProduct(q) == q.kind \in {"edicionProducto", "imagen", "sinImagen"}
Placing(q) ==
  \/ q.kind = "altaProducto"
  \/ q.kind = "edicionProducto" /\ q.categoria # NoValue /\ q.phase \in {"sku", "guardar"}

\* What a request gives is there for its kind.
Fits(q) ==
  /\ q.kind \in {"edicionCategoria", "bajaCategoria", "altaProducto"} => q.categoria \in Category
  /\ q.kind \in {"altaCategoria", "edicionCategoria"} => q.nombre \in Name
  /\ IF OfProduct(q) THEN q.producto \in Product /\ q.row \in ProductRow
                     ELSE q.producto = NoValue

\* What it has read was a row of its tenant, and rows are never taken away.
There(q) ==
  /\ q.kind = "edicionCategoria" => categories[q.categoria] # NoValue
  /\ q.kind = "bajaCategoria" /\ q.phase = "guardar" =>
       categories[q.categoria] # NoValue /\ BusinessOf[q.categoria] = q.negocio
  /\ Placing(q) => categories[q.categoria] # NoValue /\ BusinessOf[q.categoria] = q.negocio
  /\ OfProduct(q) =>
       /\ products[q.producto] # NoValue /\ BusinessOf[q.producto] = q.negocio
       /\ categories[q.row.categoria] # NoValue /\ BusinessOf[q.row.categoria] = q.negocio

\* A category no other request has been about is still as it was found.
StillSo(q) ==
  /\ Placing(q) /\ categories[q.categoria].borrada => q.categoria \in overlapped
  /\ OfProduct(q) /\ categories[q.row.categoria].borrada => q.row.categoria \in overlapped
  /\ q.kind = "bajaCategoria" /\ InUse(q.categoria, q.negocio) => q.categoria \in overlapped

RequestsFit == \A r \in Request : request[r] # NoValue => Fits(request[r])
RequestsThere == \A r \in Request : request[r] # NoValue => There(request[r])
AsFound == \A r \in Request : request[r] # NoValue => StillSo(request[r])
Apart ==
  \A r, t \in Request : r # t /\ request[r] # NoValue /\ request[t] # NoValue =>
     About(request[r]) \cap About(request[t]) \subseteq overlapped

CatalogInv ==
  /\ CatalogTypeOK /\ RequestsFit /\ RequestsThere /\ KeysUnique
  /\ CategoryInUse /\ AsFound /\ Apart

-----------------------------------------------------------------------------
USE CatalogAssumption

\* A step of request r alone, which ends it or leaves it one the invariant allows.
Continues(r) ==
  /\ request[r] # NoValue
  /\ request' \in [Request -> RequestRecord \cup {NoValue}]
  /\ \A t \in Request \ {r} : request'[t] = request[t]
  /\ overlapped' = overlapped /\ given' = given
  /\ (request[r] # NoValue => Fits(request[r]) /\ There(request[r]) /\ StillSo(request[r]))'
  /\ request'[r] # NoValue => About(request'[r]) \subseteq About(request[r])

LEMMA AboutRows ==
  ASSUME NEW q \in RequestRecord, Fits(q) PROVE About(q) \subseteq Category \cup Product
BY DEF About, RequestRecord, Fits, OfProduct, ProductRow

LEMMA GivesRows ==
  ASSUME NEW q \in RequestRecord, Fits(q) PROVE Gives(q) \subseteq Product \cup Image
BY DEF Gives, RequestRecord, Fits, OfProduct, ProductRow

LEMMA ContinuesFit ==
  ASSUME CatalogInv, NEW r \in Request, Continues(r) PROVE RequestsFit'
BY DEF CatalogInv, Continues, RequestsFit, Fits, OfProduct

LEMMA ContinuesApart ==
  ASSUME CatalogInv, NEW r \in Request, Continues(r) PROVE Apart'
<1> SUFFICES ASSUME NEW t \in Request, NEW x \in Request, t # x,
                    request'[t] # NoValue, request'[x] # NoValue
             PROVE  About(request'[t]) \cap About(request'[x]) \subseteq overlapped
  BY DEF Apart, Continues, About
<1>1. /\ request[t] # NoValue /\ About(request'[t]) \subseteq About(request[t])
      /\ request[x] # NoValue /\ About(request'[x]) \subseteq About(request[x])
  BY DEF Continues
<1> QED
  BY <1>1 DEF CatalogInv, Apart

\* No row changes: the other requests see what they saw.
LEMMA NoRow ==
  ASSUME CatalogInv, NEW r \in Request, Continues(r), UNCHANGED <<categories, products, settings>>
  PROVE  CatalogInv'
<1>1. CatalogTypeOK' /\ KeysUnique' /\ CategoryInUse'
  BY DEF CatalogInv, CatalogTypeOK, KeysUnique, NamesUnique, SkusUnique, CategoryInUse, Continues
<1>2. RequestsThere' /\ AsFound'
  <2> SUFFICES ASSUME NEW t \in Request, request'[t] # NoValue
               PROVE  There(request[t])' /\ StillSo(request[t])'
    BY DEF RequestsThere, AsFound
  <2>1. CASE t = r
    BY <2>1 DEF Continues
  <2>2. CASE t # r
    BY <2>2 DEF Continues, CatalogInv, RequestsThere, AsFound, There, StillSo, OfProduct, Placing,
                InUse, ProductFound
  <2> QED
    BY <2>1, <2>2
<1> QED
  BY <1>1, <1>2, ContinuesFit, ContinuesApart DEF CatalogInv

LEMMA Forgotten ==
  ASSUME CatalogInv, NEW r \in Request, request[r] # NoValue, Forget(r)
  PROVE  Continues(r) /\ request'[r] = NoValue
BY DEF CatalogInv, CatalogTypeOK, Forget, Continues

-----------------------------------------------------------------------------
\* A category is written: inserted, saved, or deleted when no product is in it.
LEMMA CategoryWritten ==
  ASSUME CatalogInv, NEW r \in Request, request[r] # NoValue, Forget(r),
         UNCHANGED <<products, settings>>,
         NEW c \in Category, NEW row \in CategoryRow,
         categories' = [categories EXCEPT ![c] = row],
         ~ NameTaken(c, row.nombre),
         row.borrada => /\ c \in About(request[r])
                        /\ c \in overlapped \/ ~ InUse(c, BusinessOf[c])
  PROVE  CatalogInv'
<1>1. Continues(r) /\ request'[r] = NoValue
  BY Forgotten
<1>2. \A d \in Category : /\ categories'[d] = IF d = c THEN row ELSE categories[d]
                          /\ categories[d] # NoValue => categories'[d] # NoValue
  BY DEF CatalogInv, CatalogTypeOK
<1>3. CatalogTypeOK'
  BY <1>1 DEF CatalogInv, CatalogTypeOK, Continues
<1>4. KeysUnique'
  <2>1. NamesUnique'
    <3> SUFFICES ASSUME NEW d \in Category, NEW e \in Category, d # e, BusinessOf[d] = BusinessOf[e],
                        categories'[d] # NoValue, categories'[e] # NoValue
                 PROVE  categories'[d].nombre # categories'[e].nombre
      BY DEF NamesUnique
    <3> QED
      BY <1>2 DEF NameTaken, CatalogInv, KeysUnique, NamesUnique
  <2> QED
    BY <2>1 DEF CatalogInv, KeysUnique, SkusUnique
<1>5. CategoryInUse'
  <2> SUFFICES ASSUME NEW p \in Product, products[p] # NoValue
               PROVE  LET d == products[p].categoria IN
                      /\ categories'[d] # NoValue /\ BusinessOf[d] = BusinessOf[p]
                      /\ categories'[d].borrada => d \in overlapped
    BY <1>1 DEF CategoryInUse, Continues
  <2>1. products[p].categoria \in Category
    BY DEF CatalogInv, CatalogTypeOK, ProductRow
  <2> QED
    BY <1>2, <2>1 DEF CatalogInv, CategoryInUse, InUse, ProductFound
<1>6. RequestsThere' /\ AsFound'
  <2> SUFFICES ASSUME NEW t \in Request, request'[t] # NoValue
               PROVE  There(request[t])' /\ StillSo(request[t])'
    BY DEF RequestsThere, AsFound
  <2> DEFINE q == request[t]
  <2>1. t # r /\ request'[t] = q /\ q # NoValue /\ overlapped' = overlapped
    BY <1>1 DEF Continues
  <2>2. q \in RequestRecord /\ Fits(q) /\ There(q) /\ StillSo(q)
    BY <2>1 DEF CatalogInv, CatalogTypeOK, RequestsFit, RequestsThere, AsFound
  <2>3. q.categoria \in Category \cup {NoValue} /\ (OfProduct(q) => q.row.categoria \in Category)
    BY <2>2 DEF RequestRecord, Fits, ProductRow
  <2>4. Placing(q) => q.categoria \in Category
    BY <2>2, <2>3 DEF Placing, Fits
  <2>5. There(q)'
    BY <1>2, <2>1, <2>2, <2>3, <2>4 DEF There, Fits, OfProduct, Placing
  <2>6. row.borrada /\ c \in About(q) => c \in overlapped
    BY <2>1 DEF CatalogInv, Apart
  <2>7. /\ Placing(q) => q.categoria \in About(q)
        /\ OfProduct(q) => q.row.categoria \in About(q)
    BY <2>2, <2>3, <2>4 DEF About, Fits
  <2>8. StillSo(q)'
    BY <1>2, <2>1, <2>2, <2>3, <2>4, <2>6, <2>7
       DEF StillSo, There, OfProduct, Placing, InUse, ProductFound
  <2> QED
    BY <2>1, <2>5, <2>8
<1> QED
  BY <1>1, <1>3, <1>4, <1>5, <1>6, ContinuesFit, ContinuesApart DEF CatalogInv

\* A product is written, in a category its request has been about.
LEMMA ProductWritten ==
  ASSUME CatalogInv, NEW r \in Request, UNCHANGED <<categories, settings>>,
         NEW p \in Product, NEW row \in ProductRow,
         products' = [products EXCEPT ![p] = row],
         ~ SkuTaken(p, row.sku),
         categories[row.categoria] # NoValue, BusinessOf[row.categoria] = BusinessOf[p],
         categories[row.categoria].borrada => row.categoria \in overlapped,
         row.categoria \in About(request[r]),
         Continues(r)
  PROVE  CatalogInv'
<1>2. \A x \in Product : /\ products'[x] = IF x = p THEN row ELSE products[x]
                         /\ products[x] # NoValue => products'[x] # NoValue
  BY DEF CatalogInv, CatalogTypeOK
<1>3. CatalogTypeOK'
  BY DEF CatalogInv, CatalogTypeOK, Continues
<1>4. KeysUnique'
  <2>1. SkusUnique'
    <3> SUFFICES ASSUME NEW x \in Product, NEW y \in Product, x # y, BusinessOf[x] = BusinessOf[y],
                        products'[x] # NoValue, products'[y] # NoValue
                 PROVE  products'[x].sku = NoValue \/ products'[x].sku # products'[y].sku
      BY DEF SkusUnique
    <3> QED
      BY <1>2 DEF SkuTaken, CatalogInv, KeysUnique, SkusUnique
  <2> QED
    BY <2>1 DEF CatalogInv, KeysUnique, NamesUnique
<1>5. CategoryInUse'
  BY <1>2 DEF CatalogInv, CategoryInUse, Continues
<1>6. RequestsThere' /\ AsFound'
  <2> SUFFICES ASSUME NEW t \in Request, request'[t] # NoValue
               PROVE  There(request[t])' /\ StillSo(request[t])'
    BY DEF RequestsThere, AsFound
  <2>1. CASE t = r
    BY <2>1 DEF Continues
  <2>2. CASE t # r
    <3> DEFINE q == request[t]
    <3>1. request'[t] = q /\ q # NoValue /\ overlapped' = overlapped
      BY <2>2 DEF Continues
    <3>2. q \in RequestRecord /\ Fits(q) /\ There(q) /\ StillSo(q)
      BY <3>1 DEF CatalogInv, CatalogTypeOK, RequestsFit, RequestsThere, AsFound
    <3>3. There(q)'
      BY <1>2, <3>1, <3>2 DEF There, Fits, OfProduct, Placing
    <3>4. row.categoria \in About(q) => row.categoria \in overlapped
      BY <2>2, <3>1 DEF CatalogInv, Apart, Continues
    <3>5. q.kind = "bajaCategoria" => q.categoria \in About(q)
      BY <3>2 DEF About, Fits
    <3>6. StillSo(q)'
      BY <1>2, <3>1, <3>2, <3>4, <3>5 DEF StillSo, OfProduct, Placing, InUse, ProductFound
    <3> QED
      BY <3>1, <3>3, <3>6
  <2> QED
    BY <2>1, <2>2
<1> QED
  BY <1>3, <1>4, <1>5, <1>6, ContinuesFit, ContinuesApart DEF CatalogInv

-----------------------------------------------------------------------------
\* A request begins with what it has just found.
LEMMA Begun ==
  ASSUME CatalogInv, NEW r \in Request, NEW q \in RequestRecord, Begin(r, q),
         UNCHANGED <<categories, products, settings>>, Fits(q), There(q), StillSo(q)
  PROVE  CatalogInv'
<1> DEFINE common(t) == About(q) \cap About(request[t])
<1>1. /\ request[r] = NoValue
      /\ request' \in [Request -> RequestRecord \cup {NoValue}]
      /\ request'[r] = q
      /\ \A t \in Request : t # r => request'[t] = request[t]
  BY DEF Begin, CatalogInv, CatalogTypeOK
<1>2. /\ overlapped \subseteq overlapped'
      /\ \A t \in Request : request[t] # NoValue => common(t) \subseteq overlapped'
  BY DEF Begin
<1>3. overlapped' \subseteq Category \cup Product
  <2>1. About(q) \subseteq Category \cup Product
    BY AboutRows
  <2>2. overlapped' \subseteq overlapped \cup About(q)
    BY DEF Begin
  <2> QED
    BY <2>1, <2>2 DEF CatalogInv, CatalogTypeOK
<1>7. given' \subseteq Product \cup Image
  BY GivesRows DEF Begin, CatalogInv, CatalogTypeOK
<1>4. CatalogTypeOK' /\ KeysUnique' /\ CategoryInUse'
  BY <1>1, <1>2, <1>3, <1>7
     DEF CatalogInv, CatalogTypeOK, KeysUnique, NamesUnique, SkusUnique, CategoryInUse
<1>5. RequestsFit' /\ RequestsThere' /\ AsFound'
  <2> SUFFICES ASSUME NEW t \in Request, request'[t] # NoValue
               PROVE  Fits(request[t])' /\ There(request[t])' /\ StillSo(request[t])'
    BY DEF RequestsFit, RequestsThere, AsFound
  <2>1. Fits(request'[t]) /\ There(request'[t]) /\ StillSo(request'[t])
    BY <1>1 DEF CatalogInv, RequestsFit, RequestsThere, AsFound
  <2>2. Fits(request[t])' /\ There(request[t])'
    BY <2>1 DEF Fits, There, OfProduct, Placing
  <2>3. StillSo(request[t])'
    BY <1>2, <2>1 DEF StillSo, OfProduct, Placing, InUse, ProductFound
  <2> QED
    BY <2>2, <2>3
<1>6. Apart'
  <2> SUFFICES ASSUME NEW t \in Request, NEW x \in Request, t # x,
                      request'[t] # NoValue, request'[x] # NoValue
               PROVE  About(request'[t]) \cap About(request'[x]) \subseteq overlapped'
    BY DEF Apart, About
  <2>1. CASE t = r
    BY <1>1, <1>2, <2>1
  <2>2. CASE x = r
    BY <1>1, <1>2, <2>2
  <2>3. CASE t # r /\ x # r
    BY <1>1, <1>2, <2>3 DEF CatalogInv, Apart
  <2> QED
    BY <2>1, <2>2, <2>3
<1> QED
  BY <1>4, <1>5, <1>6 DEF CatalogInv

\* The next phase of the same request.
LEMMA Moved ==
  ASSUME CatalogInv, NEW r \in Request, request[r] # NoValue,
         NEW phase \in {"nombre", "categoria", "sku", "archivo", "guardar", "quitar"},
         GoTo(r, phase)
  PROVE  /\ request' \in [Request -> RequestRecord \cup {NoValue}]
         /\ request'[r] = [request[r] EXCEPT !.phase = phase]
         /\ request'[r] \in RequestRecord
         /\ \A t \in Request \ {r} : request'[t] = request[t]
         /\ overlapped' = overlapped /\ given' = given
         /\ Fits(request'[r])
         /\ About(request'[r]) = About(request[r])
<1>1. request[r] \in RequestRecord /\ Fits(request[r])
  BY DEF CatalogInv, CatalogTypeOK, RequestsFit
<1>2. [request[r] EXCEPT !.phase = phase] \in RequestRecord
  BY <1>1 DEF RequestRecord
<1>3. /\ request' \in [Request -> RequestRecord \cup {NoValue}]
      /\ request'[r] = [request[r] EXCEPT !.phase = phase]
      /\ \A t \in Request \ {r} : request'[t] = request[t]
      /\ overlapped' = overlapped /\ given' = given
  BY <1>2 DEF GoTo, CatalogInv, CatalogTypeOK
<1>4. Fits(request'[r])
  BY <1>1, <1>3 DEF Fits, OfProduct, RequestRecord
<1>5. About(request'[r]) = About(request[r])
  BY <1>1, <1>3 DEF About, RequestRecord
<1> QED
  BY <1>2, <1>3, <1>4, <1>5

-----------------------------------------------------------------------------
\* The requests that begin.
LEMMA AskedTyped ==
  ASSUME NEW kind \in {"altaCategoria", "edicionCategoria", "bajaCategoria", "altaProducto",
                       "edicionProducto", "configuracion", "imagen", "sinImagen"},
         NEW b \in Business,
         NEW phase \in {"nombre", "categoria", "sku", "archivo", "guardar", "quitar"}
  PROVE  Asked(kind, b, phase) \in RequestRecord
BY DEF Asked, RequestRecord

LEMMA CategoryGiven ==
  ASSUME NEW q \in RequestRecord, NEW c \in Category \cup {NoValue}
  PROVE  /\ \A nombre \in Name : [q EXCEPT !.categoria = c, !.nombre = nombre] \in RequestRecord
         /\ \A sku \in Sku \cup {NoValue}, imagen \in Image \cup {NoValue} :
               [q EXCEPT !.categoria = c, !.sku = sku, !.archivo = imagen] \in RequestRecord
<1>1. [q EXCEPT !.categoria = c] \in RequestRecord
  BY DEF RequestRecord
<1>2. ASSUME NEW nombre \in Name PROVE [q EXCEPT !.categoria = c, !.nombre = nombre] \in RequestRecord
  BY <1>1, <1>2 DEF RequestRecord
<1>3. ASSUME NEW sku \in Sku \cup {NoValue}, NEW imagen \in Image \cup {NoValue}
      PROVE  [q EXCEPT !.categoria = c, !.sku = sku, !.archivo = imagen] \in RequestRecord
  <2>1. [q EXCEPT !.categoria = c, !.sku = sku] \in RequestRecord
    BY <1>1 DEF RequestRecord
  <2>2. ASSUME NEW w \in RequestRecord PROVE [w EXCEPT !.archivo = imagen] \in RequestRecord
    BY DEF RequestRecord
  <2> QED
    BY <2>1, <2>2
<1> QED
  BY <1>2, <1>3

LEMMA ProductGiven ==
  ASSUME NEW q \in RequestRecord, NEW p \in Product, NEW row \in ProductRow
  PROVE  /\ [q EXCEPT !.producto = p, !.row = row] \in RequestRecord
         /\ \A c \in Category \cup {NoValue}, sku \in Sku \cup {NoValue} :
               [q EXCEPT !.producto = p, !.row = row, !.categoria = c, !.sku = sku] \in RequestRecord
<1>1. [q EXCEPT !.producto = p] \in RequestRecord
  BY DEF RequestRecord
<1>2. [q EXCEPT !.producto = p, !.row = row] \in RequestRecord
  BY <1>1 DEF RequestRecord
<1>3. ASSUME NEW c \in Category \cup {NoValue}, NEW sku \in Sku \cup {NoValue}
      PROVE  [q EXCEPT !.producto = p, !.row = row, !.categoria = c, !.sku = sku] \in RequestRecord
  <2>1. [q EXCEPT !.producto = p, !.row = row, !.categoria = c] \in RequestRecord
    BY <1>2 DEF RequestRecord
  <2>2. ASSUME NEW w \in RequestRecord PROVE [w EXCEPT !.sku = sku] \in RequestRecord
    BY DEF RequestRecord
  <2> QED
    BY <2>1, <2>2
<1> QED
  BY <1>2, <1>3

LEMMA StepCreateCategory ==
  ASSUME CatalogInv, NEW r \in Request, NEW b \in Business, NEW nombre \in Name,
         CreateCategory(r, b, nombre)
  PROVE  CatalogInv'
<1> DEFINE q == [Asked("altaCategoria", b, "guardar") EXCEPT !.nombre = nombre]
<1>1. q \in RequestRecord
  BY AskedTyped DEF RequestRecord
<1>2. Fits(q) /\ There(q) /\ StillSo(q)
  BY DEF Asked, Fits, There, StillSo, OfProduct, Placing
<1> QED
  BY <1>1, <1>2, Begun DEF CreateCategory

LEMMA StepUpdateCategory ==
  ASSUME CatalogInv, NEW r \in Request, NEW b \in Business, NEW c \in Category, NEW nombre \in Name,
         UpdateCategory(r, b, c, nombre)
  PROVE  CatalogInv'
<1> DEFINE phase == IF nombre = categories[c].nombre THEN "guardar" ELSE "nombre"
           q == [Asked("edicionCategoria", b, phase) EXCEPT !.categoria = c, !.nombre = nombre]
<1>1. q \in RequestRecord
  <2>1. Asked("edicionCategoria", b, phase) \in RequestRecord
    BY AskedTyped
  <2> QED
    BY <2>1, CategoryGiven
<1>2. Fits(q) /\ There(q) /\ StillSo(q)
  BY DEF Asked, Fits, There, StillSo, OfProduct, Placing, UpdateCategory, CategoryFound
<1> QED
  BY <1>1, <1>2, Begun DEF UpdateCategory

LEMMA StepDeleteCategory ==
  ASSUME CatalogInv, NEW r \in Request, NEW b \in Business, NEW c \in Category,
         DeleteCategory(r, b, c)
  PROVE  CatalogInv'
<1> DEFINE q == [Asked("bajaCategoria", b, "categoria") EXCEPT !.categoria = c]
<1>1. q \in RequestRecord
  BY AskedTyped DEF RequestRecord
<1>2. Fits(q) /\ There(q) /\ StillSo(q)
  BY DEF Asked, Fits, There, StillSo, OfProduct, Placing, DeleteCategory
<1> QED
  BY <1>1, <1>2, Begun DEF DeleteCategory

LEMMA StepCreateProduct ==
  ASSUME CatalogInv, NEW r \in Request, NEW b \in Business, NEW c \in Category,
         NEW sku \in Sku \cup {NoValue}, NEW imagen \in Image \cup {NoValue},
         CreateProduct(r, b, c, sku, imagen)
  PROVE  CatalogInv'
<1> DEFINE q == [Asked("altaProducto", b, "sku")
                   EXCEPT !.categoria = c, !.sku = sku, !.archivo = imagen]
<1>1. q \in RequestRecord
  <2>1. Asked("altaProducto", b, "sku") \in RequestRecord
    BY AskedTyped
  <2> QED
    BY <2>1, CategoryGiven
<1>2. Fits(q) /\ There(q) /\ StillSo(q)
  BY DEF Asked, Fits, There, StillSo, OfProduct, Placing, CreateProduct, CategoryFound
<1> QED
  BY <1>1, <1>2, Begun DEF CreateProduct

\* A product found is of its request's tenant, and so is its category.
LEMMA ProductThere ==
  ASSUME CatalogInv, NEW b \in Business, NEW p \in Product, ProductFound(p, b)
  PROVE  /\ products[p] \in ProductRow /\ products[p] # NoValue /\ BusinessOf[p] = b
         /\ products[p].categoria \in Category
         /\ categories[products[p].categoria] # NoValue
         /\ BusinessOf[products[p].categoria] = b
         /\ categories[products[p].categoria].borrada => products[p].categoria \in overlapped
BY DEF CatalogInv, CatalogTypeOK, ProductFound, CategoryInUse, ProductRow

LEMMA StepUpdateProduct ==
  ASSUME CatalogInv, NEW r \in Request, NEW b \in Business, NEW p \in Product,
         NEW c \in Category \cup {NoValue}, NEW sku \in Sku \cup {NoValue},
         NEW imagen \in Image \cup {NoValue}, UpdateProduct(r, b, p, c, sku, imagen)
  PROVE  CatalogInv'
<1> DEFINE phase == IF c = NoValue THEN "guardar" ELSE "categoria"
           row == [products[p] EXCEPT !.imagen = imagen]
           q == [Asked("edicionProducto", b, phase)
                   EXCEPT !.producto = p, !.row = row, !.categoria = c, !.sku = sku]
<1>0. row \in ProductRow /\ row.categoria = products[p].categoria
  <2>1. products[p] \in ProductRow
    BY ProductThere DEF UpdateProduct
  <2> QED
    BY <2>1 DEF ProductRow
<1>3. Begin(r, q) /\ UNCHANGED <<categories, products, settings>>
  BY DEF UpdateProduct
<1> HIDE DEF row
<1>1. q \in RequestRecord
  <2>1. Asked("edicionProducto", b, phase) \in RequestRecord
    BY AskedTyped
  <2>2. ASSUME NEW w \in RequestRecord
        PROVE  [w EXCEPT !.producto = p, !.row = row, !.categoria = c, !.sku = sku] \in RequestRecord
    BY <1>0, ProductGiven
  <2> QED
    BY <2>1, <2>2
<1>2. Fits(q) /\ There(q) /\ StillSo(q)
  BY <1>0, ProductThere DEF Asked, Fits, There, StillSo, OfProduct, Placing, UpdateProduct
<1> QED
  BY <1>1, <1>2, <1>3, Begun

LEMMA StepGetSettings ==
  ASSUME CatalogInv, NEW r \in Request, NEW b \in Business, GetSettings(r, b)
  PROVE  CatalogInv'
<1> DEFINE q == Asked("configuracion", b, "guardar")
<1>1. q \in RequestRecord
  BY AskedTyped
<1>2. Fits(q) /\ There(q) /\ StillSo(q)
  BY DEF Asked, Fits, There, StillSo, OfProduct, Placing
<1> QED
  BY <1>1, <1>2, Begun DEF GetSettings

LEMMA StepImage ==
  ASSUME CatalogInv, NEW r \in Request, NEW b \in Business, NEW p \in Product,
         Upload(r, b, p) \/ Remove(r, b, p)
  PROVE  CatalogInv'
<1>1. ASSUME NEW kind \in {"imagen", "sinImagen"}, NEW phase \in {"archivo", "guardar"},
             ProductFound(p, b), UNCHANGED <<categories, products, settings>>,
             Begin(r, [Asked(kind, b, phase) EXCEPT !.producto = p, !.row = products[p]])
      PROVE  CatalogInv'
  <2> DEFINE q == [Asked(kind, b, phase) EXCEPT !.producto = p, !.row = products[p]]
  <2>1. q \in RequestRecord
    <3>1. Asked(kind, b, phase) \in RequestRecord
      BY AskedTyped
    <3>2. products[p] \in ProductRow
      BY <1>1, ProductThere
    <3> QED
      BY <3>1, <3>2, ProductGiven
  <2>2. Fits(q) /\ There(q) /\ StillSo(q)
    BY <1>1, ProductThere DEF Asked, Fits, There, StillSo, OfProduct, Placing
  <2> QED
    BY <1>1, <2>1, <2>2, Begun
<1> QED
  BY <1>1 DEF Upload, Remove

-----------------------------------------------------------------------------
\* The checks in between, and the ends that change no row.
LEMMA Advanced ==
  ASSUME CatalogInv, NEW r \in Request, request[r] # NoValue,
         NEW phase \in {"nombre", "categoria", "sku", "archivo", "guardar", "quitar"},
         GoTo(r, phase), UNCHANGED <<categories, products, settings>>,
         There(request'[r]), StillSo(request'[r])
  PROVE  CatalogInv'
<1>1. (There(request[r]) /\ StillSo(request[r]))'
  BY Moved DEF There, StillSo, OfProduct, Placing, InUse, ProductFound
<1>2. Fits(request[r])'
  BY Moved DEF Fits, OfProduct
<1>3. Continues(r)
  BY <1>1, <1>2, Moved DEF Continues
<1> QED
  BY <1>3, NoRow

LEMMA Ended ==
  ASSUME CatalogInv, NEW r \in Request, request[r] # NoValue, Forget(r),
         UNCHANGED <<categories, products, settings>>
  PROVE  CatalogInv'
BY Forgotten, NoRow

LEMMA RequestHeld ==
  ASSUME CatalogInv, NEW r \in Request, request[r] # NoValue
  PROVE  /\ request[r] \in RequestRecord
         /\ Fits(request[r]) /\ There(request[r]) /\ StillSo(request[r])
BY DEF CatalogInv, CatalogTypeOK, RequestsFit, RequestsThere, AsFound

LEMMA StepCheck ==
  ASSUME CatalogInv, NEW r \in Request,
         CheckName(r) \/ FindDeleted(r) \/ FindCategory(r) \/ CheckSku(r)
  PROVE  CatalogInv'
<1> DEFINE q == request[r]
<1>1. q # NoValue /\ UNCHANGED <<categories, products, settings>>
  BY DEF CheckName, FindDeleted, FindCategory, CheckSku, At, Check
<1>2. CASE Forget(r)
  BY <1>1, <1>2, Ended
<1>3. ASSUME NEW phase \in {"guardar", "sku"}, GoTo(r, phase),
             There([q EXCEPT !.phase = phase]), StillSo([q EXCEPT !.phase = phase])
      PROVE  CatalogInv'
  <2>1. phase \in {"nombre", "categoria", "sku", "archivo", "guardar", "quitar"}
    OBVIOUS
  <2>2. request'[r] = [q EXCEPT !.phase = phase]
    BY <1>1, <1>3, <2>1, Moved
  <2> QED
    BY <1>1, <1>3, <2>1, <2>2, Advanced
<1>4. There(q) /\ StillSo(q) /\ q \in RequestRecord
  BY <1>1, RequestHeld
<1>5. CASE CheckName(r) /\ GoTo(r, "guardar")
  <2>1. There([q EXCEPT !.phase = "guardar"]) /\ StillSo([q EXCEPT !.phase = "guardar"])
    BY <1>4, <1>5 DEF CheckName, At, There, StillSo, OfProduct, Placing, RequestRecord
  <2> QED
    BY <1>3, <1>5, <2>1
<1>6. CASE /\ FindDeleted(r) /\ GoTo(r, "guardar")
           /\ CategoryFound(q.categoria, q.negocio)
  <2>1. There([q EXCEPT !.phase = "guardar"]) /\ StillSo([q EXCEPT !.phase = "guardar"])
    BY <1>4, <1>6
       DEF FindDeleted, At, There, StillSo, OfProduct, Placing, RequestRecord, CategoryFound
  <2> QED
    BY <1>3, <1>6, <2>1
<1>7. CASE /\ FindCategory(r) /\ GoTo(r, "sku")
           /\ CategoryFound(q.categoria, q.negocio)
  <2>1. There([q EXCEPT !.phase = "sku"]) /\ StillSo([q EXCEPT !.phase = "sku"])
    BY <1>4, <1>7
       DEF FindCategory, At, There, StillSo, OfProduct, Placing, RequestRecord, CategoryFound
  <2> QED
    BY <1>3, <1>7, <2>1
<1>8. CASE CheckSku(r) /\ GoTo(r, "guardar")
  <2>1. There([q EXCEPT !.phase = "guardar"]) /\ StillSo([q EXCEPT !.phase = "guardar"])
    BY <1>4, <1>8 DEF CheckSku, At, There, StillSo, OfProduct, Placing, RequestRecord
  <2> QED
    BY <1>3, <1>8, <2>1
<1> QED
  BY <1>2, <1>5, <1>6, <1>7, <1>8 DEF CheckName, FindDeleted, FindCategory, CheckSku, Check

LEMMA StepInsertSettings ==
  ASSUME CatalogInv, NEW r \in Request, InsertSettings(r) PROVE CatalogInv'
<1>1. request[r] # NoValue /\ Forget(r)
  BY DEF InsertSettings, At
<1>2. Continues(r) /\ request'[r] = NoValue
  BY <1>1, Forgotten
<1>3. settings' \in [Business -> Nat] /\ \A b \in Business : settings'[b] <= 1
  <2>1. request[r].negocio \in Business
    BY <1>1, RequestHeld DEF RequestRecord
  <2>2. settings \in [Business -> Nat] /\ \A b \in Business : settings[b] <= 1
    BY DEF CatalogInv, CatalogTypeOK, KeysUnique
  <2> QED
    BY <2>1, <2>2 DEF InsertSettings
<1>4. CatalogTypeOK' /\ KeysUnique' /\ CategoryInUse'
  BY <1>2, <1>3 DEF CatalogInv, CatalogTypeOK, KeysUnique, NamesUnique, SkusUnique, CategoryInUse,
                    Continues, InsertSettings
<1>5. RequestsThere' /\ AsFound'
  BY <1>2 DEF CatalogInv, RequestsThere, AsFound, There, StillSo, OfProduct, Placing, InUse,
              ProductFound, Continues, InsertSettings
<1> QED
  BY <1>2, <1>4, <1>5, ContinuesFit, ContinuesApart DEF CatalogInv

-----------------------------------------------------------------------------
\* The writes.
LEMMA StepInsertCategory ==
  ASSUME CatalogInv, NEW r \in Request, NEW c \in Category, InsertCategory(r, c)
  PROVE  CatalogInv'
<1> DEFINE row == [nombre |-> request[r].nombre, borrada |-> FALSE]
<1>1. request[r] # NoValue /\ Forget(r) /\ UNCHANGED <<products, settings>>
  BY DEF InsertCategory, At
<1>2. row \in CategoryRow
  BY <1>1, RequestHeld DEF InsertCategory, At, Fits, CategoryRow
<1>3. CASE UNCHANGED categories
  BY <1>1, <1>3, Ended
<1>4. CASE ~ NameTaken(c, row.nombre) /\ categories' = [categories EXCEPT ![c] = row]
  BY <1>1, <1>2, <1>4, CategoryWritten
<1> QED
  BY <1>3, <1>4 DEF InsertCategory

LEMMA StepSaveCategory ==
  ASSUME CatalogInv, NEW r \in Request, SaveCategory(r)
  PROVE  CatalogInv'
<1> DEFINE row == [nombre |-> request[r].nombre, borrada |-> FALSE]
           c == request[r].categoria
<1>1. request[r] # NoValue /\ Forget(r) /\ UNCHANGED <<products, settings>>
  BY DEF SaveCategory, At
<1>2. row \in CategoryRow /\ c \in Category
  BY <1>1, RequestHeld DEF SaveCategory, At, Fits, CategoryRow
<1>3. CASE UNCHANGED categories
  BY <1>1, <1>3, Ended
<1>4. CASE ~ NameTaken(c, row.nombre) /\ categories' = [categories EXCEPT ![c] = row]
  BY <1>1, <1>2, <1>4, CategoryWritten
<1> QED
  BY <1>3, <1>4 DEF SaveCategory

\* The name of a deleted category stays its own.
LEMMA StepSoftDelete ==
  ASSUME CatalogInv, NEW r \in Request, SoftDelete(r)
  PROVE  CatalogInv'
<1> DEFINE q == request[r]
           c == q.categoria
           row == [categories[c] EXCEPT !.borrada = TRUE]
<1>1. q # NoValue /\ Forget(r) /\ UNCHANGED <<products, settings>>
  BY DEF SoftDelete, At
<1>2. q \in RequestRecord /\ Fits(q) /\ There(q) /\ StillSo(q)
  BY <1>1, RequestHeld
<1>3. /\ c \in Category /\ categories[c] # NoValue /\ BusinessOf[c] = q.negocio
      /\ q.kind = "bajaCategoria"
  BY <1>2 DEF SoftDelete, At, Fits, There
<1>4. categories[c] \in CategoryRow
  BY <1>3 DEF CatalogInv, CatalogTypeOK
<1>5. row \in CategoryRow /\ row.nombre = categories[c].nombre
  BY <1>4 DEF CategoryRow
<1>6. ~ NameTaken(c, row.nombre)
  BY <1>3, <1>5 DEF NameTaken, CatalogInv, KeysUnique, NamesUnique
<1>7. c \in About(q)
  BY <1>3 DEF About
<1>8. c \in overlapped \/ ~ InUse(c, BusinessOf[c])
  BY <1>2, <1>3 DEF StillSo
<1>9. categories' = [categories EXCEPT ![c] = row]
  BY DEF SoftDelete
<1> HIDE DEF row
<1> QED
  BY <1>1, <1>3, <1>5, <1>6, <1>7, <1>8, <1>9, CategoryWritten

LEMMA StepInsertProduct ==
  ASSUME CatalogInv, NEW r \in Request, NEW p \in Product, InsertProduct(r, p)
  PROVE  CatalogInv'
<1> DEFINE q == request[r]
           row == [categoria |-> q.categoria, sku |-> q.sku, imagen |-> q.archivo]
<1>1. /\ q # NoValue /\ Forget(r) /\ UNCHANGED <<categories, settings>>
      /\ q.kind = "altaProducto" /\ BusinessOf[p] = q.negocio
  BY DEF InsertProduct, At
<1>2. q \in RequestRecord /\ Fits(q) /\ There(q) /\ StillSo(q)
  BY <1>1, RequestHeld
<1>3. /\ row \in ProductRow /\ row.sku = q.sku
      /\ row.categoria = q.categoria /\ q.categoria \in Category
  BY <1>1, <1>2 DEF Fits, ProductRow, RequestRecord
<1>4. /\ categories[row.categoria] # NoValue /\ BusinessOf[row.categoria] = BusinessOf[p]
      /\ categories[row.categoria].borrada => row.categoria \in overlapped
      /\ row.categoria \in About(q)
  BY <1>1, <1>2, <1>3 DEF There, StillSo, Placing, About
<1>5. Continues(r)
  BY <1>1, Forgotten
<1>6. CASE UNCHANGED products
  BY <1>1, <1>6, Ended
<1>7. CASE ~ SkuTaken(p, row.sku) /\ products' = [products EXCEPT ![p] = row]
  <2> HIDE DEF row
  <2> QED
    BY <1>1, <1>3, <1>4, <1>5, <1>7, ProductWritten
<1> QED
  BY <1>6, <1>7 DEF InsertProduct

LEMMA StepSaveProduct ==
  ASSUME CatalogInv, NEW r \in Request, SaveProduct(r)
  PROVE  CatalogInv'
<1> DEFINE q == request[r]
           p == q.producto
           sku == IF q.sku = NoValue THEN q.row.sku ELSE q.sku
           categoria == IF q.categoria = NoValue THEN q.row.categoria ELSE q.categoria
           row == [categoria |-> categoria, sku |-> sku, imagen |-> q.row.imagen]
<1>1. /\ q # NoValue /\ Forget(r) /\ UNCHANGED <<categories, settings>>
      /\ q.kind = "edicionProducto" /\ q.phase = "guardar"
  BY DEF SaveProduct, At
<1>2. q \in RequestRecord /\ Fits(q) /\ There(q) /\ StillSo(q)
  BY <1>1, RequestHeld
<1>3. /\ p \in Product /\ q.row \in ProductRow
      /\ q.categoria \in Category \cup {NoValue} /\ q.sku \in Sku \cup {NoValue}
  BY <1>1, <1>2 DEF Fits, OfProduct, RequestRecord
<1>4. /\ categoria \in Category /\ sku \in Sku \cup {NoValue}
      /\ categories[categoria] # NoValue /\ BusinessOf[categoria] = BusinessOf[p]
      /\ categories[categoria].borrada => categoria \in overlapped
      /\ categoria \in About(q)
  BY <1>1, <1>2, <1>3 DEF There, StillSo, Placing, OfProduct, About, ProductRow
<1> HIDE DEF sku, categoria
<1>5. /\ row \in ProductRow /\ row.sku = sku /\ row.categoria = categoria
  BY <1>3, <1>4 DEF ProductRow
<1>6. Continues(r)
  BY <1>1, Forgotten
<1>7. CASE UNCHANGED products
  BY <1>1, <1>7, Ended
<1>8. CASE ~ SkuTaken(p, row.sku) /\ products' = [products EXCEPT ![p] = row]
  <2> HIDE DEF row
  <2> QED
    BY <1>1, <1>3, <1>4, <1>5, <1>6, <1>8, ProductWritten
<1> QED
  BY <1>5, <1>7, <1>8 DEF SaveProduct, sku, categoria

-----------------------------------------------------------------------------
\* The images.
LEMMA StepSaveFile ==
  ASSUME CatalogInv, NEW r \in Request, NEW uuid \in Uuid, SaveFile(r, uuid)
  PROVE  CatalogInv'
<1> DEFINE q == request[r]
           i == [producto |-> q.producto, uuid |-> uuid]
           n == [q EXCEPT !.phase = "guardar", !.archivo = i]
<1>1. q # NoValue /\ q.kind = "imagen" /\ UNCHANGED <<categories, products, settings, overlapped, given>>
  BY DEF SaveFile, At
<1>2. q \in RequestRecord /\ Fits(q) /\ There(q) /\ StillSo(q)
  BY <1>1, RequestHeld
<1>3. i \in Image
  BY <1>1, <1>2 DEF Fits, OfProduct, Image
<1>4. n \in RequestRecord
  <2> HIDE DEF i
  <2>1. [q EXCEPT !.phase = "guardar"] \in RequestRecord
    BY <1>2 DEF RequestRecord
  <2> QED
    BY <1>3, <2>1 DEF RequestRecord
<1>5. /\ n.kind = q.kind /\ n.negocio = q.negocio /\ n.categoria = q.categoria
      /\ n.producto = q.producto /\ n.row = q.row
  BY <1>2 DEF RequestRecord
<1>6. request' = [request EXCEPT ![r] = n]
  BY DEF SaveFile
<1> HIDE DEF n
<1>7. Fits(n) /\ There(n) /\ StillSo(n) /\ About(n) = About(q)
  BY <1>1, <1>2, <1>5 DEF Fits, There, StillSo, OfProduct, Placing, About
<1>8. /\ request'[r] = n
      /\ request' \in [Request -> RequestRecord \cup {NoValue}]
      /\ \A t \in Request \ {r} : request'[t] = request[t]
  BY <1>4, <1>6 DEF CatalogInv, CatalogTypeOK
<1>9. (Fits(request[r]) /\ There(request[r]) /\ StillSo(request[r]))'
  BY <1>1, <1>7, <1>8 DEF Fits, There, StillSo, OfProduct, Placing, InUse, ProductFound
<1> QED
  BY <1>1, <1>7, <1>8, <1>9, NoRow DEF Continues

\* The product is saved as it was read but for its image.
LEMMA RowSaved ==
  ASSUME CatalogInv, NEW r \in Request, request[r] # NoValue, OfProduct(request[r]),
         NEW imagen \in Image \cup {NoValue}, SaveRow(request[r], imagen),
         ~ SkuTaken(request[r].producto, request[r].row.sku),
         UNCHANGED <<categories, settings>>,
         request[r].kind # "edicionProducto",
         Forget(r) \/ GoTo(r, "quitar")
  PROVE  CatalogInv'
<1> DEFINE q == request[r]
           p == q.producto
           row == [q.row EXCEPT !.imagen = imagen]
<1>1. q \in RequestRecord /\ Fits(q) /\ There(q) /\ StillSo(q)
  BY RequestHeld
<1>2. p \in Product /\ q.row \in ProductRow
  BY <1>1 DEF Fits
<1>3. row \in ProductRow /\ row.sku = q.row.sku /\ row.categoria = q.row.categoria
  BY <1>2 DEF ProductRow
<1>4. /\ categories[row.categoria] # NoValue /\ BusinessOf[row.categoria] = BusinessOf[p]
      /\ categories[row.categoria].borrada => row.categoria \in overlapped
  BY <1>1, <1>3 DEF There, StillSo
<1>5. row.categoria \in About(q)
  BY <1>2, <1>3 DEF About, ProductRow
<1>6. products' = [products EXCEPT ![p] = row]
  BY DEF SaveRow
<1> HIDE DEF row
<1>7. Continues(r)
  <2>1. CASE Forget(r)
    BY <2>1, Forgotten
  <2>2. CASE GoTo(r, "quitar")
    <3> DEFINE n == request'[r]
    <3>1. n = [q EXCEPT !.phase = "quitar"] /\ Fits(n) /\ overlapped' = overlapped
      BY <2>2, Moved
    <3>2. /\ n.kind = q.kind /\ n.negocio = q.negocio /\ n.producto = q.producto /\ n.row = q.row
      BY <1>1, <3>1 DEF RequestRecord
    <3>3. products'[p] # NoValue
      BY <1>2, <1>3, <1>6 DEF CatalogInv, CatalogTypeOK
    <3>4. There(request[r])'
      BY <1>1, <3>2, <3>3 DEF There, OfProduct, Placing
    <3>5. StillSo(request[r])'
      BY <1>1, <3>1, <3>2 DEF StillSo, OfProduct, Placing
    <3>6. Fits(request[r])'
      BY <3>1 DEF Fits, OfProduct
    <3> QED
      BY <2>2, <3>4, <3>5, <3>6, Moved DEF Continues
  <2> QED
    BY <2>1, <2>2
<1> QED
  BY <1>2, <1>3, <1>4, <1>5, <1>6, <1>7, ProductWritten

LEMMA StepSaveUploaded ==
  ASSUME CatalogInv, NEW r \in Request, SaveUploaded(r) PROVE CatalogInv'
<1>1. request[r] # NoValue /\ request[r].kind = "imagen" /\ UNCHANGED <<categories, settings>>
  BY DEF SaveUploaded, At
<1>2. CASE UNCHANGED products /\ Forget(r)
  BY <1>1, <1>2, Ended
<1>3. CASE /\ ~ SkuTaken(request[r].producto, request[r].row.sku)
           /\ SaveRow(request[r], request[r].archivo)
           /\ Forget(r) \/ GoTo(r, "quitar")
  <2>1. OfProduct(request[r]) /\ request[r].archivo \in Image \cup {NoValue}
    BY <1>1, RequestHeld DEF OfProduct, RequestRecord
  <2> QED
    BY <1>1, <1>3, <2>1, RowSaved
<1> QED
  BY <1>2, <1>3 DEF SaveUploaded

LEMMA StepSaveRemoved ==
  ASSUME CatalogInv, NEW r \in Request, SaveRemoved(r) PROVE CatalogInv'
<1> DEFINE imagen == products[request[r].producto].imagen
<1>1. request[r] # NoValue /\ request[r].kind = "sinImagen" /\ UNCHANGED <<categories, settings>>
  BY DEF SaveRemoved, At
<1>2. CASE UNCHANGED products /\ Forget(r)
  BY <1>1, <1>2, Ended
<1>3. CASE /\ ~ SkuTaken(request[r].producto, request[r].row.sku)
           /\ SaveRow(request[r], imagen)
           /\ GoTo(r, "quitar")
  <2>1. OfProduct(request[r]) /\ request[r].producto \in Product
    BY <1>1, RequestHeld DEF OfProduct, Fits
  <2>2. products[request[r].producto] \in ProductRow
    BY <1>1, <2>1, RequestHeld DEF There, CatalogInv, CatalogTypeOK
  <2>3. imagen \in Image \cup {NoValue}
    BY <2>2 DEF ProductRow
  <2> QED
    BY <1>1, <1>3, <2>1, <2>3, RowSaved
<1> QED
  BY <1>2, <1>3 DEF SaveRemoved

-----------------------------------------------------------------------------
LEMMA InitCatalog == Init => CatalogInv
<1> SUFFICES ASSUME Init PROVE CatalogInv
  OBVIOUS
<1>1. settings \in [Business -> Nat] /\ \A b \in Business : settings[b] <= 1
  BY DEF Init, CatalogInit
<1> QED
  BY <1>1 DEF Init, CatalogInit, CatalogInv, CatalogTypeOK, KeysUnique, NamesUnique, SkusUnique,
              CategoryInUse, RequestsFit, RequestsThere, AsFound, Apart

LEMMA CatalogStepKeeps ==
  ASSUME CatalogInv, NEW r \in Request, CatalogStep(r) PROVE CatalogInv'
BY StepCreateCategory, StepUpdateCategory, StepDeleteCategory, StepCreateProduct, StepUpdateProduct,
   StepGetSettings, StepInsertCategory, StepInsertProduct, StepCheck, StepSaveCategory,
   StepSoftDelete, StepSaveProduct, StepInsertSettings
   DEF CatalogStep

LEMMA NextCatalog ==
  ASSUME CatalogInv, [Next]_vars PROVE CatalogInv'
<1>1. ASSUME NEW r \in Request, RemoveFile(r) \/ FailHalfWay(r) PROVE CatalogInv'
  <2>1. /\ request[r] # NoValue /\ Forget(r)
        /\ UNCHANGED <<categories, products, settings>>
    BY <1>1 DEF RemoveFile, FailHalfWay, Fail, At
  <2> QED
    BY <2>1, Ended
<1>2. CASE UNCHANGED vars
  BY <1>2 DEF vars, catalogVars, CatalogInv, CatalogTypeOK, KeysUnique, NamesUnique, SkusUnique,
              CategoryInUse, RequestsFit, Fits, RequestsThere, There, AsFound, StillSo, Apart, About,
              OfProduct, Placing, InUse, ProductFound
<1>3. CASE Next
  BY <1>1, <1>3, CatalogStepKeeps, StepImage, StepSaveFile, StepSaveUploaded, StepSaveRemoved
     DEF Next
<1> QED
  BY <1>2, <1>3

\* The inductive invariant holds of the requests of catalog.service.ts,
\* product-images.controller.ts and settings.controller.ts.
THEOREM CatalogInvariant == Spec => []CatalogInv
<1>1. Init => CatalogInv
  BY InitCatalog
<1>2. CatalogInv /\ [Next]_vars => CatalogInv'
  BY NextCatalog
<1> QED
  BY <1>1, <1>2, PTL DEF Spec

\* Names, skus and settings stay unique: catalog.service.ts:11-18,
\* settings.controller.ts:2 and the unique keys under them.
THEOREM KeysStayUnique == Spec => []KeysUnique
<1>1. CatalogInv => KeysUnique
  BY DEF CatalogInv
<1> QED
  BY <1>1, CatalogInvariant, PTL

\* Only overlapping requests about a category leave a product in it deleted:
\* catalog.service.ts:13-18.
THEOREM CategoriesInUse == Spec => []CategoryInUse
<1>1. CatalogInv => CategoryInUse
  BY DEF CatalogInv
<1> QED
  BY <1>1, CatalogInvariant, PTL

\* Types, those of the files and of the history included.
THEOREM ImagesTyped == Spec => []ImagesTypeOK
<1> DEFINE FilesTyped == files \subseteq Image /\ interrupted \subseteq Product
<1>1. Init => FilesTyped
  BY DEF Init
<1>2. CatalogInv /\ FilesTyped /\ [Next]_vars => FilesTyped'
  <2> SUFFICES ASSUME CatalogInv, FilesTyped, [Next]_vars PROVE FilesTyped'
    OBVIOUS
  <2>1. ASSUME NEW r \in Request, NEW uuid \in Uuid, SaveFile(r, uuid) PROVE FilesTyped'
    <3>1. request[r].producto \in Product
      BY <2>1, RequestHeld DEF SaveFile, At, Fits, OfProduct
    <3> QED
      BY <2>1, <3>1 DEF SaveFile, Image
  <2>2. ASSUME NEW r \in Request, SaveUploaded(r) PROVE FilesTyped'
    <3>1. request[r].producto \in Product
      BY <2>2, RequestHeld DEF SaveUploaded, At, Fits, OfProduct
    <3> QED
      BY <2>2, <3>1 DEF SaveUploaded
  <2>3. ASSUME NEW r \in Request, RemoveFile(r) \/ SaveRemoved(r) PROVE FilesTyped'
    BY <2>3 DEF RemoveFile, SaveRemoved
  <2>4. ASSUME NEW r \in Request, FailHalfWay(r) PROVE FilesTyped'
    <3>1. request[r].producto \in Product \cup {NoValue}
      BY <2>4, RequestHeld DEF FailHalfWay, Fail, RequestRecord
    <3> QED
      BY <2>4, <3>1 DEF FailHalfWay
  <2>5. ASSUME NEW r \in Request, NEW b \in Business, NEW p \in Product,
               Upload(r, b, p) \/ Remove(r, b, p)
        PROVE  FilesTyped'
    BY <2>5 DEF Upload, Remove
  <2>6. CASE UNCHANGED <<files, interrupted>>
    BY <2>6
  <2> QED
    BY <2>1, <2>2, <2>3, <2>4, <2>5, <2>6 DEF Next, vars
<1>3. CatalogInv /\ FilesTyped => ImagesTypeOK
  BY DEF CatalogInv, ImagesTypeOK
<1> QED
  BY <1>1, <1>2, <1>3, CatalogInvariant, PTL DEF Spec

-----------------------------------------------------------------------------
\* The image files, of products whose requests do not overlap.

\* An image is of the product that names it, unless a body gave it.
OwnImage(i, p) == i \in given \cup {NoValue} \/ i.producto = p

\* The images a request holds are of its product or given; it has written none
\* before it has written one.
HoldsOwn(q) ==
  /\ OwnImage(q.row.imagen, q.producto) /\ OwnImage(q.archivo, q.producto)
  /\ q.kind # "imagen" \/ q.phase = "archivo" => q.archivo = NoValue

\* What a request has read, against the row as it is and the files there are; no
\* body names a file before the row does.
ReadsRow(q, row, there) ==
  /\ q.phase # "quitar" => q.row = row
  /\ q.kind = "imagen" /\ q.phase = "guardar" =>
       q.archivo \in there /\ q.archivo \notin given /\ q.archivo # q.row.imagen
  /\ q.kind = "imagen" /\ q.phase = "quitar" => q.archivo = row.imagen /\ q.archivo # q.row.imagen

\* A file is named by its product's row or held by a request about it.
Named(i, row, requests) ==
  /\ row # NoValue
  /\ \/ i = row.imagen
     \/ \E t \in Request : /\ requests[t] # NoValue /\ requests[t].producto = i.producto
                           /\ i \in {requests[t].archivo, requests[t].row.imagen}

RowsOwn == \A p \in Product : products[p] # NoValue => OwnImage(products[p].imagen, p)

\* A product is created with the image its body gave, or with none.
InsertsGiven ==
  \A r \in Request : request[r] # NoValue /\ request[r].kind = "altaProducto" =>
     request[r].archivo \in given \cup {NoValue}

RequestsOwn ==
  \A r \in Request : request[r] # NoValue /\ OfProduct(request[r]) =>
     LET q == request[r] IN
     /\ HoldsOwn(q)
     /\ q.producto \notin overlapped \cup given => ReadsRow(q, products[q.producto], files)

FilesNamed ==
  \A i \in files : i.producto \notin overlapped \cup interrupted \cup given =>
     Named(i, products[i.producto], request)

\* The catalogue as above, and no file but those its product or a request knows.
ImageInv ==
  CatalogInv /\ files \subseteq Image /\ RowsOwn /\ InsertsGiven /\ RequestsOwn /\ FilesNamed

\* What a step may do to the image a product names, as ImageKept says.
KeepsImages ==
  \A p \in Product : Served(p) /\ ~ Served(p)' =>
    \/ p \in overlapped \cup given
    \/ products[p].imagen \in given
    \/ \E r \in Request : At(r, "sinImagen", "quitar") /\ request[r].producto = p

\* Another request about the product of r makes the two overlap.
LEMMA Alone ==
  ASSUME CatalogInv, NEW r \in Request, request[r] # NoValue, OfProduct(request[r]),
         NEW t \in Request \ {r}, request[t] # NoValue,
         request[t].producto = request[r].producto
  PROVE  request[r].producto \in overlapped
<1>1. request[r].producto \in Product /\ request[r].producto # NoValue
  BY RequestHeld DEF Fits
<1>2. request[r].producto \in About(request[r]) /\ request[r].producto \in About(request[t])
  BY <1>1 DEF About
<1> QED
  BY <1>2 DEF CatalogInv, Apart

\* A step of request r that changes nothing but the row and the files of product
\* p, which no other request is about unless requests about p have overlapped, and
\* may remove a file that was given.
MovesOnly(r, p) ==
  /\ overlapped' = overlapped /\ given' = given /\ interrupted \subseteq interrupted'
  /\ \A t \in Request \ {r} :
        /\ request'[t] = request[t]
        /\ request[t] # NoValue /\ request[t].producto = p => p \in overlapped
  /\ request[r] # NoValue => request[r].producto \in {p, NoValue}
  /\ request'[r] # NoValue => request'[r].kind # "altaProducto"
  /\ \A x \in Product \ {p} : products'[x] = products[x]
  /\ files' \subseteq Image
  /\ \A i \in Image : i.producto # p => /\ i \in files' => i \in files
                                        /\ i \in files => i \in files' \cup given

\* What it has to show of p and of r for the invariant and ImageKept.
LeavesRight(r, p) ==
  /\ products'[p] # NoValue => OwnImage(products'[p].imagen, p)
  /\ request'[r] # NoValue /\ OfProduct(request'[r]) =>
       /\ request'[r].producto = p /\ HoldsOwn(request'[r])
       /\ p \notin overlapped \cup given => ReadsRow(request'[r], products'[p], files')
  /\ p \notin overlapped \cup interrupted' \cup given =>
       \A i \in files' : i.producto = p => Named(i, products'[p], request')
  /\ \/ p \in overlapped \cup given
     \/ products[p].imagen \in given
     \/ At(r, "sinImagen", "quitar") /\ request[r].producto = p
     \/ Served(p) => products'[p] # NoValue /\ products'[p].imagen \in files'

LEMMA ImagesMoved ==
  ASSUME ImageInv, CatalogInv', NEW r \in Request, NEW p \in Product,
         MovesOnly(r, p), LeavesRight(r, p)
  PROVE  ImageInv' /\ KeepsImages
<1>1. RowsOwn'
  <2> SUFFICES ASSUME NEW x \in Product, products'[x] # NoValue
               PROVE  OwnImage(products'[x].imagen, x)
    BY DEF RowsOwn, OwnImage, MovesOnly
  <2> QED
    BY DEF MovesOnly, LeavesRight, ImageInv, RowsOwn
<1>5. InsertsGiven'
  BY DEF MovesOnly, ImageInv, InsertsGiven
<1>2. RequestsOwn'
  <2> SUFFICES ASSUME NEW t \in Request, request'[t] # NoValue, OfProduct(request'[t])
               PROVE  /\ HoldsOwn(request'[t])
                      /\ request'[t].producto \notin overlapped' \cup given =>
                           ReadsRow(request'[t], products'[request'[t].producto], files')
    BY DEF RequestsOwn, HoldsOwn, ReadsRow, OfProduct, OwnImage, MovesOnly
  <2>1. CASE t = r
    BY <2>1 DEF MovesOnly, LeavesRight
  <2>2. CASE t # r
    <3> DEFINE q == request[t]
    <3>1. request'[t] = q /\ q # NoValue /\ OfProduct(q) /\ overlapped' = overlapped
      BY <2>2 DEF MovesOnly
    <3>2. q \in RequestRecord /\ Fits(q)
      BY <3>1, RequestHeld DEF ImageInv
    <3>3. /\ HoldsOwn(q)
          /\ q.producto \notin overlapped \cup given => ReadsRow(q, products[q.producto], files)
      BY <3>1 DEF ImageInv, RequestsOwn
    <3>4. ASSUME q.producto \notin overlapped \cup given
          PROVE  ReadsRow(q, products'[q.producto], files')
      <4>1. q.producto \in Product \ {p}
        BY <2>2, <3>1, <3>2, <3>4 DEF MovesOnly, Fits
      <4>2. products'[q.producto] = products[q.producto]
        BY <4>1 DEF MovesOnly
      <4>3. q.archivo \in files /\ q.archivo \notin given => q.archivo \in files'
        BY <3>3, <4>1 DEF MovesOnly, HoldsOwn, OwnImage, ImageInv
      <4> QED
        BY <3>3, <3>4, <4>2, <4>3 DEF ReadsRow
    <3> QED
      BY <3>1, <3>3, <3>4
  <2> QED
    BY <2>1, <2>2
<1>3. FilesNamed'
  <2> SUFFICES ASSUME NEW i \in files', i.producto \notin overlapped' \cup interrupted' \cup given'
               PROVE  Named(i, products'[i.producto], request')
    BY DEF FilesNamed, Named
  <2>1. CASE i.producto = p
    BY <2>1 DEF MovesOnly, LeavesRight
  <2>2. CASE i.producto # p
    <3>1. i \in Image /\ i \in files /\ i.producto \in Product /\ i.producto # NoValue
      BY <2>2 DEF MovesOnly, Image
    <3>2. Named(i, products[i.producto], request) /\ products'[i.producto] = products[i.producto]
      BY <2>2, <3>1 DEF MovesOnly, ImageInv, FilesNamed
    <3>3. ASSUME NEW t \in Request, request[t] # NoValue, request[t].producto = i.producto
          PROVE  request'[t] = request[t]
      BY <2>2, <3>1, <3>3 DEF MovesOnly
    <3> QED
      BY <3>2, <3>3 DEF Named
  <2> QED
    BY <2>1, <2>2
<1>4. KeepsImages
  <2> SUFFICES ASSUME NEW x \in Product, Served(x), ~ Served(x)'
               PROVE  \/ x \in overlapped \cup given
                      \/ products[x].imagen \in given
                      \/ \E t \in Request : At(t, "sinImagen", "quitar") /\ request[t].producto = x
    BY DEF KeepsImages
  <2>1. CASE x = p
    BY <2>1 DEF LeavesRight, Served
  <2>2. CASE x # p
    <3>1. products'[x] = products[x] /\ products[x] # NoValue /\ products[x].imagen \in files
      BY <2>2 DEF MovesOnly, Served
    <3>2. products[x].imagen \in Image
      BY <3>1 DEF ImageInv
    <3>3. products[x].imagen \in given \/ products[x].imagen.producto = x
      BY <3>1, <3>2 DEF ImageInv, RowsOwn, OwnImage
    <3>4. products[x].imagen \notin given => products[x].imagen \in files'
      BY <2>2, <3>1, <3>2, <3>3 DEF MovesOnly
    <3> QED
      BY <3>1, <3>4 DEF Served
  <2> QED
    BY <2>1, <2>2
<1> QED
  BY <1>1, <1>2, <1>3, <1>4, <1>5 DEF ImageInv, MovesOnly

\* A step of a request about a product moves nothing but that product.
LEMMA MovesOwn ==
  ASSUME ImageInv, NEW r \in Request, request[r] # NoValue, OfProduct(request[r]),
         overlapped' = overlapped, given' = given, interrupted \subseteq interrupted',
         \A t \in Request \ {r} : request'[t] = request[t],
         request'[r] # NoValue => request'[r].kind = request[r].kind,
         \A x \in Product \ {request[r].producto} : products'[x] = products[x],
         files' \subseteq Image,
         \A i \in Image : i.producto # request[r].producto =>
                          /\ i \in files' => i \in files
                          /\ i \in files => i \in files' \cup given
  PROVE  request[r].producto \in Product /\ MovesOnly(r, request[r].producto)
<1>1. request[r].producto \in Product
  BY RequestHeld DEF ImageInv, Fits
<1>2. ASSUME NEW t \in Request \ {r}, request[t] # NoValue,
             request[t].producto = request[r].producto
      PROVE  request[r].producto \in overlapped
  BY <1>2, Alone DEF ImageInv
<1> QED
  BY <1>1, <1>2 DEF MovesOnly, OfProduct

\* The only files of its product are the one the row names and those it holds.
LEMMA HeldHere ==
  ASSUME ImageInv, NEW r \in Request, request[r] # NoValue, OfProduct(request[r]),
         NEW i \in files, i.producto = request[r].producto,
         i.producto \notin overlapped \cup interrupted \cup given
  PROVE  /\ products[i.producto] # NoValue
         /\ i \in {products[i.producto].imagen, request[r].archivo, request[r].row.imagen}
<1>1. Named(i, products[i.producto], request)
  BY DEF ImageInv, FilesNamed
<1>2. ASSUME NEW t \in Request, request[t] # NoValue, request[t].producto = i.producto
      PROVE  t = r
  BY <1>2, Alone DEF ImageInv
<1> QED
  BY <1>1, <1>2 DEF Named

\* What a request about a product has read and holds.
LEMMA ProductRead ==
  ASSUME ImageInv, NEW r \in Request, request[r] # NoValue, OfProduct(request[r])
  PROVE  LET q == request[r] IN
         /\ q.producto \in Product /\ q.row \in ProductRow /\ q \in RequestRecord
         /\ products[q.producto] \in ProductRow /\ products[q.producto] # NoValue
         /\ OwnImage(products[q.producto].imagen, q.producto)
         /\ HoldsOwn(q)
         /\ q.producto \notin overlapped \cup given => ReadsRow(q, products[q.producto], files)
<1>1. request[r] \in RequestRecord /\ Fits(request[r]) /\ There(request[r])
  BY RequestHeld DEF ImageInv
<1>2. request[r].producto \in Product /\ request[r].row \in ProductRow
  BY <1>1 DEF Fits
<1>3. products[request[r].producto] # NoValue
  BY <1>1 DEF There
<1>4. products[request[r].producto] \in ProductRow
  BY <1>2, <1>3 DEF ImageInv, CatalogInv, CatalogTypeOK
<1>5. OwnImage(products[request[r].producto].imagen, request[r].producto)
  BY <1>2, <1>3 DEF ImageInv, RowsOwn
<1>6. /\ HoldsOwn(request[r])
      /\ request[r].producto \notin overlapped \cup given =>
           ReadsRow(request[r], products[request[r].producto], files)
  BY DEF ImageInv, RequestsOwn
<1> QED
  BY <1>1, <1>2, <1>3, <1>4, <1>5, <1>6

\* A request that ends as it began, or half-way on, leaves no file behind that
\* is not accounted for.
LEMMA EndsThere ==
  ASSUME ImageInv, CatalogInv', NEW r \in Request, request[r] # NoValue, OfProduct(request[r]),
         Forget(r), UNCHANGED <<products, files>>, interrupted \subseteq interrupted',
         \/ request[r].producto \in interrupted'
         \/ request[r].kind # "imagen" /\ request[r].phase # "quitar"
  PROVE  ImageInv' /\ KeepsImages
<1> DEFINE q == request[r]
           p == q.producto
<1>1. /\ p \in Product /\ products[p] # NoValue /\ OwnImage(products[p].imagen, p)
      /\ HoldsOwn(q) /\ (p \notin overlapped \cup given => ReadsRow(q, products[p], files))
  BY ProductRead
<1>2. /\ request'[r] = NoValue /\ overlapped' = overlapped /\ given' = given
      /\ \A t \in Request \ {r} : request'[t] = request[t]
  BY DEF Forget, ImageInv, CatalogInv, CatalogTypeOK
<1>3. MovesOnly(r, p)
  BY <1>2, MovesOwn DEF ImageInv
<1>4. ASSUME NEW i \in files, i.producto = p, p \notin overlapped \cup interrupted' \cup given
      PROVE  Named(i, products[p], request')
  <2>1. i \in {products[p].imagen, q.archivo, q.row.imagen}
    BY <1>4, HeldHere
  <2>2. q.archivo = NoValue /\ q.row = products[p]
    BY <1>1, <1>4 DEF HoldsOwn, ReadsRow
  <2>3. i # NoValue
    BY <1>4 DEF ImageInv
  <2> QED
    BY <1>1, <2>1, <2>2, <2>3 DEF Named
<1>5. LeavesRight(r, p)
  BY <1>1, <1>2, <1>4 DEF LeavesRight, Served
<1> QED
  BY <1>1, <1>3, <1>5, ImagesMoved

\* An edit of a product goes on.
LEMMA EditGoesOn ==
  ASSUME ImageInv, CatalogInv', NEW r \in Request, request[r] # NoValue,
         request[r].kind = "edicionProducto", request[r].phase # "quitar",
         NEW phase \in {"sku", "guardar"}, GoTo(r, phase),
         UNCHANGED <<products, files, interrupted>>
  PROVE  ImageInv' /\ KeepsImages
<1> DEFINE q == request[r]
           p == q.producto
           n == request'[r]
<1>0. OfProduct(q)
  BY DEF OfProduct
<1>1. /\ p \in Product /\ products[p] # NoValue /\ OwnImage(products[p].imagen, p)
      /\ HoldsOwn(q) /\ (p \notin overlapped \cup given => ReadsRow(q, products[p], files))
      /\ q \in RequestRecord
  BY <1>0, ProductRead
<1>2. /\ n = [q EXCEPT !.phase = phase] /\ overlapped' = overlapped /\ given' = given
      /\ \A t \in Request \ {r} : request'[t] = request[t]
  BY Moved DEF ImageInv
<1>3. /\ n.kind = q.kind /\ n.producto = p /\ n.row = q.row /\ n.archivo = q.archivo
      /\ n.phase = phase /\ n # NoValue
  <2>1. n.kind = q.kind /\ n.producto = p /\ n.row = q.row /\ n.archivo = q.archivo /\ n.phase = phase
    BY <1>1, <1>2 DEF RequestRecord
  <2>2. n \in RequestRecord
    <3>1. phase \in {"nombre", "categoria", "sku", "archivo", "guardar", "quitar"}
      OBVIOUS
    <3> HIDE DEF n
    <3> QED
      BY <3>1, Moved DEF ImageInv, n
  <2>3. n # NoValue
    <3> HIDE DEF n
    <3> QED
      BY <2>2
  <2> QED
    BY <2>1, <2>3
<1>4. MovesOnly(r, p)
  BY <1>0, <1>2, <1>3, MovesOwn DEF ImageInv
<1> HIDE DEF n
<1>5. ASSUME NEW i \in files, i.producto = p, p \notin overlapped \cup interrupted \cup given
      PROVE  Named(i, products[p], request')
  <2>1. i \in {products[p].imagen, q.archivo, q.row.imagen}
    BY <1>0, <1>5, HeldHere
  <2> QED
    BY <1>1, <1>3, <1>5, <2>1 DEF Named, n
<1>6. HoldsOwn(n) /\ (p \notin overlapped \cup given => ReadsRow(n, products[p], files))
  BY <1>1, <1>3 DEF HoldsOwn, ReadsRow
<1>7. LeavesRight(r, p)
  BY <1>1, <1>3, <1>5, <1>6 DEF LeavesRight, Served, n
<1> QED
  BY <1>1, <1>4, <1>7, ImagesMoved

\* A request that is about no product changes no image.
LEMMA NoImage ==
  ASSUME ImageInv, CatalogInv', NEW r \in Request,
         request[r] # NoValue, ~ OfProduct(request[r]),
         request'[r] # NoValue => /\ request'[r].kind = request[r].kind
                                  /\ request'[r].archivo = request[r].archivo,
         \A t \in Request \ {r} : request'[t] = request[t],
         UNCHANGED <<products, files, interrupted, overlapped, given>>
  PROVE  ImageInv' /\ KeepsImages
<1>1. RowsOwn' /\ KeepsImages
  BY DEF ImageInv, RowsOwn, OwnImage, KeepsImages, Served
<1>4. InsertsGiven'
  BY DEF ImageInv, InsertsGiven
<1>2. RequestsOwn'
  BY DEF ImageInv, RequestsOwn, HoldsOwn, ReadsRow, OfProduct, OwnImage
<1>3. FilesNamed'
  <2>1. request[r].producto = NoValue
    BY RequestHeld DEF ImageInv, Fits
  <2> SUFFICES ASSUME NEW i \in files, i.producto \notin overlapped \cup interrupted \cup given
               PROVE  Named(i, products[i.producto], request')
    BY DEF FilesNamed, Named
  <2>2. Named(i, products[i.producto], request) /\ i.producto # NoValue
    BY DEF ImageInv, FilesNamed, Image
  <2> QED
    BY <2>1, <2>2 DEF Named
<1> QED
  BY <1>1, <1>2, <1>3, <1>4 DEF ImageInv

\* A request begins with the row as it is, unless its body replaces the image,
\* and names no file that is being uploaded.
LEMMA ImagesBegin ==
  ASSUME ImageInv, CatalogInv', NEW r \in Request, NEW q, Begin(r, q),
         UNCHANGED <<products, files, interrupted>>,
         \A i \in Gives(q) : i \in Product \/ Known(i),
         q.kind = "altaProducto" => q.archivo \in given' \cup {NoValue},
         OfProduct(q) =>
           /\ q.producto \in Product /\ products[q.producto] # NoValue
           /\ q.row = products[q.producto] \/ q.producto \in given'
           /\ q.row.imagen \in given' \cup {NoValue} \/ q.row.imagen.producto = q.producto
           /\ q.archivo = NoValue /\ q.phase # "quitar" /\ (q.kind = "imagen" => q.phase = "archivo")
  PROVE  ImageInv' /\ KeepsImages
<1>1. /\ request[r] = NoValue /\ request'[r] = q /\ overlapped \subseteq overlapped'
      /\ \A t \in Request \ {r} : request'[t] = request[t]
  BY DEF Begin, ImageInv, CatalogInv, CatalogTypeOK
<1>2. given \subseteq given' /\ \A i \in given' : i \in given \cup Product \/ Known(i)
  BY DEF Begin
<1>3. RowsOwn' /\ KeepsImages
  BY <1>2 DEF ImageInv, RowsOwn, OwnImage, KeepsImages, Served
<1>4. InsertsGiven'
  BY <1>1, <1>2 DEF ImageInv, InsertsGiven
<1>5. RequestsOwn'
  <2> SUFFICES ASSUME NEW t \in Request, request'[t] # NoValue, OfProduct(request'[t])
               PROVE  /\ HoldsOwn(request[t])'
                      /\ request'[t].producto \notin overlapped' \cup given' =>
                           ReadsRow(request[t], products[request[t].producto], files)'
    BY DEF RequestsOwn, OfProduct
  <2>1. CASE t = r
    BY <1>1, <2>1 DEF HoldsOwn, ReadsRow, OwnImage
  <2>2. CASE t # r
    <3> DEFINE o == request[t]
    <3>1. request'[t] = o /\ o # NoValue /\ OfProduct(o)
      BY <1>1, <2>2
    <3>2. /\ HoldsOwn(o)
          /\ o.producto \notin overlapped \cup given => ReadsRow(o, products[o.producto], files)
      BY <3>1 DEF ImageInv, RequestsOwn
    <3>3. HoldsOwn(request[t])'
      BY <1>2, <3>1, <3>2 DEF HoldsOwn, OwnImage
    <3>4. ASSUME o.kind = "imagen", o.phase = "guardar", o.archivo \in files, o.archivo \notin given
          PROVE  o.archivo \notin given'
      <4>1. ~ Known(o.archivo)
        BY <3>1, <3>4 DEF Known, At
      <4>2. o.archivo \notin Product
        BY <3>4 DEF ImageInv
      <4> QED
        BY <1>2, <3>4, <4>1, <4>2
    <3> QED
      BY <1>1, <1>2, <3>1, <3>2, <3>3, <3>4 DEF ReadsRow
  <2> QED
    BY <2>1, <2>2
<1>6. FilesNamed'
  <2> SUFFICES ASSUME NEW i \in files, i.producto \notin overlapped' \cup interrupted \cup given'
               PROVE  Named(i, products[i.producto], request')
    BY DEF FilesNamed, Named
  <2>1. Named(i, products[i.producto], request)
    BY <1>1, <1>2 DEF ImageInv, FilesNamed
  <2> QED
    BY <1>1, <2>1 DEF Named
<1> QED
  BY <1>3, <1>4, <1>5, <1>6 DEF ImageInv

\* The requests that begin.
LEMMA BeginsImages ==
  ASSUME ImageInv, CatalogInv', NEW r \in Request, NEW b \in Business,
         UNCHANGED <<files, interrupted>>,
         \/ GetSettings(r, b)
         \/ \E nombre \in Name :
               CreateCategory(r, b, nombre) \/ \E c \in Category : UpdateCategory(r, b, c, nombre)
         \/ \E c \in Category : DeleteCategory(r, b, c)
         \/ \E sku \in Sku \cup {NoValue}, imagen \in Image \cup {NoValue} :
               \/ \E c \in Category : CreateProduct(r, b, c, sku, imagen)
               \/ \E p \in Product, c \in Category \cup {NoValue} :
                     UpdateProduct(r, b, p, c, sku, imagen)
         \/ \E p \in Product : Upload(r, b, p) \/ Remove(r, b, p)
  PROVE  ImageInv' /\ KeepsImages
<1>1. ASSUME NEW q, Begin(r, q), UNCHANGED products, ~ OfProduct(q), q.kind # "altaProducto",
             q.producto = NoValue, q.archivo = NoValue
      PROVE  ImageInv' /\ KeepsImages
  <2>1. Gives(q) = {}
    BY <1>1 DEF Gives
  <2> QED
    BY <1>1, <2>1, ImagesBegin
<1>2. CASE GetSettings(r, b)
  BY <1>1, <1>2 DEF GetSettings, Asked, OfProduct
<1>3. ASSUME NEW nombre \in Name, CreateCategory(r, b, nombre)
      PROVE  ImageInv' /\ KeepsImages
  <2> DEFINE q == [Asked("altaCategoria", b, "guardar") EXCEPT !.nombre = nombre]
  <2>1. /\ ~ OfProduct(q) /\ q.kind # "altaProducto"
        /\ q.producto = NoValue /\ q.archivo = NoValue
    BY DEF Asked, OfProduct
  <2> QED
    BY <1>1, <1>3, <2>1 DEF CreateCategory
<1>4. ASSUME NEW nombre \in Name, NEW c \in Category, UpdateCategory(r, b, c, nombre)
      PROVE  ImageInv' /\ KeepsImages
  <2> DEFINE q == [Asked("edicionCategoria", b,
                         IF nombre = categories[c].nombre THEN "guardar" ELSE "nombre")
                     EXCEPT !.categoria = c, !.nombre = nombre]
  <2>1. /\ ~ OfProduct(q) /\ q.kind # "altaProducto"
        /\ q.producto = NoValue /\ q.archivo = NoValue
    BY DEF Asked, OfProduct
  <2> QED
    BY <1>1, <1>4, <2>1 DEF UpdateCategory
<1>5. ASSUME NEW c \in Category, DeleteCategory(r, b, c)
      PROVE  ImageInv' /\ KeepsImages
  <2> DEFINE q == [Asked("bajaCategoria", b, "categoria") EXCEPT !.categoria = c]
  <2>1. /\ ~ OfProduct(q) /\ q.kind # "altaProducto"
        /\ q.producto = NoValue /\ q.archivo = NoValue
    BY DEF Asked, OfProduct
  <2> QED
    BY <1>1, <1>5, <2>1 DEF DeleteCategory
<1>6. ASSUME NEW c \in Category, NEW sku \in Sku \cup {NoValue},
             NEW imagen \in Image \cup {NoValue}, CreateProduct(r, b, c, sku, imagen)
      PROVE  ImageInv' /\ KeepsImages
  <2> DEFINE q == [Asked("altaProducto", b, "sku")
                     EXCEPT !.categoria = c, !.sku = sku, !.archivo = imagen]
  <2>1. ~ OfProduct(q) /\ q.producto = NoValue /\ q.archivo = imagen
    BY DEF Asked, OfProduct
  <2>2. Begin(r, q) /\ Known(imagen) /\ UNCHANGED products
    BY <1>6 DEF CreateProduct
  <2> HIDE DEF q
  <2>3. Gives(q) = {imagen} \ {NoValue}
    BY <2>1 DEF Gives
  <2>4. imagen \in given' \cup {NoValue}
    BY <2>2, <2>3 DEF Begin
  <2> QED
    BY <2>1, <2>2, <2>3, <2>4, ImagesBegin
<1>7. ASSUME NEW p \in Product, NEW c \in Category \cup {NoValue}, NEW sku \in Sku \cup {NoValue},
             NEW imagen \in Image \cup {NoValue}, UpdateProduct(r, b, p, c, sku, imagen)
      PROVE  ImageInv' /\ KeepsImages
  <2> DEFINE row == [products[p] EXCEPT !.imagen = imagen]
             q == [Asked("edicionProducto", b, IF c = NoValue THEN "guardar" ELSE "categoria")
                     EXCEPT !.producto = p, !.row = row, !.categoria = c, !.sku = sku]
  <2>1. products[p] \in ProductRow /\ products[p] # NoValue /\ p # NoValue
    BY <1>7 DEF UpdateProduct, ProductFound, ImageInv, CatalogInv, CatalogTypeOK
  <2>2. row.imagen = imagen /\ (imagen = products[p].imagen => row = products[p])
    BY <2>1 DEF ProductRow
  <2>3. Begin(r, q) /\ UNCHANGED products /\ (imagen = products[p].imagen \/ Known(imagen))
    BY <1>7 DEF UpdateProduct
  <2> HIDE DEF row
  <2>4. /\ q.producto = p /\ q.row = row /\ q.archivo = NoValue
        /\ q.phase # "quitar" /\ q.kind = "edicionProducto"
    BY DEF Asked
  <2> HIDE DEF q
  <2>5. Gives(q) = IF imagen = products[p].imagen THEN {} ELSE {p, imagen} \ {NoValue}
    BY <2>1, <2>2, <2>4 DEF Gives
  <2>6. /\ \A i \in Gives(q) : i \in Product \/ Known(i)
        /\ row = products[p] \/ p \in given'
    BY <2>1, <2>2, <2>3, <2>5 DEF Begin
  <2>7. row.imagen \in given' \cup {NoValue} \/ row.imagen.producto = p
    BY <2>1, <2>2, <2>3, <2>5 DEF Begin, ImageInv, RowsOwn, OwnImage
  <2> QED
    BY <2>1, <2>3, <2>4, <2>6, <2>7, ImagesBegin
<1>8. ASSUME NEW p \in Product, Upload(r, b, p)
      PROVE  ImageInv' /\ KeepsImages
  <2> DEFINE q == [Asked("imagen", b, "archivo") EXCEPT !.producto = p, !.row = products[p]]
  <2>1. /\ q.producto = p /\ q.row = products[p] /\ q.archivo = NoValue
        /\ q.phase = "archivo" /\ q.kind = "imagen"
    BY DEF Asked
  <2>2. Begin(r, q) /\ UNCHANGED products /\ products[p] # NoValue
    BY <1>8 DEF Upload, ProductFound
  <2> HIDE DEF q
  <2>3. Gives(q) = {}
    BY <2>1 DEF Gives
  <2>4. q.row.imagen \in given' \cup {NoValue} \/ q.row.imagen.producto = p
    BY <2>1, <2>2 DEF Begin, ImageInv, RowsOwn, OwnImage
  <2> QED
    BY <2>1, <2>2, <2>3, <2>4, ImagesBegin
<1>9. ASSUME NEW p \in Product, Remove(r, b, p)
      PROVE  ImageInv' /\ KeepsImages
  <2> DEFINE q == [Asked("sinImagen", b, "guardar") EXCEPT !.producto = p, !.row = products[p]]
  <2>1. /\ q.producto = p /\ q.row = products[p] /\ q.archivo = NoValue
        /\ q.phase = "guardar" /\ q.kind = "sinImagen"
    BY DEF Asked
  <2>2. Begin(r, q) /\ UNCHANGED products /\ products[p] # NoValue
    BY <1>9 DEF Remove, ProductFound
  <2> HIDE DEF q
  <2>3. Gives(q) = {}
    BY <2>1 DEF Gives
  <2>4. q.row.imagen \in given' \cup {NoValue} \/ q.row.imagen.producto = p
    BY <2>1, <2>2 DEF Begin, ImageInv, RowsOwn, OwnImage
  <2> QED
    BY <2>1, <2>2, <2>3, <2>4, ImagesBegin
<1> QED
  BY <1>2, <1>3, <1>4, <1>5, <1>6, <1>7, <1>8, <1>9

\* Requests about categories, settings and new products, step by step.
LEMMA OthersImages ==
  ASSUME ImageInv, CatalogInv', NEW r \in Request, UNCHANGED <<files, interrupted>>,
         \/ \E c \in Category : InsertCategory(r, c)
         \/ CheckName(r) \/ SaveCategory(r) \/ FindDeleted(r) \/ SoftDelete(r) \/ InsertSettings(r)
         \/ CheckSku(r) /\ request[r].kind = "altaProducto"
  PROVE  ImageInv' /\ KeepsImages
<1>1. /\ request[r] # NoValue /\ ~ OfProduct(request[r]) /\ UNCHANGED products
      /\ \/ Forget(r)
         \/ \E phase \in {"guardar", "sku"} : GoTo(r, phase)
  BY DEF InsertCategory, CheckName, SaveCategory, FindDeleted, SoftDelete, InsertSettings, CheckSku,
         Check, At, OfProduct
<1>2. CASE Forget(r)
  BY <1>1, <1>2, NoImage DEF Forget, ImageInv, CatalogInv, CatalogTypeOK
<1>3. ASSUME NEW phase \in {"guardar", "sku"}, GoTo(r, phase)
      PROVE  ImageInv' /\ KeepsImages
  <2>1. phase \in {"nombre", "categoria", "sku", "archivo", "guardar", "quitar"}
    OBVIOUS
  <2>2. /\ request'[r] = [request[r] EXCEPT !.phase = phase]
        /\ overlapped' = overlapped /\ given' = given
        /\ \A t \in Request \ {r} : request'[t] = request[t]
    BY <1>1, <1>3, <2>1, Moved DEF ImageInv
  <2>3. request'[r].kind = request[r].kind /\ request'[r].archivo = request[r].archivo
    BY <1>1, <2>2, RequestHeld DEF ImageInv, RequestRecord
  <2> QED
    BY <1>1, <2>2, <2>3, NoImage
<1> QED
  BY <1>1, <1>2, <1>3

\* A product that is inserted has a given image or none, and no file before it is
\* there.
LEMMA InsertImages ==
  ASSUME ImageInv, CatalogInv', NEW r \in Request, NEW p \in Product, InsertProduct(r, p),
         UNCHANGED <<files, interrupted>>
  PROVE  ImageInv' /\ KeepsImages
<1>1. /\ request[r] # NoValue /\ ~ OfProduct(request[r]) /\ Forget(r) /\ products[p] = NoValue
  BY DEF InsertProduct, At, OfProduct
<1>2. /\ request'[r] = NoValue /\ overlapped' = overlapped /\ given' = given
      /\ \A t \in Request \ {r} : request'[t] = request[t]
  BY <1>1 DEF Forget, ImageInv, CatalogInv, CatalogTypeOK
<1>3. CASE UNCHANGED products
  BY <1>1, <1>2, <1>3, NoImage
<1>4. CASE products' = [products EXCEPT ![p] = [categoria |-> request[r].categoria,
                                                 sku |-> request[r].sku,
                                                 imagen |-> request[r].archivo]]
  <2>1. /\ products'[p].imagen = request[r].archivo
        /\ \A x \in Product \ {p} : products'[x] = products[x]
    BY <1>4 DEF ImageInv, CatalogInv, CatalogTypeOK
  <2>2. ASSUME NEW t \in Request, request[t] # NoValue PROVE request[t].producto # p
    BY <1>1, <2>2, RequestHeld DEF ImageInv, Fits, There
  <2>3. request[r].producto = NoValue
    BY <1>1, RequestHeld DEF ImageInv, Fits
  <2>4. MovesOnly(r, p)
    BY <1>2, <2>1, <2>2, <2>3 DEF MovesOnly, ImageInv
  <2>5. ASSUME NEW i \in files, i.producto = p, p \notin overlapped \cup interrupted \cup given
        PROVE  FALSE
    BY <1>1, <2>5 DEF ImageInv, FilesNamed, Named
  <2>6. OwnImage(request[r].archivo, p)
    BY <1>1 DEF InsertProduct, At, ImageInv, InsertsGiven, OwnImage
  <2>7. LeavesRight(r, p)
    BY <1>1, <1>2, <2>1, <2>5, <2>6 DEF LeavesRight, Served
  <2> QED
    BY <2>4, <2>7, ImagesMoved
<1> QED
  BY <1>3, <1>4 DEF InsertProduct

\* Edits of a product write back the image they read.
LEMMA EditImages ==
  ASSUME ImageInv, CatalogInv', NEW r \in Request, UNCHANGED <<files, interrupted>>,
         \/ FindCategory(r) \/ SaveProduct(r)
         \/ CheckSku(r) /\ request[r].kind = "edicionProducto"
  PROVE  ImageInv' /\ KeepsImages
<1> DEFINE q == request[r]
           p == q.producto
<1>1. /\ q # NoValue /\ q.kind = "edicionProducto" /\ q.phase # "quitar" /\ OfProduct(q)
  BY DEF FindCategory, SaveProduct, CheckSku, At, OfProduct
<1>2. CASE Forget(r) /\ UNCHANGED products
  BY <1>1, <1>2, EndsThere
<1>3. CASE UNCHANGED products /\ \E phase \in {"sku", "guardar"} : GoTo(r, phase)
  BY <1>1, <1>3, EditGoesOn
<1>4. ASSUME NEW categoria \in Category, NEW sku \in Sku \cup {NoValue}, Forget(r),
             products' = [products EXCEPT ![p] = [categoria |-> categoria, sku |-> sku,
                                                  imagen |-> q.row.imagen]]
      PROVE  ImageInv' /\ KeepsImages
  <2>1. /\ p \in Product /\ products[p] # NoValue
        /\ HoldsOwn(q) /\ (p \notin overlapped \cup given => ReadsRow(q, products[p], files))
    BY <1>1, ProductRead
  <2>2. /\ request'[r] = NoValue /\ overlapped' = overlapped /\ given' = given
        /\ \A t \in Request \ {r} : request'[t] = request[t]
    BY <1>4 DEF Forget, ImageInv, CatalogInv, CatalogTypeOK
  <2>3. /\ products'[p].imagen = q.row.imagen
        /\ products'[p] = [categoria |-> categoria, sku |-> sku, imagen |-> q.row.imagen]
        /\ \A x \in Product \ {p} : products'[x] = products[x]
    BY <1>4, <2>1 DEF ImageInv, CatalogInv, CatalogTypeOK
  <2>4. MovesOnly(r, p)
    BY <1>1, <2>2, <2>3, MovesOwn DEF ImageInv
  <2>5. products'[p] # NoValue
    <3>1. q.row.imagen \in Image \cup {NoValue}
      BY <1>1, ProductRead DEF ProductRow
    <3>2. products'[p] \in ProductRow
      BY <2>3, <3>1 DEF ProductRow
    <3> QED
      BY <3>2
  <2>6. ASSUME NEW i \in files, i.producto = p, p \notin overlapped \cup interrupted \cup given
        PROVE  Named(i, products'[p], request')
    <3>1. i \in {products[p].imagen, q.archivo, q.row.imagen} /\ i # NoValue
      BY <1>1, <2>6, HeldHere DEF ImageInv
    <3>2. q.archivo = NoValue /\ q.row = products[p]
      BY <1>1, <2>1, <2>6 DEF HoldsOwn, ReadsRow
    <3> QED
      BY <2>3, <2>5, <3>1, <3>2 DEF Named
  <2>7. p \notin overlapped \cup given => products[p].imagen = q.row.imagen
    BY <1>1, <2>1 DEF ReadsRow
  <2>8. LeavesRight(r, p)
    BY <2>1, <2>2, <2>3, <2>5, <2>6, <2>7 DEF LeavesRight, HoldsOwn, Served
  <2> QED
    BY <2>1, <2>4, <2>8, ImagesMoved
<1>5. CASE SaveProduct(r)
  <2>1. q.row \in ProductRow /\ q \in RequestRecord
    BY <1>1, ProductRead
  <2>2. /\ (IF q.categoria = NoValue THEN q.row.categoria ELSE q.categoria) \in Category
        /\ (IF q.sku = NoValue THEN q.row.sku ELSE q.sku) \in Sku \cup {NoValue}
    BY <2>1 DEF ProductRow, RequestRecord
  <2> QED
    BY <1>2, <1>4, <1>5, <2>2 DEF SaveProduct
<1>6. CASE FindCategory(r) \/ CheckSku(r)
  BY <1>2, <1>3, <1>6 DEF FindCategory, CheckSku, Check
<1> QED
  BY <1>5, <1>6

LEMMA NamedSo ==
  ASSUME NEW i, NEW row, NEW requests, row # NoValue,
         \/ i = row.imagen
         \/ \E t \in Request : /\ requests[t] # NoValue /\ requests[t].producto = i.producto
                               /\ i \in {requests[t].archivo, requests[t].row.imagen}
  PROVE  Named(i, row, requests)
BY DEF Named

\* The file written is new, and held by the request that wrote it.
LEMMA SaveFileImages ==
  ASSUME ImageInv, CatalogInv', NEW r \in Request, NEW uuid \in Uuid, SaveFile(r, uuid)
  PROVE  ImageInv' /\ KeepsImages
<1> DEFINE q == request[r]
           p == q.producto
           i0 == [producto |-> p, uuid |-> uuid]
           n == [q EXCEPT !.phase = "guardar", !.archivo = i0]
<1>1. /\ q # NoValue /\ q.kind = "imagen" /\ q.phase = "archivo" /\ OfProduct(q)
      /\ Fresh(i0) /\ files' = files \cup {i0} /\ UNCHANGED <<products, overlapped, given, interrupted>>
      /\ request' = [request EXCEPT ![r] = n]
  BY DEF SaveFile, At, OfProduct
<1>2. /\ p \in Product /\ products[p] # NoValue /\ OwnImage(products[p].imagen, p)
      /\ HoldsOwn(q) /\ (p \notin overlapped \cup given => ReadsRow(q, products[p], files))
      /\ q \in RequestRecord
  BY <1>1, ProductRead
<1>3. i0 \in Image /\ i0.producto = p
  BY <1>2 DEF Image
<1>4. i0 \notin files \cup given /\ i0 # products[p].imagen /\ i0 # q.row.imagen
  <2>1. p # NoValue /\ i0 \notin Held(r)
    BY <1>1, <1>2 DEF Fresh
  <2> QED
    BY <1>1, <1>2, <2>1 DEF Fresh, Held
<1> HIDE DEF i0
<1>5. /\ n.kind = "imagen" /\ n.phase = "guardar" /\ n.producto = p /\ n.row = q.row
      /\ n.archivo = i0
  BY <1>1, <1>2 DEF RequestRecord
<1> HIDE DEF n
<1>6. request'[r] = n /\ \A t \in Request \ {r} : request'[t] = request[t]
  BY <1>1 DEF ImageInv, CatalogInv, CatalogTypeOK
<1>7. n # NoValue
  <2>1. [q EXCEPT !.phase = "guardar"] \in RequestRecord
    BY <1>2 DEF RequestRecord
  <2>2. n \in RequestRecord
    BY <1>3, <2>1 DEF n, RequestRecord
  <2> QED
    BY <2>2
<1>8. MovesOnly(r, p)
  BY <1>1, <1>3, <1>5, <1>6, MovesOwn DEF ImageInv
<1>9. HoldsOwn(n) /\ (p \notin overlapped \cup given => ReadsRow(n, products[p], files'))
  BY <1>1, <1>2, <1>3, <1>4, <1>5 DEF HoldsOwn, OwnImage, ReadsRow
<1>10. ASSUME NEW i \in files', i.producto = p, p \notin overlapped \cup interrupted \cup given
       PROVE  Named(i, products[p], request')
  <2>1. i = i0 \/ i \in {products[p].imagen, q.archivo, q.row.imagen}
    BY <1>1, <1>10, HeldHere
  <2>2. q.archivo = NoValue /\ i # NoValue
    BY <1>1, <1>2, <1>3, <1>10 DEF HoldsOwn, ImageInv
  <2>3. i = products[p].imagen \/ i \in {n.archivo, n.row.imagen}
    BY <1>5, <2>1, <2>2
  <2> QED
    BY <1>2, <1>5, <1>6, <1>7, <1>10, <2>3, NamedSo
<1>11. LeavesRight(r, p)
  BY <1>1, <1>2, <1>5, <1>6, <1>9, <1>10 DEF LeavesRight, Served
<1> QED
  BY <1>2, <1>8, <1>11, ImagesMoved

\* The row is saved with an image: the request goes on to remove the old one, or
\* ends when there was none.
LEMMA SavedImages ==
  ASSUME ImageInv, CatalogInv', NEW r \in Request, request[r] # NoValue, OfProduct(request[r]),
         NEW imagen \in Image \cup {NoValue}, SaveRow(request[r], imagen),
         UNCHANGED <<files, interrupted>>,
         \/ GoTo(r, "quitar")
         \/ Forget(r) /\ request[r].kind = "imagen" /\ request[r].row.imagen = NoValue,
         request[r].phase = "guardar",
         \/ request[r].kind = "imagen" /\ imagen = request[r].archivo
         \/ request[r].kind = "sinImagen" /\ imagen = products[request[r].producto].imagen
  PROVE  ImageInv' /\ KeepsImages
<1> DEFINE q == request[r]
           p == q.producto
           n == request'[r]
<1>1. /\ p \in Product /\ products[p] # NoValue /\ OwnImage(products[p].imagen, p)
      /\ HoldsOwn(q) /\ (p \notin overlapped \cup given => ReadsRow(q, products[p], files))
      /\ q \in RequestRecord /\ q.row \in ProductRow
  BY ProductRead
<1>2. overlapped' = overlapped /\ given' = given /\ \A t \in Request \ {r} : request'[t] = request[t]
  BY DEF Forget, GoTo, ImageInv, CatalogInv, CatalogTypeOK
<1>3. n = NoValue \/ (GoTo(r, "quitar") /\ n = [q EXCEPT !.phase = "quitar"])
  <2>1. CASE Forget(r)
    BY <2>1 DEF Forget, ImageInv, CatalogInv, CatalogTypeOK
  <2>2. CASE GoTo(r, "quitar")
    BY <2>2, Moved DEF ImageInv
  <2> QED
    BY <2>1, <2>2
<1>4. n # NoValue => /\ n.kind = q.kind /\ n.producto = p /\ n.row = q.row
                     /\ n.archivo = q.archivo /\ n.phase = "quitar"
  BY <1>1, <1>3 DEF RequestRecord
<1>5. GoTo(r, "quitar") => n # NoValue
  <2>1. GoTo(r, "quitar") => n \in RequestRecord
    BY Moved DEF ImageInv
  <2> QED
    BY <2>1
<1>6. /\ products'[p] # NoValue /\ products'[p].imagen = imagen
      /\ \A x \in Product \ {p} : products'[x] = products[x]
  <2> DEFINE row == [q.row EXCEPT !.imagen = imagen]
  <2>1. row \in ProductRow /\ row.imagen = imagen
    BY <1>1 DEF ProductRow
  <2> HIDE DEF row
  <2>2. products' = [products EXCEPT ![p] = row]
    BY DEF SaveRow, row
  <2>3. products'[p] = row /\ \A x \in Product \ {p} : products'[x] = products[x]
    BY <1>1, <2>2 DEF ImageInv, CatalogInv, CatalogTypeOK
  <2> QED
    BY <2>1, <2>3
<1> HIDE DEF n
<1>7. OwnImage(imagen, p)
  BY <1>1 DEF HoldsOwn
<1>8. MovesOnly(r, p)
  <2>1. request'[r] # NoValue => request'[r].kind = q.kind
    BY <1>4 DEF n
  <2> QED
    BY <1>2, <1>6, <2>1, MovesOwn DEF ImageInv
<1>9. n # NoValue => /\ HoldsOwn(n)
                     /\ p \notin overlapped \cup given => ReadsRow(n, products'[p], files)
  BY <1>1, <1>4, <1>6 DEF HoldsOwn, ReadsRow
<1>10. ASSUME NEW i \in files, i.producto = p, p \notin overlapped \cup interrupted \cup given
       PROVE  Named(i, products'[p], request')
  <2>1. i \in {products[p].imagen, q.archivo, q.row.imagen} /\ i # NoValue
    BY <1>10, HeldHere DEF ImageInv
  <2>2. q.row = products[p]
    BY <1>1, <1>10 DEF ReadsRow
  <2>3. CASE n # NoValue
    <3>1. i \in {n.archivo, n.row.imagen} /\ n.producto = i.producto
      BY <1>4, <1>10, <2>1, <2>2, <2>3
    <3> QED
      BY <1>6, <2>3, <3>1, NamedSo DEF n
  <2>4. CASE n = NoValue
    <3>1. q.kind = "imagen" /\ q.row.imagen = NoValue /\ imagen = q.archivo
      BY <1>5, <2>4
    <3> QED
      BY <1>6, <2>1, <2>2, <3>1, NamedSo
  <2> QED
    BY <2>3, <2>4
<1>11. p \notin overlapped \cup given => (Served(p) => imagen \in files)
  BY <1>1 DEF ReadsRow, Served
<1>12. LeavesRight(r, p)
  BY <1>2, <1>4, <1>6, <1>7, <1>9, <1>10, <1>11 DEF LeavesRight, n
<1> QED
  BY <1>1, <1>8, <1>12, ImagesMoved

LEMMA SaveImages ==
  ASSUME ImageInv, CatalogInv', NEW r \in Request, SaveUploaded(r) \/ SaveRemoved(r)
  PROVE  ImageInv' /\ KeepsImages
<1> DEFINE q == request[r]
<1>1. /\ q # NoValue /\ OfProduct(q) /\ q.phase = "guardar" /\ UNCHANGED files
      /\ (SaveUploaded(r) => q.kind = "imagen") /\ (SaveRemoved(r) => q.kind = "sinImagen")
  BY DEF SaveUploaded, SaveRemoved, At, OfProduct
<1>2. q \in RequestRecord /\ products[q.producto] \in ProductRow
  BY <1>1, ProductRead
<1>3. /\ q.archivo \in Image \cup {NoValue} /\ products[q.producto].imagen \in Image \cup {NoValue}
  BY <1>2 DEF RequestRecord, ProductRow
<1>4. CASE SaveUploaded(r) /\ SkuTaken(q.producto, q.row.sku)
  <2>1. Forget(r) /\ UNCHANGED products /\ interrupted' = interrupted \cup {q.producto}
    BY <1>4 DEF SaveUploaded
  <2> QED
    BY <1>1, <2>1, EndsThere
<1>5. CASE SaveUploaded(r) /\ ~ SkuTaken(q.producto, q.row.sku)
  <2>1. /\ SaveRow(q, q.archivo) /\ UNCHANGED interrupted
        /\ (q.row.imagen = NoValue /\ Forget(r)) \/ GoTo(r, "quitar")
    BY <1>5 DEF SaveUploaded
  <2> QED
    BY <1>1, <1>3, <1>5, <2>1, SavedImages
<1>6. CASE SaveRemoved(r) /\ SkuTaken(q.producto, q.row.sku)
  <2>1. Forget(r) /\ UNCHANGED <<products, interrupted>>
    BY <1>6 DEF SaveRemoved
  <2> QED
    BY <1>1, <1>6, <2>1, EndsThere
<1>7. CASE SaveRemoved(r) /\ ~ SkuTaken(q.producto, q.row.sku)
  <2>1. SaveRow(q, products[q.producto].imagen) /\ UNCHANGED interrupted /\ GoTo(r, "quitar")
    BY <1>7 DEF SaveRemoved
  <2> QED
    BY <1>1, <1>3, <1>7, <2>1, SavedImages
<1> QED
  BY <1>4, <1>5, <1>6, <1>7

\* The file removed is the one the row named before, not the one it names now.
LEMMA RemoveImages ==
  ASSUME ImageInv, CatalogInv', NEW r \in Request, RemoveFile(r)
  PROVE  ImageInv' /\ KeepsImages
<1> DEFINE q == request[r]
           p == q.producto
<1>1. /\ q # NoValue /\ OfProduct(q) /\ q.kind \in {"imagen", "sinImagen"} /\ q.phase = "quitar"
      /\ files' = files \ {q.row.imagen} /\ Forget(r) /\ UNCHANGED <<products, interrupted>>
  BY DEF RemoveFile, At, OfProduct
<1>2. /\ p \in Product /\ products[p] # NoValue /\ OwnImage(products[p].imagen, p)
      /\ HoldsOwn(q) /\ (p \notin overlapped \cup given => ReadsRow(q, products[p], files))
  BY <1>1, ProductRead
<1>3. /\ request'[r] = NoValue /\ overlapped' = overlapped /\ given' = given
      /\ \A t \in Request \ {r} : request'[t] = request[t]
  BY <1>1 DEF Forget, ImageInv, CatalogInv, CatalogTypeOK
<1>4. /\ files' \subseteq Image
      /\ \A i \in Image : i.producto # p => /\ i \in files' => i \in files
                                            /\ i \in files => i \in files' \cup given
  BY <1>1, <1>2 DEF ImageInv, HoldsOwn, OwnImage
<1>5. MovesOnly(r, p)
  BY <1>1, <1>3, <1>4, MovesOwn
<1>6. ASSUME NEW i \in files', i.producto = p, p \notin overlapped \cup interrupted \cup given
      PROVE  Named(i, products[p], request')
  <2>1. i \in {products[p].imagen, q.archivo, q.row.imagen} /\ i # NoValue /\ i # q.row.imagen
    BY <1>1, <1>6, HeldHere DEF ImageInv
  <2>2. q.archivo \in {NoValue, products[p].imagen}
    BY <1>1, <1>2, <1>6 DEF HoldsOwn, ReadsRow
  <2> QED
    BY <1>2, <2>1, <2>2, NamedSo
<1>7. \/ p \in overlapped \cup given \/ At(r, "sinImagen", "quitar")
      \/ Served(p) => products[p].imagen \in files'
  BY <1>1, <1>2 DEF ReadsRow, Served, At
<1>8. LeavesRight(r, p)
  BY <1>1, <1>2, <1>3, <1>6, <1>7 DEF LeavesRight
<1> QED
  BY <1>2, <1>5, <1>8, ImagesMoved

\* A request that stops half-way marks its product.
LEMMA FailImages ==
  ASSUME ImageInv, CatalogInv', NEW r \in Request, FailHalfWay(r)
  PROVE  ImageInv' /\ KeepsImages
<1>1. /\ request[r] # NoValue /\ Forget(r) /\ UNCHANGED <<products, files>>
      /\ interrupted' = interrupted \cup ({request[r].producto} \ {NoValue})
  BY DEF FailHalfWay, Fail
<1>2. CASE OfProduct(request[r])
  <2>1. request[r].producto \in Product /\ request[r].producto # NoValue
    BY <1>1, <1>2, RequestHeld DEF ImageInv, Fits
  <2> QED
    BY <1>1, <1>2, <2>1, EndsThere
<1>3. CASE ~ OfProduct(request[r])
  <2>1. request[r].producto = NoValue
    BY <1>1, <1>3, RequestHeld DEF ImageInv, Fits
  <2>2. /\ request'[r] = NoValue /\ overlapped' = overlapped /\ given' = given
        /\ interrupted' = interrupted
        /\ \A t \in Request \ {r} : request'[t] = request[t]
    BY <1>1, <2>1 DEF Forget, ImageInv, CatalogInv, CatalogTypeOK
  <2> QED
    BY <1>1, <1>3, <2>2, NoImage
<1> QED
  BY <1>2, <1>3

LEMMA InitImages == Init => ImageInv
BY InitCatalog DEF Init, CatalogInit, ImageInv, RowsOwn, InsertsGiven, RequestsOwn, FilesNamed

LEMMA CatalogStepImages ==
  ASSUME ImageInv, CatalogInv', NEW r \in Request, CatalogStep(r), UNCHANGED <<files, interrupted>>
  PROVE  ImageInv' /\ KeepsImages
<1>1. CASE \/ FindCategory(r) \/ SaveProduct(r)
           \/ CheckSku(r) /\ request[r].kind = "edicionProducto"
  BY <1>1, EditImages
<1>2. CASE \/ \E c \in Category : InsertCategory(r, c)
           \/ CheckName(r) \/ SaveCategory(r) \/ FindDeleted(r) \/ SoftDelete(r) \/ InsertSettings(r)
           \/ CheckSku(r) /\ request[r].kind = "altaProducto"
  BY <1>2, OthersImages
<1>3. CASE \E p \in Product : InsertProduct(r, p)
  BY <1>3, InsertImages
<1>4. CheckSku(r) => request[r].kind \in {"altaProducto", "edicionProducto"}
  BY DEF CheckSku, At
<1> QED
  BY <1>1, <1>2, <1>3, <1>4, BeginsImages DEF CatalogStep

LEMMA NextImages ==
  ASSUME ImageInv, [Next]_vars PROVE ImageInv' /\ KeepsImages
<1>1. CatalogInv'
  BY NextCatalog DEF ImageInv
<1>2. CASE UNCHANGED vars
  <2>1. RowsOwn' /\ KeepsImages
    BY <1>2 DEF vars, catalogVars, ImageInv, RowsOwn, OwnImage, KeepsImages, Served
  <2>4. InsertsGiven'
    BY <1>2 DEF vars, catalogVars, ImageInv, InsertsGiven
  <2>2. RequestsOwn'
    BY <1>2 DEF vars, catalogVars, ImageInv, RequestsOwn, HoldsOwn, ReadsRow, OfProduct, OwnImage
  <2>3. FilesNamed'
    BY <1>2 DEF vars, catalogVars, ImageInv, FilesNamed, Named
  <2> QED
    BY <1>1, <1>2, <2>1, <2>2, <2>3, <2>4 DEF vars, ImageInv
<1>3. CASE Next
  <2>1. PICK r \in Request :
          \/ CatalogStep(r) /\ UNCHANGED <<files, interrupted>>
          \/ \E b \in Business, p \in Product : Upload(r, b, p) \/ Remove(r, b, p)
          \/ \E uuid \in Uuid : SaveFile(r, uuid)
          \/ SaveUploaded(r) \/ SaveRemoved(r) \/ RemoveFile(r)
          \/ FailHalfWay(r)
    BY <1>3 DEF Next
  <2>2. ASSUME NEW b \in Business, NEW p \in Product, Upload(r, b, p) \/ Remove(r, b, p)
        PROVE  ImageInv' /\ KeepsImages
    <3>1. UNCHANGED <<files, interrupted>>
      BY <2>2 DEF Upload, Remove
    <3> QED
      BY <1>1, <2>2, <3>1, BeginsImages
  <2> QED
    BY <1>1, <2>1, <2>2, CatalogStepImages, SaveFileImages, SaveImages, RemoveImages, FailImages
<1> QED
  BY <1>2, <1>3

\* The inductive invariant of the image files holds.
THEOREM ImagesInvariant == Spec => []ImageInv
<1>1. Init => ImageInv
  BY InitImages
<1>2. ImageInv /\ [Next]_vars => ImageInv'
  BY NextImages
<1> QED
  BY <1>1, <1>2, PTL DEF Spec

\* A product whose requests neither overlapped nor stopped half-way nor replaced
\* its image by one given in a body has no file but the one it names:
\* product-images.controller.ts removes every other.
THEOREM NoFileStays == Spec => []NoFileLeft
<1>1. ImageInv => NoFileLeft
  <2> SUFFICES ASSUME ImageInv, NEW p \in Product, products[p] # NoValue, Quiet(p),
                      NEW i \in files, i.producto = p
               PROVE  i = products[p].imagen
    BY DEF NoFileLeft
  <2> QED
    BY DEF ImageInv, FilesNamed, Named, Quiet
<1> QED
  BY <1>1, ImagesInvariant, PTL

\* The image a product names stays until its removal is asked for, unless requests
\* about the product overlapped or a body gave it an image or gave its image:
\* product-images.controller.ts.
THEOREM ImagesKept == Spec => ImageKept
<1>1. ImageInv /\ [Next]_vars =>
        [\A p \in Product : Served(p) /\ ~ Served(p)' =>
           \/ p \in overlapped \cup given
           \/ products[p].imagen \in given
           \/ \E r \in Request : At(r, "sinImagen", "quitar") /\ request[r].producto = p]_vars
  BY NextImages DEF KeepsImages
<1> QED
  BY <1>1, ImagesInvariant, PTL DEF Spec, ImageKept
=============================================================================
