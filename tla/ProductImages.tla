---------------------------- MODULE ProductImages ----------------------------
(***************************************************************************)
(* The images of products, src/catalog/product-images.controller.ts, and   *)
(* the files they are kept in, src/storage/local-storage.provider.ts,      *)
(* together with the requests of Catalog.tla, which save the same rows.    *)
(***************************************************************************)
EXTENDS Catalog

VARIABLES files,        \* the image files under uploads/
          interrupted   \* history: products an image request stopped half-way on

vars == <<catalogVars, files, interrupted>>

Init == CatalogInit /\ files = {} /\ interrupted = {}

Held(r) == {request[r].archivo, request[r].row.imagen}

\* randomUUID() gives a name no file, row or request has, nor any body had.
Fresh(i) ==
  /\ i \notin files \cup given
  /\ \A p \in Product : products[p] # NoValue => products[p].imagen # i
  /\ \A r \in Request :
        request[r] # NoValue /\ request[r].producto # NoValue => i \notin Held(r)

\* The save of the product as it was read, with the image given.
SaveRow(q, imagen) ==
  products' = [products EXCEPT ![q.producto] = [q.row EXCEPT !.imagen = imagen]]

\* upload(): the product is read, the file written, the product saved, the file
\* it named before removed.
Upload(r, b, p) ==
  /\ ProductFound(p, b)
  /\ Begin(r, [Asked("imagen", b, "archivo") EXCEPT !.producto = p, !.row = products[p]])
  /\ UNCHANGED <<categories, products, settings, files, interrupted>>

SaveFile(r, uuid) ==
  LET i == [producto |-> request[r].producto, uuid |-> uuid] IN
  /\ At(r, "imagen", "archivo")
  /\ Fresh(i)
  /\ files' = files \cup {i}
  /\ request' = [request EXCEPT ![r].phase = "guardar", ![r].archivo = i]
  /\ UNCHANGED <<categories, products, settings, overlapped, given, interrupted>>

\* The unique key may refuse the sku written back: the file stays.
SaveUploaded(r) ==
  LET q == request[r] IN
  /\ At(r, "imagen", "guardar")
  /\ IF SkuTaken(q.producto, q.row.sku)
     THEN /\ Forget(r)
          /\ interrupted' = interrupted \cup {q.producto}
          /\ UNCHANGED products
     ELSE /\ SaveRow(q, q.archivo)
          /\ IF q.row.imagen = NoValue THEN Forget(r) ELSE GoTo(r, "quitar")
          /\ UNCHANGED interrupted
  /\ UNCHANGED <<categories, settings, files>>

\* remove(): the product has an image, is saved without one, and the file goes.
Remove(r, b, p) ==
  /\ ProductFound(p, b)
  /\ products[p].imagen # NoValue
  /\ Begin(r, [Asked("sinImagen", b, "guardar") EXCEPT !.producto = p, !.row = products[p]])
  /\ UNCHANGED <<categories, products, settings, files, interrupted>>

\* imagenUrl is set to undefined, which save() leaves alone: the row keeps it.
SaveRemoved(r) ==
  LET q == request[r] IN
  /\ At(r, "sinImagen", "guardar")
  /\ IF SkuTaken(q.producto, q.row.sku) THEN Forget(r) /\ UNCHANGED products
     ELSE SaveRow(q, products[q.producto].imagen) /\ GoTo(r, "quitar")
  /\ UNCHANGED <<categories, settings, files, interrupted>>

\* Mutants: the file is forgotten; the file just written goes.
RemoveNoFile(r) ==
  /\ At(r, "imagen", "quitar") \/ At(r, "sinImagen", "quitar")
  /\ Forget(r)
  /\ UNCHANGED <<categories, products, settings, files, interrupted>>

RemoveCurrentFile(r) ==
  /\ At(r, "imagen", "quitar") \/ At(r, "sinImagen", "quitar")
  /\ files' = files \ {products[request[r].producto].imagen}
  /\ Forget(r)
  /\ UNCHANGED <<categories, products, settings, interrupted>>

\* rm() with force: a file that is already gone is no error.
RemoveFile(r) ==
  /\ At(r, "imagen", "quitar") \/ At(r, "sinImagen", "quitar")
  /\ files' = files \ {request[r].row.imagen}
  /\ Forget(r)
  /\ UNCHANGED <<categories, products, settings, interrupted>>

FailHalfWay(r) ==
  /\ Fail(r)
  /\ interrupted' = interrupted \cup ({request[r].producto} \ {NoValue})
  /\ UNCHANGED files

Next ==
  \E r \in Request :
     \/ CatalogStep(r) /\ UNCHANGED <<files, interrupted>>
     \/ \E b \in Business, p \in Product : Upload(r, b, p) \/ Remove(r, b, p)
     \/ \E uuid \in Uuid : SaveFile(r, uuid)
     \/ SaveUploaded(r) \/ SaveRemoved(r) \/ RemoveFile(r)
     \/ FailHalfWay(r)

Spec == Init /\ [][Next]_vars

-----------------------------------------------------------------------------
ImagesTypeOK ==
  /\ CatalogTypeOK
  /\ files \subseteq Image
  /\ interrupted \subseteq Product

Quiet(p) ==
  /\ p \notin overlapped \cup interrupted \cup given
  /\ \A r \in Request : request[r] # NoValue => request[r].producto # p

\* A product whose requests neither overlapped nor stopped half-way nor replaced
\* its image by one given in a body has no file but the one it names, however
\* often its image was uploaded and removed and whoever else names its file.
NoFileLeft ==
  \A p \in Product : products[p] # NoValue /\ Quiet(p) =>
     {i \in files : i.producto = p} \subseteq {products[p].imagen}

Served(p) == products[p] # NoValue /\ products[p].imagen \in files

\* The image a product names stays there until its removal is asked for, however
\* uploads and edits of other products overlap.  Requests of one product that
\* overlap may lose it, by an edit that writes back the image it read; and it may
\* go when a body gave the product another, or gave this one to a product, whose
\* next upload removes it.
ImageKept ==
  [][\A p \in Product : Served(p) /\ ~ Served(p)' =>
       \/ p \in overlapped \cup given
       \/ products[p].imagen \in given
       \/ \E r \in Request : At(r, "sinImagen", "quitar") /\ request[r].producto = p]_vars
=============================================================================
