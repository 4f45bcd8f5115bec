------------------------------ MODULE MCCatalog ------------------------------
(* Instances of ProductImages, and Catalog in it, for TLC. *)
EXTENDS ProductImages, TLC

CONSTANTS c1, c2, c3, p1, p2, b1, b2, n1, n2, k1, i1, i2, r1, r2

TwoTenants == [x \in Category \cup Product |-> IF x = c3 THEN b2 ELSE b1]

Alike == Permutations(Request) \cup Permutations(Uuid) \cup Permutations(Name)
           \cup Permutations(Product) \cup Permutations({c1, c2})

Rows(S, table) == Cardinality({x \in S : table[x] # NoValue})
Busy(kinds) == \E r \in Request : request[r] # NoValue /\ request[r].kind \in kinds

OneByOne ==
  /\ overlapped = {} /\ interrupted = {} /\ Cardinality(given \cap Image) <= 1
  /\ ~ Busy({"altaCategoria", "edicionCategoria", "bajaCategoria"})
  /\ \E r \in Request : \A t \in Request \ {r} : request[t] = NoValue

\* Bounds.  The settings are read first while there is nothing else; the second
\* tenant only has a category, made before anything of the first tenant; and
\* images come and go while there is one category and one product or, as long as
\* requests have come one at a time, with two products and bodies that name at most
\* one image, without skus.  Otherwise there are two categories and a product, or a
\* category and two products.
FewAtOnce ==
  /\ (files # {} \/ interrupted # {} \/ given # {} \/ Busy({"imagen", "sinImagen"})) =>
        /\ Rows(Category, categories) = 1 /\ categories[c3] = NoValue
        /\ given # {} \/ Rows(Product, products) # 1 => OneByOne
        /\ \A p \in Product : products[p] # NoValue => products[p].sku = NoValue
        /\ \A r \in Request : request[r] # NoValue => request[r].sku = NoValue
  /\ Rows(Category, categories) + Rows(Product, products) <= 3
  /\ (Busy({"configuracion"}) \/ \E b \in Business : settings[b] = 0) =>
        Rows(Category, categories) = 0 /\ ~ Busy({"altaCategoria"})
  /\ (\E r \in Request : request[r] # NoValue /\ request[r].negocio = b2) =>
        /\ Rows({c1, c2}, categories) = 0
        /\ \A r \in Request : request[r] # NoValue => request[r].negocio = b2
        /\ ~ Busy({"edicionCategoria", "bajaCategoria"})
  /\ categories[c3] # NoValue => Rows({c1, c2}, categories) <= 1 /\ Rows(Product, products) <= 1
=============================================================================
