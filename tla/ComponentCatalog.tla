--------------------------- MODULE ComponentCatalog ---------------------------
(***************************************************************************)
(* What the "components" table promises to those who read it (the agent,   *)
(* GET /stats): the components of a document appear all together, in one   *)
(* step, or not at all, and stay.                                          *)
(***************************************************************************)
CONSTANTS
    Documents,
    NamesOf       \* Documents -> the component names a document lists

VARIABLE catalog  \* the <<document, name>> pairs a reader can see

Init == catalog = {}

Publish(d) == catalog' = catalog \cup ({d} \X NamesOf[d])

Next == \E d \in Documents : Publish(d)

Spec == Init /\ [][Next]_catalog
===============================================================================
