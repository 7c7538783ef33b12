------------------------- MODULE MCCatalogBootstrap -------------------------
(***************************************************************************)
(* Small instances of CatalogBootstrap for TLC: three processes, two       *)
(* deaths and a refused bootstrap.                                         *)
(***************************************************************************)
EXTENDS CatalogBootstrap
=============================================================================
