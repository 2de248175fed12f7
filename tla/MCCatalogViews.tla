--------------------------- MODULE MCCatalogViews ---------------------------
(***************************************************************************)
(* An instance of CatalogViews for TLC: three views, one over a table, one *)
(* over that view and a second table, one over both views; every order of  *)
(* creation.                                                               *)
(***************************************************************************)
EXTENDS CatalogViews

CONSTANTS class, settings, tables, columns, usage

BaseTables == [v \in Views |-> IF v = tables THEN {class}
                               ELSE IF v = columns THEN {settings} ELSE {}]

InnerViews == [v \in Views |-> IF v = tables THEN {}
                               ELSE IF v = columns THEN {tables} ELSE {tables, columns}]

AllOrders == {o \in [1 .. Cardinality(Views) -> Views] : RangeOf(o) = Views}
=============================================================================
