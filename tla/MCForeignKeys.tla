--------------------------- MODULE MCForeignKeys ---------------------------
(***************************************************************************)
(* Small instances of ForeignKeys for TLC: items refer to holdings, and    *)
(* holdings to instances.                                                  *)
(***************************************************************************)
EXTENDS ForeignKeys

ReferencedFirst == <<"instances", "holdings", "items">>

Chain == {<<"holdings", "instances">>, <<"items", "holdings">>}
AllKeys == Chain \cup {<<"items", "instances">>}

=============================================================================
