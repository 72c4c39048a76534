----------------------------- MODULE MCItemRows -----------------------------
(* Two types that extend one: a conversion from one to the other, over     *)
(* their ancestor, leaves link rows at which other fields are now.         *)
EXTENDS ItemRows

MCOwn == [Base |-> <<>>, Bare |-> <<"link", "links">>, Full |-> <<"parts">>]
MCAncestor == [Bare |-> "Base", Full |-> "Base"]
MCPartFields == <<"links">>
=============================================================================
