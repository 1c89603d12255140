----------------------------- MODULE MCDelivery -----------------------------
(* Three deliveries: the two of A are one message delivered twice, the     *)
(* third is of B.  C is a conversation of before: when its worker is there,*)
(* there is room for one more of the two.                                  *)
EXTENDS Delivery

CONSTANTS A, B, C, i1, i3

MCKeyOf == <<A, A, B>>
MCIdOf == <<i1, i1, i3>>
=============================================================================
