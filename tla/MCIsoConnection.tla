--------------------------- MODULE MCIsoConnection --------------------------
(***************************************************************************)
(* The values with which TLC checks IsoConnection.                         *)
(***************************************************************************)
EXTENDS IsoConnection, TLC

mti0100 == <<0, 1, 0, 0>>
mti0200 == <<0, 2, 0, 0>>
mti0420 == <<0, 4, 2, 0>>

\* The kinds of template in data/template_messages.json: no follow-up, one with
\* an MTI of its own, one with the MTI of its original.
MCTemplates ==
  {[mti |-> mti0100, followUp |-> NoMTI],
   [mti |-> mti0100, followUp |-> mti0420],
   [mti |-> mti0200, followUp |-> mti0200]}

\* responseMTISet, the part these templates can meet
MCResponseMTIs == {<<0, 1, 1, 0>>, <<0, 2, 1, 0>>, <<0, 4, 3, 0>>}

ReferenceSymmetry == Permutations(References)
=============================================================================
