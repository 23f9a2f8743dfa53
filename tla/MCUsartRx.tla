----------------------------- MODULE MCUsartRx -----------------------------
(***************************************************************************)
(* UsartRx with rings of 2 and 4 bytes, short input of every kind, and     *)
(* arrays from the smallest legal size to one larger than any line.        *)
(***************************************************************************)
EXTENDS UsartRx

const_RxSize == 0 :> 4 @@ 1 :> 2 @@ 2 :> 2 @@ 3 :> 2
const_Data == <<65, NUL, 255>>
const_Lines == << <<65>>, <<>>, <<66, Space, 67>> >>
const_Words == << <<65>>, <<66, 200>> >>
const_Numbers == <<-32768, 7>>
=============================================================================
