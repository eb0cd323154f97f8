---------------------------- MODULE MCConnection ----------------------------
(* Bytes are numbers, all different, and the newline is 0.                 *)
EXTENDS Connection

MCTexts == 
    {<<>>,
     <<<<1, 0, 2, 3>>, <<4, 0, 5>>>>,
     <<<<0>>, <<1, 2, 3, 4, 5, 6>>>>}
=============================================================================
