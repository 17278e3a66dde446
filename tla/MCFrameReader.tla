--------------------------- MODULE MCFrameReader ---------------------------
(* FrameReader over bytes of eight values, the magic being 6 and 7.         *)
EXTENDS FrameReader

(* A pixel frame with half the magic in it, one whose pixels are the magic  *)
(* and more, and an empty one.                                              *)
PixelFrames == {[type |-> 1, payload |-> <<2, 6>>],
                [type |-> 1, payload |-> <<6, 7, 2>>],
                [type |-> 3, payload |-> <<>>]}

(* Behind the magic these two read as a length the reader accepts.          *)
LengthLikeCrc == <<1, 0>>
=============================================================================
