---------------------------- MODULE MCMultiDisplay ----------------------------
(* An instance of MultiDisplay: a television that shows 1080p at 60 Hz and   *)
(* at the rate of films, an older DVI monitor whose own choice is not 60 Hz, *)
(* and a film.                                                               *)
EXTENDS MultiDisplay

CONSTANTS tv, dvi, b1, b2, hwc

Mode(w, h, r, wide, preferred) ==
    [w |-> w, h |-> h, r |-> r, inter |-> FALSE, wide |-> wide, preferred |-> preferred]

MCModes == (tv :> << Mode(1920, 1080, 60, FALSE, FALSE),
                     Mode(1920, 1080, 24, TRUE, FALSE) >>) @@
           (dvi :> << Mode(1024, 768, 75, FALSE, TRUE) >>)
MCVideoInfo == {[w |-> 1920, h |-> 1080, r |-> 24]}
=============================================================================
